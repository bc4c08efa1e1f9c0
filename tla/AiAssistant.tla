---------------------------- MODULE AiAssistant ----------------------------
(***************************************************************************)
(* The chat assistant: the widget of one browser tab                       *)
(* (react/src/components/ai-assistant-widget.tsx), the service that turns  *)
(* a question into a task and a job, and the worker that runs the job      *)
(* (nest/src/ai-assistant.service.ts, ai-assistant.processor.ts).          *)
(*                                                                         *)
(* A question is posted, stored as a task, queued as a job, run, and its   *)
(* answer comes back only because the widget polls the one task it holds   *)
(* in activeTaskId.  Questions are numbered in the order they are typed;   *)
(* a task, its job and its answer carry the number of their question (the  *)
(* widget gives every post a fresh requestId, so the lookup of a repeated  *)
(* one never finds a task here).  The text of messages, the tools and      *)
(* citations of an answer and the rights of the user are left out.         *)
(***************************************************************************)
EXTENDS Integers, Sequences, SequencesExt

CONSTANTS
    Questions,    \* how many questions the user types
    Chats,        \* how many conversations the user starts
    MaxQueue,     \* MAX_QUEUE of the widget (5 in the code)
    Attempts,     \* aiAssistant.queue.attempts
    MaxStalls,    \* bound: jobs BullMQ delivers again
    MaxMishaps    \* bound: lost replies, failed calls, settings changed

ASSUME AssistantAssumption ==
    /\ {Questions, Chats, MaxQueue, Attempts} \subseteq Nat \ {0}
    /\ {MaxStalls, MaxMishaps} \subseteq Nat

VARIABLES
    task,          \* the task store, by question
    job,           \* the BullMQ queue: whether a job waits, the tries it has left,
                   \* and how often it was delivered
    runs,          \* runChatJob calls in progress
    enabled,       \* settings.enabled
    requests,      \* chat mutations in flight (chat.isPending)
    conversation,  \* conversationId
    messages,      \* messages of the open conversation
    queue,         \* questions typed while one was in flight
    active,        \* activeTaskId, 0 for null
    polling,       \* refetchInterval of the active task is not false
    opening,       \* selectChat calls whose getTask has answered
    asked, chats,  \* history: questions typed, conversations started
    closed,        \* history: questions the widget gave up
    crossed,       \* history: a conversation was left while one of its posts was in flight
    stalls, mishaps

server == <<task, job, runs, enabled>>
widget == <<conversation, messages, queue, active, polling>>
user == <<asked, chats>>
told == <<closed, crossed>>
faults == <<stalls, mishaps>>
vars == <<server, requests, widget, opening, user, told, faults>>

Question == 1..Questions
Status == {"none", "pending", "running", "succeeded", "failed"}
Message == [of : Question, by : {"user", "assistant"}]
Task == [status : Status, output : BOOLEAN, chat : 0..Chats, input : Seq(Message)]
Ask(q) == [of |-> q, by |-> "user"]
Answer(q) == [of |-> q, by |-> "assistant"]
NoTask == [status |-> "none", output |-> FALSE, chat |-> 0, input |-> <<>>]
Alive(t) == t.status \in {"pending", "running"}

Mishap == mishaps < MaxMishaps /\ mishaps' = mishaps + 1

Init ==
    /\ task = [q \in Question |-> NoTask]
    /\ job = [q \in Question |-> [waiting |-> FALSE, tries |-> Attempts, delivery |-> 0]]
    /\ runs = {} /\ requests = {} /\ opening = {} /\ closed = {}
    /\ enabled = TRUE /\ polling = FALSE /\ crossed = FALSE
    /\ conversation = 1 /\ chats = 1 /\ asked = 0 /\ active = 0
    /\ messages = <<>> /\ queue = <<>>
    /\ stalls = 0 /\ mishaps = 0

-----------------------------------------------------------------------------
(* The widget.                                                             *)

\* Mutant: the post itself is not waited for.
OnlyTasksCount == active # 0

\* isProcessing
Processing == requests # {} \/ active # 0

\* Something is left to send: the effect on the queue runs before the next
\* event of the user is handled.
DequeueDue == ~Processing /\ queue # <<>>

\* sendChat: the question joins the messages and all of them are posted.
SendChat(q) ==
    LET updated == Append(messages, Ask(q)) IN
    /\ messages' = updated
    /\ requests' = requests \cup {[of |-> q, stage |-> "sent", chat |-> conversation, input |-> updated]}

\* submit: sent at once, or queued behind the question in flight.
Submit ==
    LET q == asked + 1 IN
    /\ asked < Questions /\ ~DequeueDue
    /\ asked' = q
    /\ \/ Processing /\ Len(queue) < MaxQueue /\ queue' = Append(queue, q) /\ UNCHANGED <<messages, requests>>
       \/ ~Processing /\ SendChat(q) /\ UNCHANGED queue
    /\ UNCHANGED <<server, conversation, active, polling, opening, chats, told, faults>>

\* The effect that sends the head of the queue when nothing is in flight.
Dequeue ==
    /\ DequeueDue
    /\ queue' = Tail(queue)
    /\ SendChat(Head(queue))
    /\ UNCHANGED <<server, conversation, active, polling, opening, user, told, faults>>

\* The user takes a question out of the queue.
Unqueue ==
    /\ ~DequeueDue
    /\ \E i \in DOMAIN queue : queue' = RemoveAt(queue, i)
    /\ UNCHANGED <<server, requests, conversation, messages, active, polling, opening, user, told, faults>>

\* Mutant: the task of the conversation left is still followed.
StillFollowing(c, shown, followed) ==
    /\ conversation' = c /\ messages' = shown /\ queue' = <<>>
    /\ active' = (IF followed = 0 THEN active ELSE followed)
    /\ polling' = (active' # 0)
    /\ crossed' = (crossed \/ requests # {})

\* The open conversation is replaced by another one.
OpenConversation(c, shown, followed) ==
    /\ conversation' = c
    /\ messages' = shown
    /\ queue' = <<>>
    /\ active' = followed
    /\ polling' = (followed # 0)
    /\ crossed' = (crossed \/ requests # {})

\* startNewChat
StartNewChat ==
    /\ chats < Chats /\ ~DequeueDue
    /\ chats' = chats + 1
    /\ OpenConversation(chats + 1, <<>>, 0)
    /\ UNCHANGED <<server, requests, opening, asked, closed, faults>>

\* selectChat: the item of the history (which may be an older list's) names a
\* task; getTask answers with the task as it is now ... (bound: one at a time)
SelectChat(q) ==
    /\ task[q].status # "none" /\ opening = {} /\ ~DequeueDue
    /\ opening' = {[of |-> q, read |-> task[q]]}
    /\ UNCHANGED <<server, requests, widget, user, told, faults>>

\* messagesFromTask
MessagesFromTask(q, t) == t.input \o (IF t.output THEN <<Answer(q)>> ELSE <<>>)

\* ... and that is what the widget shows once the answer is in.
ShowSelected(s) ==
    /\ ~DequeueDue
    /\ opening' = {}
    /\ OpenConversation(s.read.chat, MessagesFromTask(s.of, s.read), IF Alive(s.read) THEN s.of ELSE 0)
    /\ closed' = IF s.read.status = "failed" THEN closed \cup {s.of} ELSE closed
    /\ UNCHANGED <<server, requests, user, faults>>

\* onSuccess of the mutation: the new task is the one the widget follows.
Accepted(r) ==
    /\ r.stage = "queued"
    /\ requests' = requests \ {r}
    /\ active' = r.of /\ polling' = TRUE
    /\ UNCHANGED <<server, conversation, messages, queue, opening, user, told, faults>>

\* onError: the post was refused, or its reply was lost.
Rejected(r) ==
    /\ \/ r.stage = "refused" /\ UNCHANGED mishaps
       \/ r.stage = "queued" /\ Mishap
    /\ requests' = requests \ {r}
    /\ closed' = closed \cup {r.of}
    /\ UNCHANGED <<server, widget, opening, user, crossed, stalls>>

\* The task query refetches, and the effect on its data settles the question.
\* (A refetch that finds the task alive changes nothing.)
Poll ==
    LET t == task[active] IN
    /\ active # 0 /\ polling
    /\ ~Alive(t)
    /\ \/ /\ t.status = "succeeded" /\ t.output
          /\ messages' = IF Contains(messages, Answer(active)) THEN messages ELSE Append(messages, Answer(active))
          /\ UNCHANGED closed
       \/ t.status = "failed" /\ closed' = closed \cup {active} /\ UNCHANGED messages
    /\ active' = 0 /\ polling' = FALSE
    /\ UNCHANGED <<server, requests, conversation, queue, opening, user, crossed, faults>>

\* The first fetch of a task fails, its retry too: without data the interval is false.
PollFails ==
    /\ active # 0 /\ polling /\ Mishap
    /\ polling' = FALSE
    /\ UNCHANGED <<server, requests, conversation, messages, queue, active, opening, user, told, stalls>>

-----------------------------------------------------------------------------
(* The service.                                                            *)

At(r, stage) == requests' = (requests \ {r}) \cup {[r EXCEPT !.stage = stage]}

\* enqueueChat up to taskStore.enqueue.
EnqueueChat(r) ==
    /\ r.stage = "sent"
    /\ \/ ~enabled /\ At(r, "refused") /\ UNCHANGED task
       \/ /\ enabled /\ At(r, "stored")
          /\ task' = [task EXCEPT ![r.of] =
                 [status |-> "pending", output |-> FALSE, chat |-> r.chat, input |-> r.input]]
    /\ UNCHANGED <<job, runs, enabled, widget, opening, user, told, faults>>

\* enqueueJob: the job is added, or the call fails and leaves the task behind.
EnqueueJob(r) ==
    /\ r.stage = "stored"
    /\ \/ At(r, "queued") /\ job' = [job EXCEPT ![r.of].waiting = TRUE] /\ UNCHANGED mishaps
       \/ At(r, "refused") /\ Mishap /\ UNCHANGED job
    /\ UNCHANGED <<task, runs, enabled, widget, opening, user, told, stalls>>

\* updateSettings switches the assistant on or off.
UpdateSettings ==
    /\ Mishap
    /\ enabled' = ~enabled
    /\ UNCHANGED <<task, job, runs, requests, widget, opening, user, told, stalls>>

Running(q) == task' = [task EXCEPT ![q].status = "running"]

\* BullMQ hands the job to a worker; runChatJob marks the task running first.
BeginRun(q) ==
    /\ job[q].waiting /\ job[q].tries > 0
    /\ job' = [job EXCEPT ![q] = [waiting |-> FALSE, tries |-> @.tries - 1, delivery |-> @.delivery + 1]]
    /\ runs' = runs \cup {[of |-> q, delivery |-> job'[q].delivery, stage |-> "begun"]}
    /\ Running(q)
    /\ UNCHANGED <<enabled, requests, widget, opening, user, told, faults>>

\* The job has not been delivered again since this call of runChatJob began.
Holds(r) == r.delivery = job[r.of].delivery

\* The call of runChatJob throws: BullMQ tries again while attempts are left,
\* unless the job has gone to another worker.
Throws(r) ==
    /\ runs' = runs \ {r}
    /\ job' = [job EXCEPT ![r.of].waiting = @ \/ (Holds(r) /\ job[r.of].tries > 0)]

\* The settings, read after the task was marked running: if they refuse, the
\* call throws outside the try and the task is left running.
CheckSettings(r) ==
    /\ r.stage = "begun"
    /\ \/ ~enabled /\ Throws(r) /\ UNCHANGED task
       \/ /\ enabled /\ Running(r.of)
          /\ runs' = (runs \ {r}) \cup {[r EXCEPT !.stage = "generating"]}
          /\ UNCHANGED job
    /\ UNCHANGED <<enabled, requests, widget, opening, user, told, faults>>

\* The provider answers: status and output in one update ...
Succeed(r) ==
    /\ r.stage = "generating"
    /\ runs' = runs \ {r}
    /\ task' = [task EXCEPT ![r.of].status = "succeeded", ![r.of].output = TRUE]
    /\ UNCHANGED <<job, enabled, requests, widget, opening, user, told, faults>>

\* Mutant: the catch block rethrows without a word.
FailSilently(r) ==
    /\ r.stage = "generating"
    /\ Throws(r)
    /\ UNCHANGED <<task, enabled, requests, widget, opening, user, told, faults>>

\* ... or the call ends in its catch block.
Fail(r) ==
    /\ r.stage = "generating"
    /\ task' = [task EXCEPT ![r.of].status = "failed"]
    /\ Throws(r)
    /\ UNCHANGED <<enabled, requests, widget, opening, user, told, faults>>

\* The worker loses its lock on the job, dead or only late: BullMQ delivers the
\* job again and does not count the try.
Stall(r) ==
    /\ stalls < MaxStalls /\ stalls' = stalls + 1
    /\ \E dead \in BOOLEAN : runs' = IF dead THEN runs \ {r} ELSE runs
    /\ Holds(r) /\ ~job[r.of].waiting
    /\ job' = [job EXCEPT ![r.of] = [waiting |-> TRUE, tries |-> @.tries + 1, delivery |-> @.delivery]]
    /\ UNCHANGED <<task, enabled, requests, widget, opening, user, told, mishaps>>

-----------------------------------------------------------------------------
Next ==
    \/ Submit \/ Dequeue \/ Unqueue \/ StartNewChat \/ Poll \/ PollFails \/ UpdateSettings
    \/ \E q \in Question : SelectChat(q) \/ BeginRun(q)
    \/ \E s \in opening : ShowSelected(s)
    \/ \E r \in requests : Accepted(r) \/ Rejected(r) \/ EnqueueChat(r) \/ EnqueueJob(r)
    \/ \E r \in runs : CheckSettings(r) \/ Succeed(r) \/ Fail(r) \/ Stall(r)

Spec == Init /\ [][Next]_vars

\* Requests, jobs and polls go on by themselves; the user owes nothing.
FairSpec ==
    /\ Spec
    /\ WF_vars(Dequeue) /\ WF_vars(Poll)
    /\ WF_vars(\E r \in requests : Accepted(r) \/ Rejected(r) \/ EnqueueChat(r) \/ EnqueueJob(r))
    /\ \A q \in Question : WF_vars(BeginRun(q))
    /\ \A q \in Question : WF_vars(\E r \in runs : r.of = q /\ (CheckSettings(r) \/ Succeed(r) \/ Fail(r)))
-----------------------------------------------------------------------------
TypeOK ==
    /\ task \in [Question -> Task]
    /\ job \in [Question -> [waiting : BOOLEAN, tries : Nat, delivery : Nat]]
    /\ runs \subseteq [of : Question, delivery : Nat, stage : {"begun", "generating"}]
    /\ requests \subseteq [of : Question, stage : {"sent", "stored", "queued", "refused"},
                           chat : 1..Chats, input : Seq(Message)]
    /\ conversation \in 1..Chats /\ chats \in 1..Chats
    /\ messages \in Seq(Message) /\ queue \in Seq(Question) /\ Len(queue) =< MaxQueue
    /\ active \in 0..Questions /\ asked \in 0..Questions
    /\ {enabled, polling, crossed} \subseteq BOOLEAN
    /\ opening \subseteq [of : Question, read : Task]
    /\ closed \subseteq Question /\ stalls \in 0..MaxStalls /\ mishaps \in 0..MaxMishaps

Before(m, n, list) == \E i, j \in DOMAIN list : i < j /\ list[i] = m /\ list[j] = n

(***************************************************************************)
(* Every answer a conversation shows follows its question, whatever the    *)
(* user opened, closed or queued while it was on its way - unless the user *)
(* left a conversation while a post of it was in flight: onSuccess then    *)
(* follows the left conversation's task, and its answer ends up in the one *)
(* now open (ai-assistant-widget.tsx:138).                                 *)
(***************************************************************************)
AnswersBelong ==
    ~crossed => \A q \in Question :
        Contains(messages, Answer(q)) => Before(Ask(q), Answer(q), messages)

(***************************************************************************)
(* Questions take turns: what is posted to the service holds the answer to *)
(* every earlier question in it, except to one the widget gave up (a post  *)
(* that failed, a task that failed); so no answer is left behind and the   *)
(* model never reads a conversation with a hole.                           *)
(***************************************************************************)
QuestionsTakeTurns ==
    ~crossed => \A r \in requests : \A q \in Question \ closed :
        Before(Ask(q), Ask(r.of), r.input) => Before(Answer(q), Ask(r.of), r.input)

(***************************************************************************)
(* A question typed into the open conversation is in the end answered,     *)
(* given up with a message, or no longer there because the user left or    *)
(* took it back, as long as BullMQ delivers the job of a worker that       *)
(* stalled or died once more.  Not so after a call that failed or a change *)
(* of the settings, which can leave a task pending or running that the     *)
(* widget follows for ever (enqueueJob fails after the task was stored;    *)
(* runChatJob marks it running before it reads the settings; a poll whose  *)
(* first fetch fails is not repeated), nor after a crossed post, whose     *)
(* task displaces the one the widget follows.                              *)
(***************************************************************************)
Open(q) == (Contains(queue, q) \/ Contains(messages, Ask(q))) /\ ~Contains(messages, Answer(q))
QuestionsSettle == \A q \in Question : Open(q) ~> (~Open(q) \/ q \in closed \/ crossed \/ mishaps > 0)
=============================================================================
