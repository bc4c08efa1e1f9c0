-------------------------- MODULE AiAssistantProofs --------------------------
(***************************************************************************)
(* Types, turns and places of the chat assistant, for any numbers of       *)
(* questions, conversations, attempts, stalls and mishaps.                 *)
(***************************************************************************)
EXTENDS AiAssistant, TLAPS

(* Every question of a list is answered in it or is one of S.               *)
Settled(list, S) == \A q \in Question :
    Contains(list, Ask(q)) => Contains(list, Answer(q)) \/ q \in S

(* Every answer of a list comes after its question.                         *)
Placed(list) == \A q \in Question :
    Contains(list, Answer(q)) => Before(Ask(q), Answer(q), list)

(* What is posted for question q: q last, and nothing before it left open   *)
(* but what S gave up.                                                      *)
Post(list, q, S) == \E earlier \in Seq(Message) :
    /\ list = Append(earlier, Ask(q))
    /\ Settled(earlier, S) /\ Placed(earlier)

(* TypeOK in four parts.                                                    *)
Request == [of : Question, stage : {"sent", "stored", "queued", "refused"},
            chat : 1..Chats, input : Seq(Message)]
Job == [waiting : BOOLEAN, tries : Nat, delivery : Nat]
Call == [of : Question, delivery : Nat, stage : {"begun", "generating"}]
ServerTypes ==
    /\ task \in [Question -> Task] /\ job \in [Question -> Job]
    /\ runs \subseteq Call /\ enabled \in BOOLEAN
PostTypes == requests \subseteq Request /\ opening \subseteq [of : Question, read : Task]
ShownTypes ==
    /\ conversation \in 1..Chats /\ messages \in Seq(Message)
    /\ queue \in Seq(Question) /\ Len(queue) =< MaxQueue
    /\ active \in 0..Questions /\ polling \in BOOLEAN
RestTypes ==
    /\ chats \in 1..Chats /\ asked \in 0..Questions /\ crossed \in BOOLEAN
    /\ closed \subseteq Question /\ stalls \in 0..MaxStalls /\ mishaps \in 0..MaxMishaps
Types == ServerTypes /\ PostTypes /\ ShownTypes /\ RestTypes

InFlight == {active} \cup {r.of : r \in requests}

(* A job, a call of runChatJob and a post that got so far have their task,  *)
(* and a task that succeeded has its output.                               *)
Stored(q) == task[q].status # "none" /\ task[q].chat # 0
Sensible(t) == t.chat # 0 /\ t.status # "none" /\ (t.status = "succeeded" => t.output)
TasksExist ==
    /\ \A q \in Question : task[q].status # "none" => Sensible(task[q])
    /\ \A q \in Question : job[q].waiting => Stored(q)
    /\ \A r \in runs : Stored(r.of)
    /\ \A r \in requests : r.stage = "queued" \/ r.stage = "stored" => Stored(r.of)
    /\ \A s \in opening : Sensible(s.read)

(* One question at a time is on its way.                                    *)
OnePost == \A r, s \in requests : r = s
OneInFlight == requests # {} => active = 0

(* The lists: the one shown, and the ones that were or will be posted.      *)
ListShown ==
    /\ Settled(messages, closed \cup InFlight)
    /\ Placed(messages)
    /\ \A q \in Question \cap InFlight : Contains(messages, Ask(q))
ListsPosted ==
    /\ \A r \in requests : Post(r.input, r.of, closed)
    /\ \A q \in Question : task[q].status # "none" => Post(task[q].input, q, closed)
    /\ \A s \in opening : Post(s.read.input, s.of, closed)

Turns == ~crossed => OneInFlight /\ ListShown /\ ListsPosted
IInv == Types /\ TasksExist /\ OnePost /\ Turns

-----------------------------------------------------------------------------
(* Lists that grow by one message. *)

(* A list contains what it contained and the message appended.              *)
LEMMA AppendContains ==
    ASSUME NEW list \in Seq(Message), NEW m \in Message, NEW n \in Message
    PROVE  Contains(Append(list, m), n) <=> Contains(list, n) \/ n = m
<1> DEFINE longer == Append(list, m)
<1>1. /\ Len(longer) = Len(list) + 1 /\ Len(list) \in Nat
      /\ longer[Len(list) + 1] = m
      /\ \A i \in 1 .. Len(list) : longer[i] = list[i]
    OBVIOUS
<1> HIDE DEF longer
<1>2. Contains(longer, n) => Contains(list, n) \/ n = m
    BY <1>1 DEF Contains
<1>3. Contains(list, n) => Contains(longer, n)
    BY <1>1 DEF Contains
<1>4. n = m => Contains(longer, n)
    BY <1>1 DEF Contains
<1> QED BY <1>2, <1>3, <1>4 DEF longer

(* Order is kept, and the message appended comes after all others.         *)
LEMMA AppendBefore ==
    ASSUME NEW list \in Seq(Message), NEW m \in Message, NEW n \in Message, NEW e \in Message
    PROVE  /\ Before(m, n, list) => Before(m, n, Append(list, e))
           /\ Contains(list, m) => Before(m, e, Append(list, e))
           /\ Before(m, n, Append(list, e)) => Contains(list, m)
<1> DEFINE longer == Append(list, e)
<1>1. /\ Len(list) \in Nat
      /\ DOMAIN list = 1 .. Len(list) /\ DOMAIN longer = 1 .. (Len(list) + 1)
      /\ longer[Len(list) + 1] = e
      /\ \A i \in 1 .. Len(list) : longer[i] = list[i]
    OBVIOUS
<1> HIDE DEF longer
<1>2. Before(m, n, list) => Before(m, n, longer)
    BY <1>1 DEF Before
<1>3. ASSUME Contains(list, m) PROVE Before(m, e, longer)
    <2>1. PICK i \in 1 .. Len(list) : list[i] = m
        BY <1>1, <1>3 DEF Contains
    <2>2. /\ i \in DOMAIN longer /\ Len(list) + 1 \in DOMAIN longer
          /\ i < Len(list) + 1 /\ longer[i] = m
        BY <1>1, <2>1
    <2> QED BY <1>1, <2>2 DEF Before
<1>4. ASSUME Before(m, n, longer) PROVE Contains(list, m)
    <2>1. PICK i \in DOMAIN longer, j \in DOMAIN longer : i < j /\ longer[i] = m
        BY <1>4 DEF Before
    <2>2. i \in 1 .. Len(list)
        BY <1>1, <2>1
    <2> QED BY <1>1, <2>1, <2>2 DEF Contains
<1> QED BY <1>2, <1>3, <1>4 DEF longer

(* Questions, answers and their numbers are told apart.                     *)
LEMMA Messages ==
    ASSUME NEW q \in Question, NEW p \in Question
    PROVE  /\ {Ask(q), Answer(q)} \subseteq Message
           /\ Ask(p) # Answer(q)
           /\ Ask(p) = Ask(q) <=> p = q
           /\ Answer(p) = Answer(q) <=> p = q
    BY DEF Ask, Answer, Message

(* A question joins a list that is settled but for S.                       *)
LEMMA AskedList ==
    ASSUME NEW list \in Seq(Message), NEW q \in Question, NEW S,
           Settled(list, S), Placed(list),
           NEW longer, longer = Append(list, Ask(q))
    PROVE  /\ Settled(longer, S \cup {q}) /\ Placed(longer)
           /\ Contains(longer, Ask(q))
           /\ \A p \in Question : Contains(list, Ask(p)) => Contains(longer, Ask(p))
<1>1. ASSUME NEW p \in Question
      PROVE  /\ Contains(longer, Ask(p)) <=> Contains(list, Ask(p)) \/ p = q
             /\ Contains(longer, Answer(p)) <=> Contains(list, Answer(p))
             /\ Before(Ask(p), Answer(p), list) => Before(Ask(p), Answer(p), longer)
    <2>1. /\ Ask(p) \in Message /\ Ask(q) \in Message /\ Answer(p) \in Message
          /\ Ask(q) # Answer(p) /\ (Ask(p) = Ask(q) <=> p = q)
        BY Messages
    <2> QED BY <2>1, AppendContains, AppendBefore
<1>2. Settled(longer, S \cup {q})
    BY <1>1 DEF Settled
<1>3. Placed(longer)
    BY <1>1 DEF Placed
<1> QED BY <1>1, <1>2, <1>3

(* The answer of a question in the list joins it.                           *)
LEMMA AnsweredList ==
    ASSUME NEW list \in Seq(Message), NEW q \in Question, NEW S,
           Settled(list, S), Placed(list), Contains(list, Ask(q)),
           NEW longer, longer = Append(list, Answer(q))
    PROVE  /\ Settled(longer, S \ {q}) /\ Placed(longer)
           /\ \A p \in Question : Contains(list, Ask(p)) => Contains(longer, Ask(p))
<1>1. ASSUME NEW p \in Question
      PROVE  /\ Contains(longer, Ask(p)) <=> Contains(list, Ask(p))
             /\ Contains(longer, Answer(p)) <=> Contains(list, Answer(p)) \/ p = q
             /\ Before(Ask(p), Answer(p), list) => Before(Ask(p), Answer(p), longer)
    <2>1. /\ Ask(p) \in Message /\ Answer(q) \in Message /\ Answer(p) \in Message
          /\ Ask(p) # Answer(q) /\ (Answer(p) = Answer(q) <=> p = q)
        BY Messages
    <2> QED BY <2>1, AppendContains, AppendBefore
<1>2. Before(Ask(q), Answer(q), longer)
    <2>1. Ask(q) \in Message /\ Answer(q) \in Message
        BY Messages
    <2> QED BY <2>1, AppendBefore
<1>3. Settled(longer, S \ {q})
    BY <1>1 DEF Settled
<1>4. Placed(longer)
    BY <1>1, <1>2 DEF Placed
<1> QED BY <1>1, <1>3, <1>4

(* What was given up stays given up.                                        *)
LEMMA GivenUp ==
    ASSUME NEW list, NEW S, NEW T
    PROVE  /\ Settled(list, S) /\ S \cap Question \subseteq T => Settled(list, T)
           /\ \A q : Post(list, q, S) /\ S \cap Question \subseteq T => Post(list, q, T)
<1>1. ASSUME NEW l, Settled(l, S), S \cap Question \subseteq T PROVE Settled(l, T)
    BY <1>1 DEF Settled
<1>2. ASSUME NEW q, Post(list, q, S), S \cap Question \subseteq T PROVE Post(list, q, T)
    BY <1>1, <1>2 DEF Post
<1> QED BY <1>1, <1>2

(* A post is a list that is settled but for its question.                   *)
LEMMA PostedList ==
    ASSUME NEW list, NEW q \in Question, NEW S, Post(list, q, S)
    PROVE  /\ list \in Seq(Message)
           /\ Settled(list, S \cup {q}) /\ Placed(list) /\ Contains(list, Ask(q))
<1>1. PICK earlier \in Seq(Message) :
          list = Append(earlier, Ask(q)) /\ Settled(earlier, S) /\ Placed(earlier)
    BY DEF Post
<1>2. list \in Seq(Message)
    <2>1. Ask(q) \in Message
        BY Messages
    <2> QED BY <1>1, <2>1
<1>3. Settled(list, S \cup {q}) /\ Placed(list) /\ Contains(list, Ask(q))
    BY <1>1, AskedList
<1> QED BY <1>2, <1>3

(* What the widget shows of a task.                                         *)
LEMMA ShownList ==
    ASSUME NEW q \in Question, NEW t \in Task, NEW S, Post(t.input, q, S)
    PROVE  LET shown == MessagesFromTask(q, t) IN
           /\ shown \in Seq(Message) /\ Placed(shown) /\ Contains(shown, Ask(q))
           /\ Settled(shown, IF t.output THEN S ELSE S \cup {q})
<1> DEFINE shown == MessagesFromTask(q, t)
<1>1. /\ t.input \in Seq(Message) /\ Settled(t.input, S \cup {q})
      /\ Placed(t.input) /\ Contains(t.input, Ask(q))
    BY PostedList
<1>2. CASE t.output
    <2>1. shown = Append(t.input, Answer(q)) /\ Answer(q) \in Message
        BY <1>1, <1>2, Messages DEF MessagesFromTask
    <2>2. Settled(shown, (S \cup {q}) \ {q}) /\ Placed(shown) /\ Contains(shown, Ask(q))
        BY <1>1, <2>1, AnsweredList
    <2> QED BY <1>1, <1>2, <2>1, <2>2, GivenUp
<1>3. CASE ~t.output
    <2>1. shown = t.input
        BY <1>1, <1>3 DEF MessagesFromTask
    <2> QED BY <1>1, <1>3, <2>1
<1> QED BY <1>2, <1>3

-----------------------------------------------------------------------------
(* Types. *)

(* A list with one element taken out is a list, and not a longer one.       *)
LEMMA RemoveType ==
    ASSUME NEW S, NEW list \in Seq(S), NEW i \in DOMAIN list
    PROVE  RemoveAt(list, i) \in Seq(S) /\ Len(RemoveAt(list, i)) =< Len(list)
<1>1. /\ SubSeq(list, 1, i - 1) \in Seq(S) /\ Len(SubSeq(list, 1, i - 1)) = i - 1
      /\ SubSeq(list, i + 1, Len(list)) \in Seq(S)
      /\ Len(SubSeq(list, i + 1, Len(list))) = Len(list) - i
    OBVIOUS
<1> QED BY <1>1 DEF RemoveAt

(* A post is well typed.                                                    *)
LEMMA SendType ==
    ASSUME PostTypes, ShownTypes, conversation \in 1..Chats, NEW q \in Question, SendChat(q)
    PROVE  messages' \in Seq(Message) /\ requests' \subseteq Request
<1> DEFINE updated == Append(messages, Ask(q))
<1>1. updated \in Seq(Message)
    <2>1. Ask(q) \in Message
        BY Messages
    <2> QED BY <2>1 DEF ShownTypes
<1>2. [of |-> q, stage |-> "sent", chat |-> conversation, input |-> updated] \in Request
    BY <1>1 DEF Request
<1> QED BY <1>1, <1>2 DEF SendChat, PostTypes

(* What a call of runChatJob that throws leaves.                            *)
LEMMA ThrowType ==
    ASSUME ServerTypes, NEW r \in runs, Throws(r)
    PROVE  runs' \subseteq runs /\ job' \in [Question -> Job]
    BY DEF Throws, Holds, ServerTypes, Job

(* Every step keeps the types; a conversation reopened is that of a task.   *)
LEMMA TypesStep == ASSUME Types, TasksExist, [Next]_vars PROVE Types'
<1> USE DEF server, widget, user, told, faults
<1>0. /\ ServerTypes /\ PostTypes /\ ShownTypes /\ RestTypes
      /\ Questions \in Nat /\ Chats \in Nat /\ MaxQueue \in Nat
      /\ MaxStalls \in Nat /\ MaxMishaps \in Nat
    BY AssistantAssumption DEF Types
<1> USE <1>0
<1>1. ASSUME Submit PROVE Types'
    <2>1. ServerTypes'
        BY <1>1 DEF Submit, ServerTypes
    <2>2. PostTypes'
        <3>1. asked + 1 \in Question
            BY <1>1 DEF Submit, RestTypes, Question
        <3> QED BY <1>1, <3>1, SendType DEF Submit, PostTypes, ShownTypes
    <2>3. ShownTypes'
        <3>1. asked + 1 \in Question
            BY <1>1 DEF Submit, RestTypes, Question
        <3>2. CASE SendChat(asked + 1) /\ UNCHANGED queue
            BY <1>1, <3>1, <3>2, SendType DEF Submit, ShownTypes
        <3>3. CASE /\ Len(queue) < MaxQueue /\ queue' = Append(queue, asked + 1)
                   /\ UNCHANGED messages
            BY <1>1, <3>1, <3>3 DEF Submit, ShownTypes
        <3> QED BY <1>1, <3>2, <3>3 DEF Submit
    <2>4. RestTypes'
        BY <1>1 DEF Submit, RestTypes
    <2> QED BY <2>1, <2>2, <2>3, <2>4 DEF Types
<1>2. ASSUME Dequeue PROVE Types'
    <2>1. ServerTypes'
        BY <1>2 DEF Dequeue, ServerTypes
    <2>2. PostTypes'
        <3>1. Head(queue) \in Question
            BY <1>2 DEF Dequeue, DequeueDue, ShownTypes
        <3> QED BY <1>2, <3>1, SendType DEF Dequeue, PostTypes, ShownTypes
    <2>3. ShownTypes'
        <3>1. /\ Head(queue) \in Question /\ Tail(queue) \in Seq(Question)
              /\ Len(Tail(queue)) =< MaxQueue
            BY <1>2 DEF Dequeue, DequeueDue, ShownTypes
        <3> QED BY <1>2, <3>1, SendType DEF Dequeue, ShownTypes
    <2>4. RestTypes'
        BY <1>2 DEF Dequeue, RestTypes
    <2> QED BY <2>1, <2>2, <2>3, <2>4 DEF Types
<1>3. ASSUME Unqueue PROVE Types'
    <2>1. ServerTypes'
        BY <1>3 DEF Unqueue, ServerTypes
    <2>2. PostTypes'
        BY <1>3 DEF Unqueue, PostTypes
    <2>3. ShownTypes'
        <3>1. queue' \in Seq(Question) /\ Len(queue') =< MaxQueue
            BY <1>3, RemoveType DEF Unqueue, ShownTypes
        <3> QED BY <1>3, <3>1 DEF Unqueue, ShownTypes
    <2>4. RestTypes'
        BY <1>3 DEF Unqueue, RestTypes
    <2> QED BY <2>1, <2>2, <2>3, <2>4 DEF Types
<1>4. ASSUME StartNewChat PROVE Types'
    <2>1. ServerTypes'
        BY <1>4 DEF StartNewChat, OpenConversation, ServerTypes
    <2>2. PostTypes'
        BY <1>4 DEF StartNewChat, OpenConversation, PostTypes
    <2>3. ShownTypes'
        <3>1. conversation' \in 1..Chats /\ active' \in 0..Questions
            BY <1>4 DEF StartNewChat, OpenConversation, RestTypes
        <3>2. polling' \in BOOLEAN
            BY <1>4 DEF StartNewChat, OpenConversation
        <3>3. /\ messages' \in Seq(Message)
              /\ queue' \in Seq(Question) /\ Len(queue') =< MaxQueue
            BY <1>4 DEF StartNewChat, OpenConversation
        <3> QED BY <3>1, <3>2, <3>3 DEF ShownTypes
    <2>4. RestTypes'
        BY <1>4 DEF StartNewChat, OpenConversation, RestTypes
    <2> QED BY <2>1, <2>2, <2>3, <2>4 DEF Types
<1>5. ASSUME Poll PROVE Types'
    <2>1. ServerTypes'
        BY <1>5 DEF Poll, ServerTypes
    <2>2. PostTypes'
        BY <1>5 DEF Poll, PostTypes
    <2>3. ShownTypes'
        <3>1. active \in Question
            BY <1>5 DEF Poll, ShownTypes, Question
        <3>2. Answer(active) \in Message
            BY <3>1, Messages
        <3>3. messages' \in Seq(Message)
            BY <1>5, <3>2 DEF Poll, ShownTypes
        <3>4. active' \in 0..Questions
            BY <1>5 DEF Poll
        <3>5. polling' \in BOOLEAN
            BY <1>5 DEF Poll
        <3>6. UNCHANGED <<conversation, queue>>
            BY <1>5 DEF Poll
        <3> QED BY <3>3, <3>4, <3>5, <3>6 DEF ShownTypes
    <2>4. RestTypes'
        <3>1. active \in Question
            BY <1>5 DEF Poll, ShownTypes, Question
        <3> QED BY <1>5, <3>1 DEF Poll, RestTypes
    <2> QED BY <2>1, <2>2, <2>3, <2>4 DEF Types
<1>6. ASSUME PollFails PROVE Types'
    <2>1. ServerTypes'
        BY <1>6 DEF PollFails, Mishap, ServerTypes
    <2>2. PostTypes'
        BY <1>6 DEF PollFails, Mishap, PostTypes
    <2>3. ShownTypes'
        BY <1>6 DEF PollFails, Mishap, ShownTypes
    <2>4. RestTypes'
        BY <1>6 DEF PollFails, Mishap, RestTypes
    <2> QED BY <2>1, <2>2, <2>3, <2>4 DEF Types
<1>7. ASSUME UpdateSettings PROVE Types'
    <2>1. ServerTypes'
        BY <1>7 DEF UpdateSettings, Mishap, ServerTypes
    <2>2. PostTypes'
        BY <1>7 DEF UpdateSettings, Mishap, PostTypes
    <2>3. ShownTypes'
        BY <1>7 DEF UpdateSettings, Mishap, ShownTypes
    <2>4. RestTypes'
        BY <1>7 DEF UpdateSettings, Mishap, RestTypes
    <2> QED BY <2>1, <2>2, <2>3, <2>4 DEF Types
<1>8. ASSUME NEW q \in Question, SelectChat(q) PROVE Types'
    <2>1. ServerTypes'
        BY <1>8 DEF SelectChat, ServerTypes
    <2>2. PostTypes'
        BY <1>8 DEF SelectChat, PostTypes, ServerTypes
    <2>3. ShownTypes'
        BY <1>8 DEF SelectChat, ShownTypes
    <2>4. RestTypes'
        BY <1>8 DEF SelectChat, RestTypes
    <2> QED BY <2>1, <2>2, <2>3, <2>4 DEF Types
<1>9. ASSUME NEW q \in Question, BeginRun(q) PROVE Types'
    <2>1. ServerTypes'
        <3>1. task' \in [Question -> Task]
            BY <1>9 DEF BeginRun, Running, ServerTypes, Task, Status
        <3>2. job' \in [Question -> Job]
            BY <1>9 DEF BeginRun, ServerTypes, Job
        <3>3. runs' \subseteq Call
            BY <1>9, <3>2 DEF BeginRun, ServerTypes, Call, Job
        <3> QED BY <1>9, <3>1, <3>2, <3>3 DEF BeginRun, ServerTypes
    <2>2. PostTypes'
        BY <1>9 DEF BeginRun, PostTypes
    <2>3. ShownTypes'
        BY <1>9 DEF BeginRun, ShownTypes
    <2>4. RestTypes'
        BY <1>9 DEF BeginRun, RestTypes
    <2> QED BY <2>1, <2>2, <2>3, <2>4 DEF Types
<1>10. ASSUME NEW s \in opening, ShowSelected(s) PROVE Types'
    <2>0. s.of \in Question /\ s.read \in Task /\ s.read.chat \in 1..Chats
        BY DEF PostTypes, TasksExist, Sensible, Task
    <2>1. ServerTypes'
        BY <1>10 DEF ShowSelected, OpenConversation, ServerTypes
    <2>2. PostTypes'
        BY <1>10 DEF ShowSelected, OpenConversation, PostTypes
    <2>3. ShownTypes'
        <3>1. messages' \in Seq(Message)
            <4>1. Answer(s.of) \in Message /\ s.read.input \in Seq(Message)
                BY <2>0, Messages DEF Task
            <4> QED BY <1>10, <4>1 DEF ShowSelected, OpenConversation, MessagesFromTask
        <3> QED BY <1>10, <2>0, <3>1 DEF ShowSelected, OpenConversation, ShownTypes, Question
    <2>4. RestTypes'
        BY <1>10, <2>0 DEF ShowSelected, OpenConversation, RestTypes
    <2> QED BY <2>1, <2>2, <2>3, <2>4 DEF Types
<1>11. ASSUME NEW r \in requests, Accepted(r) PROVE Types'
    <2>1. ServerTypes'
        BY <1>11 DEF Accepted, ServerTypes
    <2>2. PostTypes'
        BY <1>11 DEF Accepted, PostTypes
    <2>3. ShownTypes'
        BY <1>11 DEF Accepted, ShownTypes, PostTypes, Request, Question
    <2>4. RestTypes'
        BY <1>11 DEF Accepted, RestTypes
    <2> QED BY <2>1, <2>2, <2>3, <2>4 DEF Types
<1>12. ASSUME NEW r \in requests, Rejected(r) PROVE Types'
    <2>1. ServerTypes'
        BY <1>12 DEF Rejected, Mishap, ServerTypes
    <2>2. PostTypes'
        BY <1>12 DEF Rejected, Mishap, PostTypes
    <2>3. ShownTypes'
        BY <1>12 DEF Rejected, Mishap, ShownTypes
    <2>4. RestTypes'
        BY <1>12 DEF Rejected, Mishap, RestTypes, PostTypes, Request
    <2> QED BY <2>1, <2>2, <2>3, <2>4 DEF Types
<1>13. ASSUME NEW r \in requests, EnqueueChat(r) PROVE Types'
    <2>1. ServerTypes'
        <3>1. CASE UNCHANGED task
            BY <1>13, <3>1 DEF EnqueueChat, ServerTypes
        <3>2. ASSUME NEW t, t = [status |-> "pending", output |-> FALSE, chat |-> r.chat,
                                 input |-> r.input],
                     task' = [task EXCEPT ![r.of] = t]
              PROVE  ServerTypes'
            <4>1. t \in Task
                BY <3>2 DEF PostTypes, Request, Task, Status
            <4> QED BY <1>13, <3>2, <4>1 DEF EnqueueChat, ServerTypes
        <3> QED BY <1>13, <3>1, <3>2 DEF EnqueueChat
    <2>2. PostTypes'
        BY <1>13 DEF EnqueueChat, At, PostTypes, Request
    <2>3. ShownTypes'
        BY <1>13 DEF EnqueueChat, ShownTypes
    <2>4. RestTypes'
        BY <1>13 DEF EnqueueChat, RestTypes
    <2> QED BY <2>1, <2>2, <2>3, <2>4 DEF Types
<1>14. ASSUME NEW r \in requests, EnqueueJob(r) PROVE Types'
    <2>1. ServerTypes'
        BY <1>14 DEF EnqueueJob, ServerTypes, Job
    <2>2. PostTypes'
        BY <1>14 DEF EnqueueJob, At, PostTypes, Request
    <2>3. ShownTypes'
        BY <1>14 DEF EnqueueJob, Mishap, ShownTypes
    <2>4. RestTypes'
        BY <1>14 DEF EnqueueJob, Mishap, RestTypes
    <2> QED BY <2>1, <2>2, <2>3, <2>4 DEF Types
<1>15. ASSUME NEW r \in runs, CheckSettings(r) PROVE Types'
    <2>1. ServerTypes'
        <3>1. CASE Throws(r) /\ UNCHANGED task
            BY <1>15, <3>1, ThrowType DEF CheckSettings, ServerTypes
        <3>2. CASE /\ Running(r.of) /\ UNCHANGED job
                   /\ runs' = (runs \ {r}) \cup {[r EXCEPT !.stage = "generating"]}
            <4>1. task' \in [Question -> Task]
                BY <3>2 DEF Running, ServerTypes, Task, Status
            <4>2. runs' \subseteq Call
                BY <3>2 DEF ServerTypes, Call
            <4> QED BY <1>15, <3>2, <4>1, <4>2 DEF CheckSettings, ServerTypes
        <3> QED BY <1>15, <3>1, <3>2 DEF CheckSettings
    <2>2. PostTypes'
        BY <1>15 DEF CheckSettings, PostTypes
    <2>3. ShownTypes'
        BY <1>15 DEF CheckSettings, ShownTypes
    <2>4. RestTypes'
        BY <1>15 DEF CheckSettings, RestTypes
    <2> QED BY <2>1, <2>2, <2>3, <2>4 DEF Types
<1>16. ASSUME NEW r \in runs, Succeed(r) PROVE Types'
    <2>1. ServerTypes'
        BY ZenonT(40), <1>16 DEF Succeed, ServerTypes, Task, Status
    <2>2. PostTypes'
        BY <1>16 DEF Succeed, PostTypes
    <2>3. ShownTypes'
        BY <1>16 DEF Succeed, ShownTypes
    <2>4. RestTypes'
        BY <1>16 DEF Succeed, RestTypes
    <2> QED BY <2>1, <2>2, <2>3, <2>4 DEF Types
<1>17. ASSUME NEW r \in runs, Fail(r) PROVE Types'
    <2>1. ServerTypes'
        <3>1. task' \in [Question -> Task]
            BY <1>17 DEF Fail, ServerTypes, Task, Status
        <3> QED BY <1>17, <3>1, ThrowType DEF Fail, ServerTypes
    <2>2. PostTypes'
        BY <1>17 DEF Fail, PostTypes
    <2>3. ShownTypes'
        BY <1>17 DEF Fail, ShownTypes
    <2>4. RestTypes'
        BY <1>17 DEF Fail, RestTypes
    <2> QED BY <2>1, <2>2, <2>3, <2>4 DEF Types
<1>18. ASSUME NEW r \in runs, Stall(r) PROVE Types'
    <2>1. ServerTypes'
        <3>1. job' \in [Question -> Job]
            BY <1>18 DEF Stall, ServerTypes, Job, Call
        <3>2. runs' \subseteq runs
            BY <1>18 DEF Stall
        <3> QED BY <1>18, <3>1, <3>2 DEF Stall, ServerTypes
    <2>2. PostTypes'
        BY <1>18 DEF Stall, PostTypes
    <2>3. ShownTypes'
        BY <1>18 DEF Stall, ShownTypes
    <2>4. RestTypes'
        BY <1>18 DEF Stall, RestTypes
    <2> QED BY <2>1, <2>2, <2>3, <2>4 DEF Types
<1>19. ASSUME UNCHANGED vars PROVE Types'
    BY <1>19 DEF vars, Types, ServerTypes, PostTypes, ShownTypes, RestTypes
<1> QED BY <1>1, <1>2, <1>3, <1>4, <1>5, <1>6, <1>7, <1>8, <1>9, <1>10, <1>11, <1>12,
           <1>13, <1>14, <1>15, <1>16, <1>17, <1>18, <1>19 DEF Next

-----------------------------------------------------------------------------
(* Tasks. *)

(* Every step keeps the tasks of jobs, calls and posts.                     *)
LEMMA TasksStep == ASSUME Types, TasksExist, [Next]_vars PROVE TasksExist'
<1> USE DEF server, widget, user, told, faults, Stored, Sensible
<1>0. /\ task \in [Question -> Task] /\ job \in [Question -> Job]
      /\ runs \subseteq Call /\ requests \subseteq Request
    BY DEF Types, ServerTypes, PostTypes
<1>1. ASSUME Submit PROVE TasksExist'
    BY <1>0, <1>1 DEF Submit, SendChat, TasksExist
<1>2. ASSUME Dequeue PROVE TasksExist'
    BY <1>0, <1>2 DEF Dequeue, SendChat, TasksExist
<1>3. ASSUME Unqueue PROVE TasksExist'
    BY <1>0, <1>3 DEF Unqueue, TasksExist
<1>4. ASSUME StartNewChat PROVE TasksExist'
    BY <1>0, <1>4 DEF StartNewChat, TasksExist
<1>5. ASSUME Poll PROVE TasksExist'
    BY <1>0, <1>5 DEF Poll, TasksExist
<1>6. ASSUME PollFails PROVE TasksExist'
    BY <1>0, <1>6 DEF PollFails, TasksExist
<1>7. ASSUME UpdateSettings PROVE TasksExist'
    BY <1>0, <1>7 DEF UpdateSettings, TasksExist
<1>8. ASSUME NEW q \in Question, SelectChat(q) PROVE TasksExist'
    BY <1>0, <1>8 DEF SelectChat, TasksExist, Task
<1>9. ASSUME NEW q \in Question, BeginRun(q) PROVE TasksExist'
    BY <1>0, <1>9 DEF BeginRun, Running, TasksExist, Task, Job, Call, Request
<1>10. ASSUME NEW s \in opening, ShowSelected(s) PROVE TasksExist'
    BY <1>0, <1>10 DEF ShowSelected, TasksExist
<1>11. ASSUME NEW r \in requests, Accepted(r) PROVE TasksExist'
    BY <1>0, <1>11 DEF Accepted, TasksExist
<1>12. ASSUME NEW r \in requests, Rejected(r) PROVE TasksExist'
    BY <1>0, <1>12 DEF Rejected, TasksExist
<1>13. ASSUME NEW r \in requests, EnqueueChat(r) PROVE TasksExist'
    <2> DEFINE stored == [r EXCEPT !.stage = "stored"]
               t == [status |-> "pending", output |-> FALSE, chat |-> r.chat, input |-> r.input]
    <2>1. r.of \in Question /\ r.chat # 0 /\ stored.of = r.of
        BY <1>0 DEF Request
    <2>2. CASE UNCHANGED task /\ At(r, "refused")
        <3>1. \A x \in requests' : x.stage = "queued" \/ x.stage = "stored" => x \in requests
            BY <1>0, <2>2 DEF At, Request
        <3> QED BY <1>0, <1>13, <2>2, <3>1 DEF EnqueueChat, TasksExist
    <2>3. CASE task' = [task EXCEPT ![r.of] = t] /\ At(r, "stored")
        <3>1. task'[r.of] = t /\ \A q \in Question : q # r.of => task'[q] = task[q]
            BY <1>0, <2>1, <2>3
        <3>2. \A q \in Question : /\ Stored(q) => Stored(q)'
                                  /\ task'[q].status # "none" => Sensible(task'[q])
            BY <2>1, <3>1 DEF TasksExist
        <3>3. Stored(r.of)'
            BY <2>1, <3>1
        <3>4. \A x \in requests' : x \in requests \/ x = stored
            BY <2>3 DEF At
        <3>5. \A x \in requests : x.of \in Question
            BY <1>0 DEF Request
        <3>6. \A x \in runs : x.of \in Question
            BY <1>0 DEF Call
        <3>7. UNCHANGED <<job, runs, opening>>
            BY <1>13 DEF EnqueueChat
        <3> HIDE DEF stored, Sensible
        <3>8. \A q \in Question : job'[q].waiting => Stored(q)'
            BY <3>2, <3>7 DEF TasksExist
        <3>9. \A x \in runs' : Stored(x.of)'
            BY <3>2, <3>6, <3>7 DEF TasksExist
        <3>10. \A x \in requests' : x.stage = "queued" \/ x.stage = "stored" => Stored(x.of)'
            BY <2>1, <3>2, <3>3, <3>4, <3>5 DEF TasksExist
        <3>11. \A x \in opening' : Sensible(x.read)
            BY <3>7 DEF TasksExist
        <3> QED BY <3>2, <3>8, <3>9, <3>10, <3>11 DEF TasksExist
    <2> QED BY <1>13, <2>2, <2>3 DEF EnqueueChat
<1>14. ASSUME NEW r \in requests, EnqueueJob(r) PROVE TasksExist'
    <2>1. r.of \in Question /\ Stored(r.of) /\ UNCHANGED <<task, runs, opening>>
        BY <1>0, <1>14 DEF EnqueueJob, TasksExist, Request
    <2>2. \A q \in Question : job'[q].waiting => job[q].waiting \/ q = r.of
        BY <1>0, <1>14 DEF EnqueueJob, Job
    <2>3. \A x \in requests' : x \in requests \/ x.of = r.of
        BY <1>0, <1>14 DEF EnqueueJob, At, Request
    <2> QED BY <2>1, <2>2, <2>3 DEF TasksExist
<1>15. ASSUME NEW r \in runs, CheckSettings(r) PROVE TasksExist'
    <2>1. r.of \in Question /\ Stored(r.of) /\ UNCHANGED <<requests, opening>>
        BY <1>0, <1>15 DEF CheckSettings, TasksExist, Call
    <2>2. CASE Throws(r) /\ UNCHANGED task
        <3>1. \A q \in Question : job'[q].waiting => job[q].waiting \/ q = r.of
            BY <1>0, <2>2 DEF Throws, Job
        <3> QED BY <2>1, <2>2, <3>1 DEF Throws, TasksExist
    <2>3. CASE /\ Running(r.of) /\ UNCHANGED job
               /\ runs' = (runs \ {r}) \cup {[r EXCEPT !.stage = "generating"]}
        <3>1. \A q \in Question : /\ Stored(q) => Stored(q)'
                                  /\ task'[q].status # "none" => Sensible(task'[q])
            BY <1>0, <2>1, <2>3 DEF Running, TasksExist, Task
        <3>2. \A x \in runs' : x \in runs \/ x.of = r.of
            BY <1>0, <2>3 DEF Call
        <3>3. \A x \in runs \cup requests : x.of \in Question
            BY <1>0 DEF Call, Request
        <3> QED BY <2>1, <2>3, <3>1, <3>2, <3>3 DEF TasksExist
    <2> QED BY <1>15, <2>2, <2>3 DEF CheckSettings
<1>16. ASSUME NEW r \in runs, Succeed(r) PROVE TasksExist'
    BY <1>0, <1>16 DEF Succeed, TasksExist, Task, Job, Call, Request
<1>17. ASSUME NEW r \in runs, Fail(r) PROVE TasksExist'
    BY <1>0, <1>17 DEF Fail, Throws, TasksExist, Task, Job, Call, Request
<1>18. ASSUME NEW r \in runs, Stall(r) PROVE TasksExist'
    BY <1>0, <1>18 DEF Stall, Holds, TasksExist, Task, Job, Call, Request
<1>19. ASSUME UNCHANGED vars PROVE TasksExist'
    BY <1>0, <1>19 DEF vars, TasksExist
<1> QED BY <1>1, <1>2, <1>3, <1>4, <1>5, <1>6, <1>7, <1>8, <1>9, <1>10, <1>11, <1>12,
           <1>13, <1>14, <1>15, <1>16, <1>17, <1>18, <1>19 DEF Next

-----------------------------------------------------------------------------
(* Turns. *)

(* The lists posted stay posted when the widget gives questions up.         *)
LEMMA PostsKept ==
    ASSUME closed \subseteq closed',
           \A r \in requests' : Post(r.input, r.of, closed),
           \A q \in Question : task'[q].status # "none" => Post(task'[q].input, q, closed),
           \A s \in opening' : Post(s.read.input, s.of, closed)
    PROVE  ListsPosted'
    BY GivenUp DEF ListsPosted

(* What the server does with a task leaves the widget's lists alone.        *)
LEMMA ServerStep ==
    ASSUME OnePost, Turns, UNCHANGED <<messages, active, closed, crossed, opening>>,
           UNCHANGED requests,
           \A q \in Question : task'[q].status # "none" =>
               task[q].status # "none" /\ task'[q].input = task[q].input
    PROVE  OnePost' /\ Turns'
<1>1. OnePost'
    BY DEF OnePost
<1>2. ASSUME ~crossed' PROVE OneInFlight' /\ ListShown' /\ ListsPosted'
    <2>1. OneInFlight /\ ListShown /\ ListsPosted
        BY <1>2 DEF Turns
    <2>2. OneInFlight' /\ ListShown'
        BY <2>1 DEF OneInFlight, ListShown, InFlight
    <2>3. ListsPosted'
        BY <2>1, PostsKept DEF ListsPosted
    <2> QED BY <2>2, <2>3
<1> QED BY <1>1, <1>2 DEF Turns

(* Nothing is in flight: a question is sent.                                *)
LEMMA SendStep ==
    ASSUME Types, Turns, ~Processing, NEW q \in Question, SendChat(q),
           UNCHANGED <<task, active, closed, crossed, opening>>
    PROVE  OnePost' /\ Turns'
<1> DEFINE post == [of |-> q, stage |-> "sent", chat |-> conversation,
                    input |-> Append(messages, Ask(q))]
<1>1. requests' = {post} /\ active' = 0
    BY DEF Processing, SendChat
<1>2. OnePost' /\ OneInFlight'
    BY <1>1 DEF OnePost, OneInFlight
<1>3. ASSUME ~crossed' PROVE ListShown' /\ ListsPosted'
    <2>1. ListShown /\ ListsPosted
        BY <1>3 DEF Turns
    <2>2. messages \in Seq(Message) /\ Placed(messages) /\ Settled(messages, closed \cup {0})
        BY <2>1 DEF ListShown, InFlight, Processing, Types, ShownTypes
    <2>3. Settled(messages, closed)
        BY <2>2, GivenUp DEF Question
    <2>4. messages' = Append(messages, Ask(q))
        BY DEF SendChat
    <2>5. /\ Settled(messages', closed \cup {q}) /\ Placed(messages')
          /\ Contains(messages', Ask(q))
        BY <2>2, <2>3, <2>4, AskedList
    <2>6. InFlight' = {0, q}
        BY <1>1 DEF InFlight
    <2>7. Settled(messages', closed' \cup InFlight')
        BY <2>5, <2>6, GivenUp
    <2>8. ListShown'
        BY <2>5, <2>6, <2>7 DEF ListShown, Question
    <2>9. Post(messages', q, closed)
        BY <2>2, <2>3, <2>4 DEF Post
    <2>10. ListsPosted'
        BY <1>1, <2>1, <2>4, <2>9, PostsKept DEF ListsPosted
    <2> QED BY <2>8, <2>10
<1> QED BY <1>2, <1>3 DEF Turns

(* Every step keeps one question on its way and the lists settled.          *)
LEMMA TurnsStep == ASSUME Types, TasksExist, OnePost, Turns, [Next]_vars
                   PROVE  OnePost' /\ Turns'
<1> USE DEF server, widget, user, told, faults
<1>0. /\ task \in [Question -> Task] /\ requests \subseteq Request /\ runs \subseteq Call
      /\ messages \in Seq(Message) /\ active \in {0} \cup Question
      /\ closed \subseteq Question /\ \A s \in opening : s.of \in Question /\ s.read \in Task
    BY DEF Types, ServerTypes, PostTypes, ShownTypes, RestTypes, Question
<1>1. ASSUME Submit PROVE OnePost' /\ Turns'
    <2>1. asked + 1 \in Question
        BY <1>1, AssistantAssumption DEF Submit, Types, RestTypes, Question
    <2>2. UNCHANGED <<task, active, closed, crossed, opening>>
        BY <1>1 DEF Submit
    <2>3. CASE ~Processing /\ SendChat(asked + 1)
        BY <2>1, <2>2, <2>3, SendStep
    <2>4. CASE UNCHANGED <<messages, requests>>
        BY <2>2, <2>4, ServerStep
    <2> QED BY <1>1, <2>3, <2>4 DEF Submit
<1>2. ASSUME Dequeue PROVE OnePost' /\ Turns'
    <2>1. Head(queue) \in Question
        BY <1>2 DEF Dequeue, DequeueDue, Types, ShownTypes
    <2> QED BY <1>2, <2>1, SendStep DEF Dequeue, DequeueDue
<1>3. ASSUME Unqueue PROVE OnePost' /\ Turns'
    BY <1>3, ServerStep DEF Unqueue
<1>4. ASSUME StartNewChat PROVE OnePost' /\ Turns'
    <2>1. OnePost'
        BY <1>4 DEF StartNewChat, OnePost
    <2>2. ASSUME ~crossed' PROVE OneInFlight' /\ ListShown' /\ ListsPosted'
        <3>1. /\ ~crossed /\ requests = {} /\ requests' = {} /\ active' = 0 /\ messages' = <<>>
              /\ UNCHANGED <<task, closed, opening>>
            BY <1>4, <2>2 DEF StartNewChat, OpenConversation
        <3>2. \A m : ~Contains(<<>>, m)
            BY DEF Contains
        <3>3. ListShown'
            BY <3>1, <3>2 DEF ListShown, InFlight, Settled, Placed, Question
        <3>4. ListsPosted'
            BY <3>1, PostsKept DEF Turns, ListsPosted
        <3> QED BY <3>1, <3>3, <3>4 DEF OneInFlight
    <2> QED BY <2>1, <2>2 DEF Turns
<1>5. ASSUME Poll PROVE OnePost' /\ Turns'
    <2>1. OnePost'
        BY <1>5 DEF Poll, OnePost
    <2>2. ASSUME ~crossed' PROVE OneInFlight' /\ ListShown' /\ ListsPosted'
        <3>1. /\ OneInFlight /\ ListShown /\ ListsPosted
              /\ active \in Question /\ active' = 0 /\ UNCHANGED <<task, requests, opening>>
            BY <1>0, <1>5, <2>2 DEF Poll, Turns
        <3>2. requests = {}
            BY <1>5, <3>1 DEF Poll, OneInFlight
        <3>3. /\ Settled(messages, closed \cup {active}) /\ Placed(messages)
              /\ Contains(messages, Ask(active))
            BY <3>1, <3>2 DEF ListShown, InFlight
        <3>4. Settled(messages', closed') /\ Placed(messages') /\ closed \subseteq closed'
            <4>1. CASE Contains(messages, Answer(active)) /\ UNCHANGED <<messages, closed>>
                BY <3>3, <4>1 DEF Settled
            <4>2. CASE messages' = Append(messages, Answer(active)) /\ UNCHANGED closed
                <5>1. Settled(messages', (closed \cup {active}) \ {active}) /\ Placed(messages')
                    BY <1>0, <3>1, <3>3, <4>2, AnsweredList
                <5> QED BY <4>2, <5>1, GivenUp
            <4>3. CASE closed' = closed \cup {active} /\ UNCHANGED messages
                BY <3>3, <4>3
            <4> QED BY <1>5, <4>1, <4>2, <4>3 DEF Poll
        <3>5. Settled(messages', closed' \cup InFlight')
            BY <3>4, GivenUp
        <3>6. ListShown'
            BY <3>1, <3>2, <3>4, <3>5 DEF ListShown, InFlight, Question
        <3>7. ListsPosted'
            BY <3>1, <3>4, PostsKept DEF ListsPosted
        <3> QED BY <3>1, <3>2, <3>6, <3>7 DEF OneInFlight
    <2> QED BY <2>1, <2>2 DEF Turns
<1>6. ASSUME PollFails PROVE OnePost' /\ Turns'
    BY <1>6, ServerStep DEF PollFails
<1>7. ASSUME UpdateSettings PROVE OnePost' /\ Turns'
    BY <1>7, ServerStep DEF UpdateSettings
<1>8. ASSUME NEW q \in Question, SelectChat(q) PROVE OnePost' /\ Turns'
    <2>1. OnePost'
        BY <1>8 DEF SelectChat, OnePost
    <2>2. ASSUME ~crossed' PROVE OneInFlight' /\ ListShown' /\ ListsPosted'
        <3>1. OneInFlight /\ ListShown /\ ListsPosted
            BY <1>8, <2>2 DEF SelectChat, Turns
        <3>2. OneInFlight' /\ ListShown'
            BY <1>8, <3>1 DEF SelectChat, OneInFlight, ListShown, InFlight
        <3>3. ListsPosted'
            BY <1>8, <3>1, PostsKept DEF SelectChat, ListsPosted
        <3> QED BY <3>2, <3>3
    <2> QED BY <2>1, <2>2 DEF Turns
<1>9. ASSUME NEW q \in Question, BeginRun(q) PROVE OnePost' /\ Turns'
    <2>1. /\ task' = [task EXCEPT ![q].status = "running"] /\ task[q].status # "none"
          /\ UNCHANGED <<messages, active, closed, crossed, opening, requests>>
        BY <1>9 DEF BeginRun, Running, TasksExist, Stored
    <2> QED BY <1>0, <2>1, ServerStep DEF Task
<1>10. ASSUME NEW s \in opening, ShowSelected(s) PROVE OnePost' /\ Turns'
    <2>1. OnePost'
        BY <1>10 DEF ShowSelected, OnePost
    <2>2. ASSUME ~crossed' PROVE OneInFlight' /\ ListShown' /\ ListsPosted'
        <3>1. /\ ~crossed /\ requests = {} /\ requests' = {} /\ opening' = {}
              /\ messages' = MessagesFromTask(s.of, s.read) /\ UNCHANGED task
              /\ active' = IF Alive(s.read) THEN s.of ELSE 0
              /\ closed' = IF s.read.status = "failed" THEN closed \cup {s.of} ELSE closed
            BY <1>10, <2>2 DEF ShowSelected, OpenConversation
        <3>2. s.of \in Question /\ s.read \in Task /\ Sensible(s.read) /\ ListsPosted
            BY <1>0, <3>1 DEF TasksExist, Turns
        <3>3. Post(s.read.input, s.of, closed)
            BY <3>2 DEF ListsPosted
        <3>4. /\ Placed(messages') /\ Contains(messages', Ask(s.of))
              /\ Settled(messages', IF s.read.output THEN closed ELSE closed \cup {s.of})
            BY <3>1, <3>2, <3>3, ShownList
        <3>5. InFlight' = {active'}
            BY <3>1 DEF InFlight
        <3>6. (IF s.read.output THEN closed ELSE closed \cup {s.of}) \subseteq closed' \cup InFlight'
            BY <3>1, <3>2, <3>5 DEF Sensible, Alive, Task, Status
        <3>7. Settled(messages', closed' \cup InFlight')
            BY <3>4, <3>6, GivenUp
        <3>8. ListShown'
            BY <3>1, <3>4, <3>5, <3>7 DEF ListShown, Question
        <3>9. ListsPosted'
            BY <3>1, <3>2, PostsKept DEF ListsPosted
        <3> QED BY <3>1, <3>8, <3>9 DEF OneInFlight
    <2> QED BY <2>1, <2>2 DEF Turns
<1>11. ASSUME NEW r \in requests, Accepted(r) PROVE OnePost' /\ Turns'
    <2>1. /\ requests = {r} /\ requests' = {} /\ active' = r.of /\ r.of \in Question
          /\ UNCHANGED <<task, messages, closed, crossed, opening>>
        BY <1>0, <1>11 DEF Accepted, OnePost, Request
    <2>2. ASSUME ~crossed' PROVE OneInFlight' /\ ListShown' /\ ListsPosted'
        <3>1. ListShown /\ ListsPosted /\ active = 0
            BY <2>1, <2>2 DEF Turns, OneInFlight
        <3>2. InFlight = {0, r.of} /\ InFlight' = {r.of}
            BY <2>1, <3>1 DEF InFlight
        <3>3. Settled(messages', closed' \cup InFlight')
            BY <2>1, <3>1, <3>2, GivenUp DEF ListShown, Question
        <3>4. ListShown'
            BY <2>1, <3>1, <3>2, <3>3 DEF ListShown
        <3>5. ListsPosted'
            BY <2>1, <3>1, PostsKept DEF ListsPosted
        <3> QED BY <2>1, <3>4, <3>5 DEF OneInFlight
    <2> QED BY <2>1, <2>2 DEF Turns, OnePost
<1>12. ASSUME NEW r \in requests, Rejected(r) PROVE OnePost' /\ Turns'
    <2>1. /\ requests = {r} /\ requests' = {} /\ closed' = closed \cup {r.of}
          /\ UNCHANGED <<task, active, messages, crossed, opening>>
        BY <1>12 DEF Rejected, OnePost
    <2>2. ASSUME ~crossed' PROVE OneInFlight' /\ ListShown' /\ ListsPosted'
        <3>1. ListShown /\ ListsPosted /\ active = 0
            BY <2>1, <2>2 DEF Turns, OneInFlight
        <3>2. InFlight = {0, r.of} /\ InFlight' = {0}
            BY <2>1, <3>1 DEF InFlight
        <3>3. Settled(messages', closed' \cup InFlight')
            BY <2>1, <3>1, <3>2, GivenUp DEF ListShown
        <3>4. ListShown'
            BY <2>1, <3>1, <3>2, <3>3 DEF ListShown, Question
        <3>5. ListsPosted'
            BY <2>1, <3>1, PostsKept DEF ListsPosted
        <3> QED BY <2>1, <3>4, <3>5 DEF OneInFlight
    <2> QED BY <2>1, <2>2 DEF Turns, OnePost
<1>13. ASSUME NEW r \in requests, NEW stage, At(r, stage),
              UNCHANGED <<messages, active, closed, crossed, opening>>,
              \A q \in Question : task'[q].status # "none" =>
                  \/ task[q].status # "none" /\ task'[q].input = task[q].input
                  \/ q = r.of /\ task'[q].input = r.input
       PROVE  OnePost' /\ Turns'
    <2> DEFINE moved == [r EXCEPT !.stage = stage]
    <2>1. /\ requests = {r} /\ requests' = {moved}
          /\ moved.of = r.of /\ moved.input = r.input
        BY <1>0, <1>13 DEF At, OnePost, Request
    <2> HIDE DEF moved
    <2>2. ASSUME ~crossed' PROVE OneInFlight' /\ ListShown' /\ ListsPosted'
        <3>1. OneInFlight /\ ListShown /\ ListsPosted
            BY <1>13, <2>2 DEF Turns
        <3>2. InFlight' = InFlight
            BY <1>13, <2>1 DEF InFlight
        <3>3. OneInFlight' /\ ListShown'
            BY <1>13, <2>1, <3>1, <3>2 DEF OneInFlight, ListShown
        <3>4. Post(r.input, r.of, closed)
            BY <3>1 DEF ListsPosted
        <3>5. ListsPosted'
            BY <1>13, <2>1, <3>1, <3>4, PostsKept DEF ListsPosted
        <3> QED BY <3>3, <3>5
    <2> QED BY <2>1, <2>2 DEF Turns, OnePost
<1>14. ASSUME NEW r \in requests, EnqueueChat(r) PROVE OnePost' /\ Turns'
    <2>1. PICK stage : At(r, stage)
        BY <1>14 DEF EnqueueChat
    <2>2. \A q \in Question : task'[q].status # "none" =>
              \/ task[q].status # "none" /\ task'[q].input = task[q].input
              \/ q = r.of /\ task'[q].input = r.input
        BY <1>0, <1>14 DEF EnqueueChat
    <2> QED BY <1>13, <1>14, <2>1, <2>2 DEF EnqueueChat
<1>15. ASSUME NEW r \in requests, EnqueueJob(r) PROVE OnePost' /\ Turns'
    <2>1. PICK stage : At(r, stage)
        BY <1>15 DEF EnqueueJob
    <2>2. UNCHANGED <<task, messages, active, closed, crossed, opening>>
        BY <1>15 DEF EnqueueJob
    <2> QED BY <1>13, <2>1, <2>2
<1>16. ASSUME NEW r \in runs, NEW t,
              task' = task \/ task' = [task EXCEPT ![r.of].status = t]
                           \/ task' = [task EXCEPT ![r.of].status = t, ![r.of].output = TRUE],
              UNCHANGED <<messages, active, closed, crossed, opening, requests>>
       PROVE  OnePost' /\ Turns'
    <2>1. r.of \in Question /\ task[r.of].status # "none"
        BY <1>0 DEF TasksExist, Stored, Call
    <2>2. ASSUME NEW q \in Question PROVE task'[q].input = task[q].input
        <3>1. CASE task' = task
            BY <3>1
        <3>2. CASE task' = [task EXCEPT ![r.of].status = t]
            BY <1>0, <3>2 DEF Task
        <3>3. CASE task' = [task EXCEPT ![r.of].status = t, ![r.of].output = TRUE]
            <4>1. CASE q = r.of
                BY <1>0, <2>1, <3>3, <4>1 DEF Task
            <4>2. CASE q # r.of
                BY <1>0, <2>1, <3>3, <4>2
            <4> QED BY <4>1, <4>2
        <3> QED BY <1>16, <3>1, <3>2, <3>3
    <2>3. ASSUME NEW q \in Question, q # r.of PROVE task'[q] = task[q]
        BY <1>0, <1>16, <2>1, <2>3
    <2> QED BY <1>16, <2>1, <2>2, <2>3, ServerStep
<1>17. ASSUME NEW r \in runs, CheckSettings(r) PROVE OnePost' /\ Turns'
    BY <1>16, <1>17 DEF CheckSettings, Running
<1>18. ASSUME NEW r \in runs, Succeed(r) PROVE OnePost' /\ Turns'
    BY <1>16, <1>18 DEF Succeed
<1>19. ASSUME NEW r \in runs, Fail(r) PROVE OnePost' /\ Turns'
    BY <1>16, <1>19 DEF Fail
<1>20. ASSUME NEW r \in runs, Stall(r) PROVE OnePost' /\ Turns'
    BY <1>20, ServerStep DEF Stall
<1>21. ASSUME UNCHANGED vars PROVE OnePost' /\ Turns'
    BY <1>21, ServerStep DEF vars
<1> QED BY <1>1, <1>2, <1>3, <1>4, <1>5, <1>6, <1>7, <1>8, <1>9, <1>10, <1>11, <1>12,
          <1>14, <1>15, <1>17, <1>18, <1>19, <1>20, <1>21 DEF Next

-----------------------------------------------------------------------------
(* The theorems. *)

(* Nothing is asked yet.                                                    *)
LEMMA InitInv == Init => IInv
<1> SUFFICES ASSUME Init PROVE IInv
    OBVIOUS
<1> USE AssistantAssumption DEF Init
<1>1. /\ NoTask \in Task /\ NoTask.status = "none"
      /\ [waiting |-> FALSE, tries |-> Attempts, delivery |-> 0] \in Job
    BY DEF NoTask, Task, Status, Job
<1>2. ServerTypes /\ PostTypes
    BY <1>1 DEF ServerTypes, PostTypes
<1>3. ShownTypes
    <2>1. messages \in Seq(Message) /\ queue \in Seq(Question) /\ Len(queue) =< MaxQueue
        OBVIOUS
    <2>2. polling \in BOOLEAN
        OBVIOUS
    <2>3. conversation \in 1..Chats /\ active \in 0..Questions
        OBVIOUS
    <2> QED BY <2>1, <2>2, <2>3 DEF ShownTypes
<1>4. RestTypes
    <2>1. crossed \in BOOLEAN
        OBVIOUS
    <2>2. /\ chats \in 1..Chats /\ asked \in 0..Questions /\ closed \subseteq Question
          /\ stalls \in 0..MaxStalls /\ mishaps \in 0..MaxMishaps
        OBVIOUS
    <2> QED BY <2>1, <2>2 DEF RestTypes
<1>5. TasksExist
    BY <1>1 DEF TasksExist, Stored
<1>6. OnePost /\ OneInFlight /\ ListsPosted
    BY <1>1 DEF OnePost, OneInFlight, ListsPosted
<1>7. \A m : ~Contains(messages, m)
    BY DEF Contains
<1>8. ListShown
    BY <1>7 DEF ListShown, InFlight, Settled, Placed, Question
<1> QED BY <1>2, <1>3, <1>4, <1>5, <1>6, <1>8 DEF IInv, Types, Turns

(* Every reachable state satisfies the inductive invariant.                 *)
THEOREM Invariance == Spec => []IInv
<1>1. Init => IInv
    BY InitInv
<1>2. IInv /\ [Next]_vars => IInv'
    BY TypesStep, TasksStep, TurnsStep DEF IInv
<1> QED BY <1>1, <1>2, PTL DEF Spec

(* Types: TypeOK in every reachable state.                                  *)
THEOREM TypeCorrect == Spec => []TypeOK
<1>1. IInv => TypeOK
    BY DEF IInv, Types, ServerTypes, PostTypes, ShownTypes, RestTypes, TypeOK, Job, Call, Request
<1> QED BY <1>1, Invariance, PTL

(* No answer is shown without its question before it, whatever was opened,  *)
(* closed or queued while it was on its way.                                *)
THEOREM Belonging == Spec => []AnswersBelong
<1>1. IInv => AnswersBelong
    BY DEF IInv, Turns, ListShown, Placed, AnswersBelong
<1> QED BY <1>1, Invariance, PTL

(* What is posted leaves no earlier question of the conversation open.      *)
THEOREM TakingTurns == Spec => []QuestionsTakeTurns
<1>1. ASSUME IInv, ~crossed, NEW r \in requests, NEW q \in Question \ closed,
             Before(Ask(q), Ask(r.of), r.input)
      PROVE  Before(Answer(q), Ask(r.of), r.input)
    <2>1. r.of \in Question
        BY <1>1 DEF IInv, Types, PostTypes, Request
    <2>2. PICK earlier \in Seq(Message) :
              r.input = Append(earlier, Ask(r.of)) /\ Settled(earlier, closed)
        BY <1>1 DEF IInv, Turns, ListsPosted, Post
    <2>3. Ask(q) \in Message /\ Answer(q) \in Message /\ Ask(r.of) \in Message
        BY <2>1, Messages
    <2>4. Contains(earlier, Ask(q))
        BY <1>1, <2>2, <2>3, AppendBefore
    <2>5. Contains(earlier, Answer(q))
        BY <2>2, <2>4 DEF Settled
    <2> QED BY <2>2, <2>3, <2>5, AppendBefore
<1>2. IInv => QuestionsTakeTurns
    BY <1>1 DEF QuestionsTakeTurns
<1> QED BY <1>2, Invariance, PTL
=============================================================================
