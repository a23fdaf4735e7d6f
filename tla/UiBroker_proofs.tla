-------------------------- MODULE UiBroker_proofs --------------------------
(* Proofs about UiBroker, for every value of its constants.                  *)
EXTENDS UiBroker, SequenceLemmas

-----------------------------------------------------------------------------
(* The inductive invariant                                                   *)

(* The tables' types, and those of all the rest.                              *)
TablesType ==
  /\ requests \in Seq(Request) /\ Len(requests) <= MaxRequests
  /\ answers \in Seq(Answers) /\ Len(answers) = Len(requests)
  /\ pending \subseteq DOMAIN requests
  /\ modal \subseteq Extensions
  /\ owned \in [Extensions -> SUBSET Ids]
  /\ coalesced \in [Slots -> Ids \cup {NoId}]
  /\ polls \in Seq(Ids)

RestType ==
  /\ channel \in Seq(Ids)
  /\ closed \in BOOLEAN /\ script \in BOOLEAN /\ phase \in Phases
  /\ caller \in [Callers -> [at : {"idle", "sending", "waiting", "expired"}, id : Ids \cup {NoId}]]
  /\ dialog \in Ids \cup {NoId} /\ editor \in Ids \cup {NoId} /\ notifications \in Seq(Ids)
  /\ shown \in [Extensions \X Keys -> Ids \cup {NoId}]

(* TablesAgree in terms of requests: of an extension at most one dialog is      *)
(* pending, and so on.                                                       *)
IsDialog(i, e)  == requests[i].op = "dialog" /\ requests[i].extension = e
IsUpdate(i, x)  == Coalescible(requests[i]) /\ Slot(requests[i]) = x

Tables ==
  /\ pending = {i \in DOMAIN requests : answers[i] = "none"}
  /\ \A e \in Extensions : \A i, j \in pending : IsDialog(i, e) /\ IsDialog(j, e) => i = j
  /\ \A e \in Extensions : e \in modal <=> \E i \in pending : IsDialog(i, e)
  /\ \A e \in Extensions : owned[e] = {i \in pending : requests[i].extension = e}
  /\ \A x \in Slots : {i \in pending : IsUpdate(i, x)} = {coalesced[x]} \ {NoId}
  /\ Members(polls) \subseteq pending /\ Distinct(polls)

(* What is in the channel, and what callers wait for, are requests; only polls   *)
(* are queued as polls; and the broker is closed when the program is gone.    *)
Known ==
  /\ Members(channel) \subseteq DOMAIN requests
  /\ \A c \in Callers : caller[c].at # "idle" => caller[c].id \in DOMAIN requests
  /\ \A i \in Members(polls) : requests[i].op = "poll"
  /\ closed => phase = "gone"

BrokerInv == TablesType /\ RestType /\ Tables /\ Known /\ NobodyWaitsInVain

-----------------------------------------------------------------------------
(* complete_locked                                                           *)

LEMMA RequestIds ==
  ASSUME TablesType
  PROVE  /\ DOMAIN requests = 1..Len(requests) /\ DOMAIN answers = DOMAIN requests
         /\ DOMAIN requests \subseteq Ids
         /\ NoId \notin Ids
         /\ \A i \in DOMAIN requests : requests[i] \in Request
         /\ pending \subseteq Ids
<1>1. Len(requests) \in Nat /\ MaxRequests \in Nat
  BY UiBrokerAssumption DEF TablesType
<1> QED
  BY <1>1 DEF TablesType, Ids, NoId

(* What Complete does to the answers.                                         *)
LEMMA AnswersGiven ==
  ASSUME TablesType, NEW done, NEW answer \in Answers,
         answers' = [i \in DOMAIN answers |-> IF i \in done THEN answer ELSE answers[i]]
  PROVE  /\ answers' \in Seq(Answers) /\ Len(answers') = Len(answers)
         /\ DOMAIN answers' = DOMAIN answers
         /\ \A i \in DOMAIN answers : answers'[i] = IF i \in done THEN answer ELSE answers[i]
<1>1. answers \in Seq(Answers) /\ Len(answers) \in Nat /\ DOMAIN answers = 1..Len(answers)
  BY DEF TablesType
<1>2. \A i \in 1..Len(answers) : answers[i] \in Answers
  BY <1>1
<1> QED
  BY <1>1, <1>2

LEMMA CompleteHolds ==
  ASSUME TablesType, Tables, NEW ids, NEW answer \in Answers \ {"none"},
         Complete(ids, answer), requests' = requests
  PROVE  /\ TablesType' /\ Tables'
         /\ Members(polls') = Members(polls) \ (ids \cap pending)
         /\ pending' = pending \ ids
         /\ \A i \in DOMAIN requests :
              answers'[i] = IF i \in ids \cap pending THEN answer ELSE answers[i]
<1> DEFINE done == ids \cap pending
<1>1. /\ answers' = [i \in DOMAIN answers |-> IF i \in done THEN answer ELSE answers[i]]
      /\ pending' = pending \ done
      /\ modal' = modal \ {requests[i].extension : i \in {j \in done : requests[j].op = "dialog"}}
      /\ owned' = [e \in Extensions |-> owned[e] \ done]
      /\ coalesced' = [x \in Slots |-> IF coalesced[x] \in done THEN NoId ELSE coalesced[x]]
      /\ polls' = Without(polls, done)
  BY DEF Complete
<1>2. done \subseteq pending /\ done \subseteq DOMAIN requests
  BY DEF TablesType
<1> HIDE DEF done
<1>3. /\ answers' \in Seq(Answers) /\ Len(answers') = Len(answers)
      /\ DOMAIN answers' = DOMAIN answers
      /\ \A i \in DOMAIN answers : answers'[i] = IF i \in done THEN answer ELSE answers[i]
  BY <1>1, AnswersGiven
<1>4. /\ polls' \in Seq(Ids)
      /\ Members(polls') = Members(polls) \ done
      /\ Distinct(polls) => Distinct(polls')
  BY <1>1, WithoutKeeps DEF TablesType
<1>5. TablesType'
  <2>1. owned' \in [Extensions -> SUBSET Ids] /\ coalesced' \in [Slots -> Ids \cup {NoId}]
    BY <1>1 DEF TablesType
  <2>2. pending' \subseteq DOMAIN requests /\ modal' \subseteq Extensions
    BY <1>1 DEF TablesType
  <2> QED
    BY <1>3, <1>4, <2>1, <2>2 DEF TablesType
<1>6. pending' = {i \in DOMAIN requests : answers'[i] = "none"}
  BY <1>1, <1>2, <1>3, RequestIds DEF Tables
<1>7. \A e \in Extensions : \A i, j \in pending' : IsDialog(i, e)' /\ IsDialog(j, e)' => i = j
  BY <1>1 DEF Tables, IsDialog
<1>8. ASSUME NEW e \in Extensions
      PROVE  e \in modal' <=> \E i \in pending' : IsDialog(i, e)'
  <2>1. \A i : IsDialog(i, e)' <=> IsDialog(i, e)
    BY DEF IsDialog
  <2>2. /\ e \in modal <=> \E i \in pending : IsDialog(i, e)
        /\ \A i, j \in pending : IsDialog(i, e) /\ IsDialog(j, e) => i = j
    BY DEF Tables
  <2>3. e \in modal' <=> e \in modal /\ ~\E i \in done : IsDialog(i, e)
    BY <1>1 DEF IsDialog
  <2> QED
    BY <1>1, <1>2, <2>1, <2>2, <2>3
<1>9. \A e \in Extensions : owned'[e] = {i \in pending' : requests[i].extension = e}
  BY <1>1 DEF Tables
<1>10. ASSUME NEW x \in Slots
       PROVE  {i \in pending' : IsUpdate(i, x)'} = {coalesced'[x]} \ {NoId}
  <2>1. \A i : IsUpdate(i, x)' <=> IsUpdate(i, x)
    BY DEF IsUpdate
  <2>2. {i \in pending : IsUpdate(i, x)} = {coalesced[x]} \ {NoId}
    BY DEF Tables
  <2>3. {i \in pending' : IsUpdate(i, x)} = {coalesced[x]} \ ({NoId} \cup done)
    BY <1>1, <2>2
  <2>4. coalesced'[x] = IF coalesced[x] \in done THEN NoId ELSE coalesced[x]
    BY <1>1
  <2>5. {coalesced'[x]} \ {NoId} = {coalesced[x]} \ ({NoId} \cup done)
    BY <2>4
  <2> QED
    BY <2>1, <2>3, <2>5
<1>11. Members(polls') \subseteq pending' /\ Distinct(polls')
  BY <1>1, <1>4 DEF Tables
<1>12. Tables'
  BY <1>6, <1>7, <1>8, <1>9, <1>10, <1>11 DEF Tables
<1>13. \A i \in DOMAIN requests : answers'[i] = IF i \in done THEN answer ELSE answers[i]
  BY <1>3, RequestIds
<1> QED
  BY <1>1, <1>4, <1>5, <1>12, <1>13 DEF done

-----------------------------------------------------------------------------
(* The steps                                                                 *)

(* A step that completes requests, and moves envelopes and callers.           *)
LEMMA CompletingStep ==
  ASSUME BrokerInv, NEW ids, NEW answer \in Answers \ {"none"},
         Complete(ids, answer), requests' = requests, RestType',
         Members(channel') \subseteq Members(channel),
         \A c \in Callers : /\ caller'[c].at # "idle" => caller'[c] = caller[c]
                            /\ caller'[c].at = "waiting" => caller[c].at = "waiting",
         closed' => phase' = "gone",
         closed' => closed \/ pending \subseteq ids
  PROVE  BrokerInv'
<1>1. /\ TablesType' /\ Tables'
      /\ Members(polls') \subseteq Members(polls)
      /\ pending' = pending \ ids
      /\ \A i \in DOMAIN requests : answers[i] # "none" => answers'[i] # "none"
  BY CompleteHolds DEF BrokerInv
<1>2. Known'
  BY <1>1 DEF BrokerInv, Known
<1>3. NobodyWaitsInVain'
  <2> SUFFICES ASSUME closed'
               PROVE  /\ pending' = {}
                      /\ \A c \in Callers :
                           caller'[c].at = "waiting" => answers'[caller'[c].id] # "none"
    BY DEF NobodyWaitsInVain
  <2>1. pending' = {}
    BY <1>1 DEF BrokerInv, NobodyWaitsInVain
  <2>2. \A i \in DOMAIN requests : answers'[i] # "none"
    BY <1>1, <2>1 DEF Tables
  <2> QED
    BY <1>2, <2>1, <2>2 DEF Known
<1> QED
  BY <1>1, <1>2, <1>3 DEF BrokerInv

(* A step that leaves the requests and the tables alone.                      *)
LEMMA QuietStep ==
  ASSUME BrokerInv, UNCHANGED <<requests, tables, closed>>, RestType',
         Members(channel') \subseteq DOMAIN requests,
         \A c \in Callers : /\ caller'[c].at # "idle" => caller'[c].id = caller[c].id
                            /\ caller'[c].at # "idle" => caller[c].at # "idle"
                            /\ caller'[c].at = "waiting" => caller[c].at = "waiting" \/ ~closed,
         closed => phase' = "gone"
  PROVE  BrokerInv'
<1>1. UNCHANGED <<answers, pending, modal, owned, coalesced, polls>>
  BY DEF tables
<1>2. TablesType'
  BY <1>1 DEF BrokerInv, TablesType
<1>3. Tables'
  BY <1>1 DEF BrokerInv, Tables, IsDialog, IsUpdate
<1>4. Known' /\ NobodyWaitsInVain'
  BY <1>1 DEF BrokerInv, Known, NobodyWaitsInVain
<1> QED
  BY <1>2, <1>3, <1>4 DEF BrokerInv

(* What a sequence holds when something is put at its end.                    *)
LEMMA AppendMembers ==
  ASSUME NEW T, NEW s \in Seq(T), NEW x \in T
  PROVE  /\ Append(s, x) \in Seq(T)
         /\ Len(Append(s, x)) = Len(s) + 1
         /\ Append(s, x)[Len(s) + 1] = x
         /\ \A i \in 1..Len(s) : Append(s, x)[i] = s[i]
         /\ \A i \in 1..Len(Append(s, x)) : i \in 1..Len(s) \/ i = Len(s) + 1
         /\ Members(Append(s, x)) = Members(s) \cup {x}
<1>1. PICK N \in Nat : N = Len(s)
  OBVIOUS
<1>2. PICK g : g = Append(s, x)
  OBVIOUS
<1>3. /\ g \in Seq(T) /\ Len(g) = N + 1 /\ g[N + 1] = x
      /\ \A i \in 1..N : g[i] = s[i]
  BY <1>1, <1>2
<1>4. \A i \in 1..(N + 1) : i \in 1..N \/ i = N + 1
  BY <1>1, <1>2
<1>5. 1..N \subseteq 1..(N + 1) /\ N + 1 \in 1..(N + 1)
  BY <1>1, <1>2
<1>6. Members(g) = Members(s) \cup {x}
  BY <1>1, <1>2, <1>3, <1>4, <1>5 DEF Members
<1> QED
  BY <1>1, <1>2, <1>3, <1>4, <1>6

LEMMA TailMembers ==
  ASSUME NEW T, NEW s \in Seq(T), s # <<>>
  PROVE  /\ Tail(s) \in Seq(T)
         /\ Members(Tail(s)) \subseteq Members(s)
         /\ Head(s) \in T /\ Head(s) \in Members(s)
<1>1. /\ Tail(s) \in Seq(T) /\ Len(Tail(s)) = Len(s) - 1 /\ Len(s) \in Nat /\ Len(s) # 0
      /\ \A i \in 1..Len(Tail(s)) : Tail(s)[i] = s[i + 1]
      /\ Head(s) = s[1] /\ 1 \in 1..Len(s)
  OBVIOUS
<1>2. \A i \in 1..Len(Tail(s)) : i + 1 \in 1..Len(s)
  BY <1>1
<1> QED
  BY <1>1, <1>2 DEF Members

LEMMA RegisterHolds ==
  ASSUME BrokerInv, NEW c \in Callers, NEW r \in Request, Register(c, r)
  PROVE  BrokerInv'
<1>1. /\ requests \in Seq(Request) /\ answers \in Seq(Answers)
      /\ Len(answers) = Len(requests) /\ Len(requests) \in Nat
  BY DEF BrokerInv, TablesType
<1>2. PICK N \in Nat, id \in Nat : N = Len(requests) /\ id = N + 1
  BY <1>1
<1> DEFINE old  == IF Coalescible(r) THEN {coalesced[Slot(r)]} \cap pending ELSE {}
           kept == [i \in DOMAIN answers |-> IF i \in old THEN "cancelled" ELSE answers[i]]
<1>3. /\ N < MaxRequests /\ ~closed
      /\ r.op = "dialog" => r.extension \notin modal
      /\ requests' = Append(requests, r)
      /\ answers' = Append(kept, "none")
      /\ pending' = (pending \ old) \cup {id}
      /\ modal' = IF r.op = "dialog" THEN modal \cup {r.extension} ELSE modal
      /\ owned' = [owned EXCEPT ![r.extension] = (@ \ old) \cup {id}]
      /\ coalesced' = IF Coalescible(r) THEN [coalesced EXCEPT ![Slot(r)] = id] ELSE coalesced
      /\ caller' = [caller EXCEPT ![c] = [at |-> "sending", id |-> id]]
      /\ UNCHANGED <<polls, closed, channel, script, phase, screen>>
  BY <1>2 DEF Register
<1>4. /\ id \in Ids /\ id # NoId /\ id \notin 1..N
      /\ \A i \in 1..(N + 1) : i \in 1..N \/ i = id
      /\ 1..N \subseteq 1..(N + 1) /\ id \in 1..(N + 1)
      /\ N + 1 <= MaxRequests
  BY <1>2, <1>3, UiBrokerAssumption DEF Ids, NoId
<1>5. /\ DOMAIN requests = 1..N /\ pending \subseteq 1..N /\ id \notin pending
      /\ DOMAIN answers = 1..N
      /\ NoId \notin pending
  BY <1>1, <1>2, <1>4, RequestIds DEF BrokerInv, TablesType, NoId
<1>6. /\ old \subseteq pending
      /\ \A i \in old : Coalescible(r) /\ i = coalesced[Slot(r)]
      /\ Coalescible(r) => Slot(r) \in Slots
      /\ r.extension \in Extensions
  BY DEF Request, Slot, Slots
<1>7. \A i \in old : IsUpdate(i, Slot(r)) /\ i # NoId
  <2>1. Coalescible(r) =>
          {i \in pending : IsUpdate(i, Slot(r))} = {coalesced[Slot(r)]} \ {NoId}
    BY <1>6 DEF BrokerInv, Tables
  <2> QED
    BY <1>5, <1>6, <2>1
<1> HIDE DEF old
<1>8. \A i \in old : requests[i].extension = r.extension /\ requests[i].op \in {"set", "editor"}
  BY <1>7 DEF IsUpdate, Slot, Coalescible
<1>9. /\ requests' \in Seq(Request) /\ Len(requests') = N + 1 /\ DOMAIN requests' = 1..(N + 1)
      /\ requests'[id] = r /\ \A i \in 1..N : requests'[i] = requests[i]
  BY <1>1, <1>2, <1>3
<1>10. /\ answers' \in Seq(Answers) /\ Len(answers') = N + 1
       /\ answers'[id] = "none"
       /\ \A i \in 1..N : answers'[i] = IF i \in old THEN "cancelled" ELSE answers[i]
  <2>1. "cancelled" \in Answers /\ "none" \in Answers
    BY DEF Answers
  <2>2. kept \in Seq(Answers) /\ Len(kept) = N
    BY <1>1, <1>2, <1>5, <2>1
  <2>3. \A i \in 1..N : kept[i] = IF i \in old THEN "cancelled" ELSE answers[i]
    BY <1>5
  <2> HIDE DEF kept
  <2> QED
    BY <1>2, <1>3, <2>1, <2>2, <2>3, AppendMembers
<1>11. TablesType'
  <2>1. pending' \subseteq 1..(N + 1) /\ modal' \subseteq Extensions
    BY <1>3, <1>4, <1>5, <1>6 DEF BrokerInv, TablesType
  <2>2. owned' \in [Extensions -> SUBSET Ids] /\ coalesced' \in [Slots -> Ids \cup {NoId}]
    BY <1>3, <1>4, <1>6 DEF BrokerInv, TablesType
  <2> QED
    BY <1>3, <1>4, <1>9, <1>10, <2>1, <2>2 DEF BrokerInv, TablesType
<1>12. /\ \A i \in pending : \A e : IsDialog(i, e)' <=> IsDialog(i, e)
       /\ \A i \in pending : \A x : IsUpdate(i, x)' <=> IsUpdate(i, x)
       /\ \A e : IsDialog(id, e)' <=> r.op = "dialog" /\ r.extension = e
       /\ \A x : IsUpdate(id, x)' <=> Coalescible(r) /\ Slot(r) = x
  BY <1>5, <1>9 DEF IsDialog, IsUpdate
<1>13. pending' = {i \in DOMAIN requests' : answers'[i] = "none"}
  <2>1. pending = {i \in 1..N : answers[i] = "none"}
    BY <1>5 DEF BrokerInv, Tables
  <2> QED
    BY <1>3, <1>4, <1>9, <1>10, <2>1
<1>14. \A i \in old : \A e : ~IsDialog(i, e)
  BY <1>8 DEF IsDialog
<1>15. \A e \in Extensions : \A i, j \in pending' : IsDialog(i, e)' /\ IsDialog(j, e)' => i = j
  BY <1>3, <1>12 DEF BrokerInv, Tables
<1>16. ASSUME NEW e \in Extensions PROVE e \in modal' <=> \E i \in pending' : IsDialog(i, e)'
  <2>1. e \in modal <=> \E i \in pending : IsDialog(i, e)
    BY DEF BrokerInv, Tables
  <2> QED
    BY <1>3, <1>12, <1>14, <2>1
<1>17. ASSUME NEW e \in Extensions
       PROVE  owned'[e] = {i \in pending' : requests'[i].extension = e}
  <2>1. owned[e] = {i \in pending : requests[i].extension = e}
    BY DEF BrokerInv, Tables
  <2>2. owned'[e] = IF e = r.extension THEN (owned[e] \ old) \cup {id} ELSE owned[e]
    BY <1>3, <1>6 DEF BrokerInv, TablesType
  <2>3. \A i \in pending : requests'[i].extension = requests[i].extension
    BY <1>5, <1>9
  <2>4. requests'[id].extension = r.extension
    BY <1>9
  <2>5. \A i \in old : requests[i].extension = r.extension
    BY <1>8
  <2>6. pending' = (pending \ old) \cup {id}
    BY <1>3
  <2>7. CASE e = r.extension
    BY <2>1, <2>2, <2>3, <2>4, <2>6, <2>7
  <2>8. CASE e # r.extension
    BY <2>1, <2>2, <2>3, <2>4, <2>5, <2>6, <2>8
  <2> QED
    BY <2>7, <2>8
<1>18. ASSUME NEW x \in Slots
       PROVE  {i \in pending' : IsUpdate(i, x)'} = {coalesced'[x]} \ {NoId}
  <2>1. {i \in pending : IsUpdate(i, x)} = {coalesced[x]} \ {NoId}
    BY DEF BrokerInv, Tables
  <2>2. CASE Coalescible(r) /\ Slot(r) = x
    <3>1. coalesced'[x] = id
      BY <1>3, <2>2 DEF BrokerInv, TablesType
    <3>2. \A i \in pending : IsUpdate(i, x) => i \in old
      BY <2>1, <2>2 DEF old
    <3> QED
      BY <1>3, <1>4, <1>12, <2>2, <3>1, <3>2
  <2>3. CASE ~(Coalescible(r) /\ Slot(r) = x)
    <3>1. coalesced'[x] = coalesced[x]
      BY <1>3, <1>6, <2>3 DEF BrokerInv, TablesType
    <3>2. \A i \in old : ~IsUpdate(i, x)
      BY <1>6, <1>7, <2>3 DEF IsUpdate
    <3> QED
      BY <1>3, <1>12, <2>1, <2>3, <3>1, <3>2
  <2> QED
    BY <2>2, <2>3
<1>19. \A i \in Members(polls) : i \in pending /\ i \notin old /\ requests[i].op = "poll"
  BY <1>8 DEF BrokerInv, Tables, Known
<1>20. Tables'
  <2>1. Members(polls') \subseteq pending' /\ Distinct(polls')
    BY <1>3, <1>19 DEF BrokerInv, Tables
  <2> QED
    BY <1>13, <1>15, <1>16, <1>17, <1>18, <2>1 DEF Tables
<1>21. RestType'
  BY <1>3, <1>4 DEF BrokerInv, RestType, screen
<1>22. \A d \in Callers : caller'[d] = IF d = c THEN [at |-> "sending", id |-> id] ELSE caller[d]
  BY <1>3 DEF BrokerInv, RestType
<1>23. Known'
  <2>1. Members(channel') \subseteq DOMAIN requests'
    BY <1>3, <1>4, <1>5, <1>9 DEF BrokerInv, Known
  <2>2. \A d \in Callers : caller'[d].at # "idle" => caller'[d].id \in DOMAIN requests'
    BY <1>4, <1>5, <1>9, <1>22 DEF BrokerInv, Known
  <2>3. \A i \in Members(polls') : requests'[i].op = "poll"
    BY <1>3, <1>5, <1>9, <1>19
  <2>4. closed' => phase' = "gone"
    BY <1>3
  <2> QED
    BY <2>1, <2>2, <2>3, <2>4 DEF Known
<1>24. NobodyWaitsInVain'
  BY <1>3 DEF NobodyWaitsInVain
<1> QED
  BY <1>11, <1>20, <1>21, <1>23, <1>24 DEF BrokerInv

LEMMA CallerHolds ==
  ASSUME BrokerInv, NEW c \in Callers, Caller(c) \/ Expire(c)
  PROVE  BrokerInv'
<1>1. /\ caller \in [Callers -> [at : {"idle", "sending", "waiting", "expired"},
                                 id : Ids \cup {NoId}]]
      /\ channel \in Seq(Ids) /\ RestType
  BY DEF BrokerInv, RestType
<1>2. caller[c].at # "idle" => caller[c].id \in DOMAIN requests
  BY DEF BrokerInv, Known
<1>3. Idle \in [at : {"idle", "sending", "waiting", "expired"}, id : Ids \cup {NoId}]
      /\ Idle.at = "idle"
  BY DEF Idle
<1>4. "cancelled" \in Answers \ {"none"}
  BY DEF Answers
<1>5. closed => phase = "gone"
  BY DEF BrokerInv, Known
<1>6. CASE Send(c)
  <2>1. caller[c].at = "sending" /\ UNCHANGED <<requests, closed, script, phase, screen>>
    BY <1>6 DEF Send
  <2>2. CASE /\ phase # "gone" /\ Len(channel) < QueueCapacity
             /\ channel' = Append(channel, caller[c].id)
             /\ caller' = [caller EXCEPT ![c].at = "waiting"]
             /\ UNCHANGED tables
    <3>1. caller[c].id \in DOMAIN requests /\ caller[c].id \in Ids
      BY <1>2, <2>1, RequestIds DEF BrokerInv
    <3>2. PICK id \in Ids : id = caller[c].id
      BY <3>1
    <3>3. channel' = Append(channel, id)
      BY <2>2, <3>2
    <3>4. channel' \in Seq(Ids) /\ Members(channel') = Members(channel) \cup {id}
      BY <1>1, <3>3, AppendMembers
    <3>5. Members(channel') \subseteq DOMAIN requests
      BY <3>1, <3>2, <3>4 DEF BrokerInv, Known
    <3>6. /\ caller' \in [Callers -> [at : {"idle", "sending", "waiting", "expired"},
                                      id : Ids \cup {NoId}]]
          /\ \A d \in Callers :
               /\ caller'[d].id = caller[d].id
               /\ caller'[d].at = IF d = c THEN "waiting" ELSE caller[d].at
      BY <1>1, <2>2
    <3>7. RestType'
      BY <1>1, <2>1, <3>4, <3>6 DEF RestType, screen
    <3> QED
      BY <1>5, <2>1, <2>2, <3>5, <3>6, <3>7, QuietStep
  <2>3. CASE /\ Complete({caller[c].id}, "cancelled")
             /\ caller' = [caller EXCEPT ![c] = Idle]
             /\ UNCHANGED channel
    <3>1. /\ caller' \in [Callers -> [at : {"idle", "sending", "waiting", "expired"},
                                      id : Ids \cup {NoId}]]
          /\ \A d \in Callers : caller'[d] = IF d = c THEN Idle ELSE caller[d]
      BY <1>1, <1>3, <2>3
    <3>2. RestType'
      BY <1>1, <2>1, <2>3, <3>1 DEF RestType, screen
    <3> QED
      BY <1>3, <1>4, <1>5, <2>1, <2>3, <3>1, <3>2, CompletingStep
  <2> QED
    BY <1>6, <2>2, <2>3 DEF Send
<1>7. CASE Answered(c)
  <2>1. /\ UNCHANGED <<requests, tables, closed, channel, script, phase, screen>>
        /\ caller' = [caller EXCEPT ![c] = Idle]
    BY <1>7 DEF Answered
  <2>2. /\ caller' \in [Callers -> [at : {"idle", "sending", "waiting", "expired"},
                                    id : Ids \cup {NoId}]]
        /\ \A d \in Callers : caller'[d] = IF d = c THEN Idle ELSE caller[d]
    BY <1>1, <1>3, <2>1
  <2>3. RestType' /\ Members(channel') \subseteq DOMAIN requests
    BY <1>1, <2>1, <2>2 DEF RestType, screen, BrokerInv, Known
  <2> QED
    BY <1>3, <1>5, <2>1, <2>2, <2>3, QuietStep
<1>8. CASE Expire(c)
  <2>1. /\ UNCHANGED <<requests, tables, closed, channel, script, phase, screen>>
        /\ caller[c].at = "waiting"
        /\ caller' = [caller EXCEPT ![c].at = "expired"]
    BY <1>8 DEF Expire
  <2>2. /\ caller' \in [Callers -> [at : {"idle", "sending", "waiting", "expired"},
                                    id : Ids \cup {NoId}]]
        /\ \A d \in Callers :
             /\ caller'[d].id = caller[d].id
             /\ caller'[d].at = IF d = c THEN "expired" ELSE caller[d].at
    BY <1>1, <2>1
  <2>3. RestType' /\ Members(channel') \subseteq DOMAIN requests
    BY <1>1, <2>1, <2>2 DEF RestType, screen, BrokerInv, Known
  <2> QED
    BY <1>5, <2>1, <2>2, <2>3, QuietStep
<1>9. CASE CancelExpired(c)
  <2>1. /\ UNCHANGED <<requests, closed, channel, script, phase, screen>>
        /\ Complete({caller[c].id}, "cancelled")
        /\ caller' = [caller EXCEPT ![c] = Idle]
    BY <1>9 DEF CancelExpired
  <2>2. /\ caller' \in [Callers -> [at : {"idle", "sending", "waiting", "expired"},
                                    id : Ids \cup {NoId}]]
        /\ \A d \in Callers : caller'[d] = IF d = c THEN Idle ELSE caller[d]
    BY <1>1, <1>3, <2>1
  <2>3. RestType'
    BY <1>1, <2>1, <2>2 DEF RestType, screen
  <2> QED
    BY <1>3, <1>4, <1>5, <2>1, <2>2, <2>3, CompletingStep
<1> QED
  BY <1>6, <1>7, <1>8, <1>9 DEF Caller

(* An envelope served: a poll joins the queue, or the request is answered, or   *)
(* its dialog is shown.                                                      *)
LEMMA ReceiveHolds ==
  ASSUME BrokerInv, Receive
  PROVE  BrokerInv'
<1>1. /\ RestType /\ channel \in Seq(Ids) /\ channel # <<>> /\ channel' = Tail(channel)
      /\ UNCHANGED <<requests, closed, caller, script, phase>>
      /\ phase = "running" /\ ~closed
      /\ phase' = "running" /\ ~closed'
  BY DEF Receive, BrokerInv, RestType, Known
<1>2. PICK id : id = Head(channel)
  OBVIOUS
<1>3. /\ channel' \in Seq(Ids) /\ Members(channel') \subseteq Members(channel)
      /\ id \in Ids /\ id \in DOMAIN requests
  BY <1>1, <1>2, TailMembers DEF BrokerInv, Known
<1>4. Serve(id)
  BY <1>2 DEF Receive
<1>5. requests[id] \in Request /\ requests[id].extension \in Extensions /\ requests[id].key \in Keys
      /\ requests[id].op \in OperationKinds
  <2>1. requests[id] \in Request
    BY <1>3, RequestIds DEF BrokerInv
  <2> QED
    BY <2>1 DEF Request
<1>6. "ack" \in Answers \ {"none"}
  BY DEF Answers
<1>7. ASSUME Complete({id}, "ack"), RestType' PROVE BrokerInv'
  BY <1>1, <1>3, <1>6, <1>7, CompletingStep
<1>8. CASE requests[id].op = "dialog"
  <2>1. dialog' = id /\ UNCHANGED <<tables, editor, notifications, shown>>
    BY <1>4, <1>8 DEF Serve
  <2>2. RestType' /\ Members(channel') \subseteq DOMAIN requests
    BY <1>1, <1>3, <2>1 DEF RestType, BrokerInv, Known
  <2> QED
    BY <1>1, <2>1, <2>2, QuietStep
<1>9. CASE requests[id].op = "set"
  <2>1. /\ shown' = [shown EXCEPT ![<<requests[id].extension, requests[id].key>>] = id]
        /\ Complete({id}, "ack")
        /\ UNCHANGED <<dialog, editor, notifications>>
    BY <1>4, <1>9 DEF Serve
  <2>2. shown' \in [Extensions \X Keys -> Ids \cup {NoId}]
    BY <1>1, <1>3, <2>1 DEF RestType
  <2>3. RestType'
    BY <1>1, <1>3, <2>1, <2>2 DEF RestType
  <2> QED
    BY <1>7, <2>1, <2>3
<1>10. CASE requests[id].op = "editor"
  <2>1. /\ editor' = IF requests[id].flag THEN id ELSE NoId
        /\ Complete({id}, "ack")
        /\ UNCHANGED <<dialog, notifications, shown>>
    BY <1>4, <1>10 DEF Serve
  <2>2. RestType'
    BY <1>1, <1>3, <2>1 DEF RestType
  <2> QED
    BY <1>7, <2>1, <2>2
<1>11. CASE requests[id].op = "notify"
  <2>1. /\ notifications' = Newest(Append(notifications, id))
        /\ Complete({id}, "ack")
        /\ UNCHANGED <<dialog, editor, shown>>
    BY <1>4, <1>11 DEF Serve
  <2>2. notifications' \in Seq(Ids)
    <3>1. notifications \in Seq(Ids) /\ Len(notifications) \in Nat
      BY <1>1 DEF RestType
    <3>2. PICK more : more = Append(notifications, id)
      OBVIOUS
    <3>3. more \in Seq(Ids) /\ more # <<>>
      BY <1>3, <3>1, <3>2
    <3>4. Tail(more) \in Seq(Ids)
      BY <3>3, TailMembers
    <3> QED
      BY <2>1, <3>2, <3>3, <3>4 DEF Newest
  <2>3. RestType'
    BY <1>1, <1>3, <2>1, <2>2 DEF RestType
  <2> QED
    BY <1>7, <2>1, <2>3
<1>12. CASE requests[id].op = "poll"
  <2>1. /\ polls' = IF id \in pending /\ ~Contains(polls, id) THEN Append(polls, id) ELSE polls
        /\ UNCHANGED <<answers, pending, modal, owned, coalesced, screen>>
    BY <1>4, <1>12 DEF Serve
  <2>2. RestType' /\ Members(channel') \subseteq DOMAIN requests
    BY <1>1, <1>3, <2>1 DEF RestType, screen, BrokerInv, Known
  <2>3. CASE polls' = polls
    BY <1>1, <2>1, <2>2, <2>3, QuietStep DEF tables
  <2>4. CASE id \in pending /\ ~Contains(polls, id) /\ polls' = Append(polls, id)
    <3>1. polls \in Seq(Ids) /\ Len(polls) \in Nat
      BY DEF BrokerInv, TablesType
    <3>2. /\ polls' \in Seq(Ids) /\ Members(polls') = Members(polls) \cup {id}
          /\ Len(polls') = Len(polls) + 1 /\ polls'[Len(polls) + 1] = id
          /\ \A i \in 1..Len(polls) : polls'[i] = polls[i]
          /\ \A i \in 1..Len(polls') : i \in 1..Len(polls) \/ i = Len(polls) + 1
      BY <1>3, <2>4, <3>1, AppendMembers
    <3>3. id \notin Members(polls)
      BY <2>4 DEF Contains, Members
    <3>4. Distinct(polls')
      BY <3>2, <3>3 DEF BrokerInv, Tables, Distinct, Members
    <3>5. TablesType'
      BY <1>1, <2>1, <3>2 DEF BrokerInv, TablesType
    <3>6. Tables'
      BY <1>1, <2>1, <2>4, <3>2, <3>4 DEF BrokerInv, Tables, IsDialog, IsUpdate
    <3>7. Known' /\ NobodyWaitsInVain'
      BY <1>1, <1>12, <2>2, <3>2 DEF BrokerInv, Known, NobodyWaitsInVain
    <3> QED
      BY <2>2, <3>5, <3>6, <3>7 DEF BrokerInv
  <2> QED
    BY <2>1, <2>3, <2>4
<1> QED
  BY <1>5, <1>8, <1>9, <1>10, <1>11, <1>12 DEF OperationKinds

LEMMA NextHolds == BrokerInv /\ [Next]_vars => BrokerInv'
<1> SUFFICES ASSUME BrokerInv, [Next]_vars PROVE BrokerInv'
  OBVIOUS
<1>1. /\ RestType /\ Members(channel) \subseteq DOMAIN requests
      /\ closed => phase = "gone"
  BY DEF BrokerInv, Known
<1>2. {"input", "dialog", "cancelled"} \subseteq Answers \ {"none"}
  BY DEF Answers
<1>3. ASSUME NEW ids, NEW answer \in Answers \ {"none"}, Complete(ids, answer),
             UNCHANGED <<requests, closed, channel, caller, phase>>, RestType'
      PROVE  BrokerInv'
  BY <1>1, <1>3, CompletingStep
<1>4. ASSUME UNCHANGED <<requests, tables, closed, channel, caller>>, RestType',
             closed => phase' = "gone"
      PROVE  BrokerInv'
  BY <1>1, <1>4, QuietStep
<1>5. CASE UNCHANGED vars
  <2>1. RestType'
    BY <1>1, <1>5 DEF RestType, vars, screen
  <2> QED
    BY <1>1, <1>4, <1>5, <2>1 DEF vars
<1>6. CASE \E e \in Extensions : Unload(e)
  <2>1. PICK e \in Extensions : Unload(e)
    BY <1>6
  <2>2. RestType'
    BY <1>1, <2>1 DEF Unload, RestType, screen
  <2> QED
    BY <1>2, <1>3, <2>1, <2>2 DEF Unload
<1>7. CASE KeyToPoll
  <2>1. RestType'
    BY <1>1, <1>7 DEF KeyToPoll, RestType, screen
  <2> QED
    BY <1>2, <1>3, <1>7, <2>1 DEF KeyToPoll
<1>8. CASE KeyToDialog
  <2>1. RestType'
    BY <1>1, <1>8 DEF KeyToDialog, RestType, NoId
  <2> QED
    BY <1>2, <1>3, <1>8, <2>1 DEF KeyToDialog
<1>9. CASE Exit \/ Attach \/ StartScript \/ EndScript
  <2>1. RestType'
    BY <1>1, <1>9 DEF Exit, Attach, StartScript, EndScript, RestType, screen, Phases
  <2> QED
    BY <1>1, <1>4, <1>9, <2>1 DEF Exit, Attach, StartScript, EndScript
<1>10. CASE FinishClose \/ Fail
  <2>1. /\ phase' = "gone" /\ closed' = TRUE /\ channel' = <<>>
        /\ Complete(pending, "cancelled")
        /\ UNCHANGED <<requests, caller, script, screen>>
    BY <1>10 DEF FinishClose, Fail, DropServer
  <2>2. RestType' /\ Members(channel') \subseteq Members(channel)
    BY <1>1, <2>1 DEF RestType, screen, Phases, Members
  <2> QED
    BY <1>2, <2>1, <2>2, CompletingStep
<1> QED
  BY <1>5, <1>6, <1>7, <1>8, <1>9, <1>10, RegisterHolds, CallerHolds, ReceiveHolds DEF Next

LEMMA InitHolds == Init => BrokerInv
<1> SUFFICES ASSUME Init PROVE BrokerInv
  OBVIOUS
<1>1. /\ DOMAIN requests = {} /\ requests \in Seq(Request) /\ Len(requests) = 0
      /\ answers \in Seq(Answers) /\ Len(answers) = 0 /\ polls \in Seq(Ids)
      /\ channel \in Seq(Ids) /\ notifications \in Seq(Ids)
      /\ 0 <= MaxRequests
  BY UiBrokerAssumption DEF Init
<1>2. Members(polls) = {} /\ Distinct(polls) /\ Members(channel) = {}
  BY DEF Init, Members, Distinct
<1>3. TablesType
  BY <1>1 DEF Init, TablesType
<1>4. caller \in [Callers -> [at : {"idle", "sending", "waiting", "expired"},
                              id : Ids \cup {NoId}]]
      /\ \A c \in Callers : caller[c].at = "idle"
  BY DEF Init, Idle
<1>5. RestType
  BY <1>1, <1>4 DEF Init, RestType, Phases
<1>6. Tables
  <2>1. \A x \in Slots : {coalesced[x]} \ {NoId} = {}
    BY DEF Init
  <2> QED
    BY <1>1, <1>2, <2>1 DEF Init, Tables
<1>7. Known /\ NobodyWaitsInVain
  BY <1>1, <1>2, <1>4 DEF Init, Known, NobodyWaitsInVain
<1> QED
  BY <1>3, <1>5, <1>6, <1>7 DEF BrokerInv

(* A set without two different members has one member at most.                *)
LEMMA AtMostOne ==
  ASSUME NEW S, \A x, y \in S : x = y
  PROVE  Cardinality(S) <= 1
<1>1. CASE S = {}
  BY <1>1, FS_EmptySet
<1>2. ASSUME NEW x \in S PROVE Cardinality(S) = 1
  <2>1. S = {x}
    BY <1>2
  <2> QED
    BY <2>1, FS_Singleton
<1> QED
  BY <1>1, <1>2

(* The broker's tables agree after every step, whatever callers, deadlines,     *)
(* unloads and the shutdown do, and nobody waits for a broker that is gone.   *)
THEOREM BrokerSound == Spec => []BrokerIsSound
<1>1. BrokerInv => BrokerIsSound
  <2> SUFFICES ASSUME BrokerInv PROVE BrokerIsSound
    OBVIOUS
  <2>1. TypeOK
    BY DEF BrokerInv, TablesType, RestType, TypeOK
  <2>2. ASSUME NEW e \in Extensions
        PROVE  LET dialogs == {i \in pending : requests[i].op = "dialog"
                                                 /\ requests[i].extension = e}
               IN  /\ Cardinality(dialogs) <= 1
                   /\ e \in modal <=> dialogs # {}
                   /\ owned[e] = {i \in pending : requests[i].extension = e}
    <3> DEFINE dialogs == {i \in pending : requests[i].op = "dialog" /\ requests[i].extension = e}
    <3>1. \A i, j \in dialogs : i = j
      BY DEF BrokerInv, Tables, IsDialog
    <3>2. e \in modal <=> dialogs # {}
      BY DEF BrokerInv, Tables, IsDialog
    <3>3. Cardinality(dialogs) <= 1
      <4> HIDE DEF dialogs
      <4> QED
        BY <3>1, AtMostOne
    <3> QED
      BY <3>2, <3>3 DEF BrokerInv, Tables
  <2>3. \A i \in 1..Len(polls) :
          polls[i] \in pending /\ \A j \in 1..(i - 1) : polls[i] # polls[j]
    <3>1. Len(polls) \in Nat
      BY <2>1 DEF TypeOK
    <3>2. ASSUME NEW i \in 1..Len(polls), NEW j \in 1..(i - 1)
          PROVE  j \in 1..Len(polls) /\ i # j
      BY <3>1, <3>2
    <3> QED
      BY <3>2 DEF BrokerInv, Tables, Members, Distinct
  <2>4. TablesAgree
    BY <2>2, <2>3 DEF BrokerInv, Tables, IsUpdate, TablesAgree
  <2> QED
    BY <2>1, <2>4 DEF BrokerInv, BrokerIsSound
<1> QED
  BY <1>1, InitHolds, NextHolds, PTL DEF Spec

-----------------------------------------------------------------------------
(* One caller, as in the program: what the screen shows                      *)

OneCaller == \A c, d \in Callers : c = d

(* Envelopes are served in the order of their requests: those in the channel    *)
(* are newer than what the screen shows, and the one being sent is the newest. *)
Increasing(s) == \A i, j \in 1..Len(s) : i < j => s[i] < s[j]
NewerThanScreen(n) == dialog < n /\ \A x \in Extensions \X Keys : shown[x] < n

ScreenInv ==
  /\ Increasing(channel)
  /\ \A n \in Members(channel) : NewerThanScreen(n)
  /\ \A c \in Callers : caller[c].at # "idle" => caller[c].id = Len(requests)
  /\ \A c \in Callers : caller[c].at = "sending" =>
        NewerThanScreen(caller[c].id) /\ \A n \in Members(channel) : n < caller[c].id
  /\ dialog <= Len(requests) /\ \A x \in Extensions \X Keys : shown[x] <= Len(requests)
  /\ ScreenIsFaithful

LEMMA Containing == \A s, n : Contains(s, n) <=> n \in Members(s)
  BY DEF Contains, Members

(* A step that answers requests other than with an acknowledgement.           *)
LEMMA AnsweringScreen ==
  ASSUME BrokerInv, ScreenInv, NEW ids, NEW answer \in Answers \ {"none", "ack"},
         Complete(ids, answer), UNCHANGED <<requests, shown>>,
         channel' = channel \/ (channel' = <<>> /\ pending \subseteq ids),
         dialog' = dialog \/ (dialog' = NoId /\ dialog \in ids),
         \A c \in Callers : caller'[c] = caller[c] \/ caller'[c].at = "idle"
  PROVE  ScreenInv'
<1>1. /\ Members(polls') = Members(polls) \ (ids \cap pending)
      /\ \A i \in DOMAIN requests :
           answers'[i] = IF i \in ids \cap pending THEN answer ELSE answers[i]
  BY CompleteHolds DEF BrokerInv
<1>2. \A c \in Callers : caller[c].at # "idle" => caller[c].id \in DOMAIN requests
  BY DEF BrokerInv, Known
<1>3. \A i \in DOMAIN requests : answers[i] = "none" => i \in pending
  BY DEF BrokerInv, Tables
<1>4. dialog' <= dialog /\ dialog' <= Len(requests) /\ \A n \in Ids : dialog < n => dialog' < n
  <2>1. Len(requests) \in Nat /\ dialog \in Int /\ dialog <= Len(requests) /\ dialog >= 0
    BY UiBrokerAssumption DEF BrokerInv, RestType, TablesType, ScreenInv, NoId, Ids
  <2>2. \A n \in Ids : n \in Nat
    BY DEF Ids
  <2> QED
    BY <2>1, <2>2 DEF NoId
<1>5. Members(channel') \subseteq Members(channel) /\ Increasing(channel')
  BY DEF Members, Increasing, ScreenInv
<1>6. /\ Members(channel) \subseteq Ids
      /\ \A c \in Callers : caller[c].at # "idle" => caller[c].id \in Ids
  BY <1>2, RequestIds DEF BrokerInv, Known
<1>7. \A n \in Ids : NewerThanScreen(n) => NewerThanScreen(n)'
  BY <1>4 DEF NewerThanScreen
<1>8. WaitersCanBeAnswered'
  <2> SUFFICES ASSUME NEW c \in Callers, caller'[c].at = "waiting",
                      answers'[caller'[c].id] = "none"
               PROVE  \/ caller'[c].id \in Members(channel') \/ dialog' = caller'[c].id
                      \/ caller'[c].id \in Members(polls')
    BY Containing DEF WaitersCanBeAnswered
  <2>1. caller'[c] = caller[c] /\ caller[c].at = "waiting" /\ caller[c].id \in DOMAIN requests
    BY <1>2
  <2>2. PICK n \in DOMAIN requests : n = caller[c].id
    BY <2>1
  <2>3. answers[n] = "none" /\ n \in pending /\ n \notin ids
    BY <1>1, <1>3, <2>1, <2>2
  <2>4. n \in Members(channel) \/ dialog = n \/ n \in Members(polls)
    BY <2>1, <2>2, <2>3, Containing DEF ScreenInv, ScreenIsFaithful, WaitersCanBeAnswered
  <2>5. n \in Members(channel') \/ dialog' = n \/ n \in Members(polls')
    BY <1>1, <2>3, <2>4
  <2> QED
    BY <2>1, <2>2, <2>5
<1>9. AcknowledgedIsShown'
  BY <1>1 DEF ScreenInv, ScreenIsFaithful, AcknowledgedIsShown
<1>10. \A n \in Members(channel') : NewerThanScreen(n)'
  BY <1>5, <1>6, <1>7 DEF ScreenInv
<1>11. (\A c \in Callers : caller[c].at = "sending" =>
          NewerThanScreen(caller[c].id) /\ \A n \in Members(channel) : n < caller[c].id)'
  <2> SUFFICES ASSUME NEW c \in Callers, caller'[c].at = "sending"
               PROVE  /\ NewerThanScreen(caller[c].id)'
                      /\ \A n \in Members(channel') : n < caller'[c].id
    OBVIOUS
  <2>1. caller'[c] = caller[c] /\ caller[c].at = "sending"
    OBVIOUS
  <2>2. PICK n \in Ids : n = caller[c].id
    BY <1>6, <2>1
  <2>3. NewerThanScreen(n) /\ \A m \in Members(channel) : m < n
    BY <2>1, <2>2 DEF ScreenInv
  <2>4. NewerThanScreen(n)' /\ n = caller'[c].id
    BY <1>7, <2>1, <2>2, <2>3
  <2> QED
    BY <1>5, <2>3, <2>4 DEF NewerThanScreen
<1> QED
  BY <1>4, <1>5, <1>8, <1>9, <1>10, <1>11 DEF ScreenInv, ScreenIsFaithful

(* A step that concerns none of this.                                        *)
LEMMA QuietScreen ==
  ASSUME BrokerInv, ScreenInv, UNCHANGED <<requests, tables, channel, screen>>,
         \A c \in Callers :
            \/ caller'[c] = caller[c]
            \/ caller'[c].at = "idle"
            \/ caller'[c].at = "expired" /\ caller'[c].id = caller[c].id /\ caller[c].at # "idle"
  PROVE  ScreenInv'
<1>1. UNCHANGED <<answers, pending, polls, dialog, shown>>
  BY DEF tables, screen
<1>2. \A n : NewerThanScreen(n)' <=> NewerThanScreen(n)
  BY <1>1 DEF NewerThanScreen
<1>3. ScreenIsFaithful'
  BY <1>1 DEF ScreenInv, ScreenIsFaithful, WaitersCanBeAnswered, AcknowledgedIsShown
<1> QED
  BY <1>1, <1>2, <1>3 DEF ScreenInv, Members, Increasing

LEMMA SendScreen ==
  ASSUME BrokerInv, ScreenInv, NEW c \in Callers, caller[c].at = "sending",
         UNCHANGED <<requests, tables, screen>>,
         channel' = Append(channel, caller[c].id),
         caller' = [caller EXCEPT ![c].at = "waiting"], OneCaller
  PROVE  ScreenInv'
<1>1. /\ channel \in Seq(Ids) /\ Len(channel) \in Nat
      /\ \A d \in Callers : d = c
  BY DEF BrokerInv, RestType, OneCaller
<1>2. caller[c].id \in Ids
  BY RequestIds DEF BrokerInv, Known
<1>3. PICK id \in Ids : id = caller[c].id
  BY <1>2
<1>4. PICK N \in Nat : N = Len(channel)
  BY <1>1
<1>5. channel' = Append(channel, id)
  BY <1>3
<1>6. /\ Len(channel') = N + 1 /\ channel'[N + 1] = id
      /\ \A i \in 1..N : channel'[i] = channel[i]
      /\ \A i \in 1..Len(channel') : i \in 1..N \/ i = N + 1
      /\ Members(channel') = Members(channel) \cup {id}
  BY <1>1, <1>4, <1>5, AppendMembers
<1>7. /\ NewerThanScreen(id) /\ \A n \in Members(channel) : n < id
      /\ id = Len(requests)
  BY <1>3 DEF ScreenInv
<1>8. caller'[c].at = "waiting" /\ caller'[c].id = id
  BY <1>3 DEF BrokerInv, RestType
<1>9. UNCHANGED <<answers, polls, dialog, shown>>
  BY DEF tables, screen
<1>10. \A n : NewerThanScreen(n)' <=> NewerThanScreen(n)
  BY <1>9 DEF NewerThanScreen
<1>11. Increasing(channel')
  <2> SUFFICES ASSUME NEW i \in 1..Len(channel'), NEW j \in 1..Len(channel'), i < j
               PROVE  channel'[i] < channel'[j]
    BY DEF Increasing
  <2>1. i \in 1..N
    BY <1>4, <1>6
  <2>2. CASE j \in 1..N
    BY <1>4, <1>6, <2>1, <2>2 DEF ScreenInv, Increasing
  <2>3. CASE j = N + 1
    BY <1>4, <1>6, <1>7, <2>1, <2>3 DEF Members
  <2> QED
    BY <1>6, <2>2, <2>3
<1>12. WaitersCanBeAnswered'
  BY <1>1, <1>6, <1>8, Containing DEF WaitersCanBeAnswered
<1>13. AcknowledgedIsShown'
  BY <1>9 DEF ScreenInv, ScreenIsFaithful, AcknowledgedIsShown
<1> QED
  BY <1>1, <1>6, <1>7, <1>8, <1>9, <1>10, <1>11, <1>12, <1>13 DEF ScreenInv, ScreenIsFaithful

LEMMA RegisterScreen ==
  ASSUME BrokerInv, ScreenInv, NEW c \in Callers, NEW r \in Request, Register(c, r), OneCaller
  PROVE  ScreenInv'
<1>1. /\ requests \in Seq(Request) /\ answers \in Seq(Answers)
      /\ Len(answers) = Len(requests) /\ Len(requests) \in Nat
      /\ DOMAIN requests = 1..Len(requests) /\ DOMAIN answers = 1..Len(requests)
      /\ \A d \in Callers : d = c
  BY DEF BrokerInv, TablesType, OneCaller
<1>2. PICK N \in Nat : N = Len(requests)
  BY <1>1
<1> DEFINE old  == IF Coalescible(r) THEN {coalesced[Slot(r)]} \cap pending ELSE {}
           kept == [i \in DOMAIN answers |-> IF i \in old THEN "cancelled" ELSE answers[i]]
<1>3. /\ requests' = Append(requests, r)
      /\ answers' = Append(kept, "none")
      /\ caller' = [caller EXCEPT ![c] = [at |-> "sending", id |-> N + 1]]
      /\ UNCHANGED <<channel, dialog, shown>>
  BY <1>2 DEF Register, screen
<1>4. /\ Len(requests') = N + 1 /\ DOMAIN requests' = 1..(N + 1)
      /\ \A i \in 1..N : requests'[i] = requests[i]
  BY <1>1, <1>2, <1>3
<1>5. /\ answers'[N + 1] = "none"
      /\ \A i \in 1..N : answers'[i] = IF i \in old THEN "cancelled" ELSE answers[i]
  <2>1. "cancelled" \in Answers /\ "none" \in Answers
    BY DEF Answers
  <2>2. kept \in Seq(Answers) /\ Len(kept) = N
    BY <1>1, <1>2, <2>1
  <2>3. \A i \in 1..N : kept[i] = IF i \in old THEN "cancelled" ELSE answers[i]
    BY <1>1, <1>2
  <2> HIDE DEF kept
  <2> QED
    BY <1>2, <1>3, <2>1, <2>2, <2>3, AppendMembers
<1> HIDE DEF old
<1>6. caller'[c].at = "sending" /\ caller'[c].id = N + 1
  BY <1>3 DEF BrokerInv, RestType
<1>7. \A n : NewerThanScreen(n)' <=> NewerThanScreen(n)
  BY <1>3 DEF NewerThanScreen
<1>8. /\ \A n \in Members(channel) : n < N + 1
      /\ NewerThanScreen(N + 1)
      /\ dialog <= N + 1 /\ \A x \in Extensions \X Keys : shown[x] <= N + 1
  <2>1. Members(channel) \subseteq 1..N
    BY <1>1, <1>2 DEF BrokerInv, Known
  <2>2. /\ dialog <= N /\ \A x \in Extensions \X Keys : shown[x] <= N
        /\ dialog \in Int /\ \A x \in Extensions \X Keys : shown[x] \in Int
    BY <1>2, UiBrokerAssumption DEF ScreenInv, BrokerInv, RestType, Ids, NoId
  <2> QED
    BY <2>1, <2>2 DEF NewerThanScreen
<1>9. WaitersCanBeAnswered'
  BY <1>1, <1>6 DEF WaitersCanBeAnswered
<1>10. AcknowledgedIsShown'
  <2> SUFFICES ASSUME NEW i \in 1..(N + 1), requests'[i].op = "set", answers'[i] = "ack"
               PROVE  shown[<<requests'[i].extension, requests'[i].key>>] >= i
    BY <1>3, <1>4 DEF AcknowledgedIsShown
  <2>1. i # N + 1
    BY <1>5
  <2>2. i \in 1..N
    BY <1>2, <2>1
  <2>3. requests'[i] = requests[i] /\ answers[i] = "ack"
    BY <1>4, <1>5, <2>2
  <2> QED
    BY <1>1, <1>2, <2>2, <2>3 DEF ScreenInv, ScreenIsFaithful, AcknowledgedIsShown
<1> QED
  BY <1>1, <1>3, <1>4, <1>6, <1>7, <1>8, <1>9, <1>10 DEF ScreenInv, ScreenIsFaithful

(* What serving envelope `id` does to the screen, the answers and the polls.   *)
Serving(id) ==
  /\ dialog' \in {dialog, id}
  /\ \A x \in Extensions \X Keys : shown'[x] \in {shown[x], id}
  /\ \A i \in DOMAIN requests :
       \/ answers'[i] = answers[i]
       \/ /\ i = id /\ answers'[i] = "ack"
          /\ requests[id].op = "set" =>
               shown'[<<requests[id].extension, requests[id].key>>] = id
  /\ \A i \in DOMAIN requests :
       answers'[i] = "none" /\ i \in Members(polls) => i \in Members(polls')
  /\ answers'[id] = "none" => dialog' = id \/ id \in Members(polls')

LEMMA ServeServes ==
  ASSUME BrokerInv, NEW id \in DOMAIN requests, Serve(id), requests' = requests
  PROVE  Serving(id)
<1>1. requests[id].extension \in Extensions /\ requests[id].key \in Keys
      /\ requests[id].op \in OperationKinds
  <2>1. requests[id] \in Request
    BY RequestIds DEF BrokerInv
  <2> QED
    BY <2>1 DEF Request
<1>2. shown \in [Extensions \X Keys -> Ids \cup {NoId}] /\ id \in Ids
  BY RequestIds DEF BrokerInv, RestType
<1>3. \A i \in DOMAIN requests : answers[i] = "none" <=> i \in pending
  BY DEF BrokerInv, Tables
<1>4. ASSUME Complete({id}, "ack")
      PROVE  /\ \A i \in DOMAIN requests :
                  answers'[i] = answers[i] \/ (i = id /\ answers'[i] = "ack")
             /\ \A i \in DOMAIN requests :
                  answers'[i] = "none" /\ i \in Members(polls) => i \in Members(polls')
             /\ answers'[id] # "none"
  <2>1. "ack" \in Answers \ {"none"}
    BY DEF Answers
  <2>2. /\ Members(polls') = Members(polls) \ ({id} \cap pending)
        /\ \A i \in DOMAIN requests :
             answers'[i] = IF i \in {id} \cap pending THEN "ack" ELSE answers[i]
    BY <1>4, <2>1, CompleteHolds DEF BrokerInv
  <2> QED
    BY <1>3, <2>2
<1>5. CASE requests[id].op = "dialog"
  BY <1>5 DEF Serve, Serving, tables
<1>6. CASE requests[id].op = "set"
  <2>1. /\ shown' = [shown EXCEPT ![<<requests[id].extension, requests[id].key>>] = id]
        /\ Complete({id}, "ack") /\ dialog' = dialog
    BY <1>6 DEF Serve
  <2>2. /\ shown'[<<requests[id].extension, requests[id].key>>] = id
        /\ \A x \in Extensions \X Keys : shown'[x] \in {shown[x], id}
    BY <1>1, <1>2, <2>1
  <2> QED
    BY <1>4, <2>1, <2>2 DEF Serving
<1>7. CASE requests[id].op \in {"editor", "notify"}
  <2>1. Complete({id}, "ack") /\ dialog' = dialog /\ shown' = shown
    BY <1>7 DEF Serve
  <2> QED
    BY <1>4, <1>7, <2>1 DEF Serving
<1>8. CASE requests[id].op = "poll"
  <2>1. /\ polls' = IF id \in pending /\ ~Contains(polls, id) THEN Append(polls, id) ELSE polls
        /\ UNCHANGED <<answers, dialog, shown>>
    BY <1>8 DEF Serve, screen
  <2>2. polls \in Seq(Ids)
    BY DEF BrokerInv, TablesType
  <2>3. Members(Append(polls, id)) = Members(polls) \cup {id}
    BY <1>2, <2>2, AppendMembers
  <2>4. Members(polls) \subseteq Members(polls') /\ (id \in pending => id \in Members(polls'))
    BY <2>1, <2>3, Containing
  <2> QED
    BY <1>3, <2>1, <2>4 DEF Serving
<1> QED
  BY <1>1, <1>5, <1>6, <1>7, <1>8 DEF OperationKinds

(* The rest of an increasing sequence is greater than its head.               *)
LEMMA TailIncreases ==
  ASSUME NEW s \in Seq(Ids), s # <<>>, Increasing(s)
  PROVE  /\ Increasing(Tail(s))
         /\ \A n \in Members(Tail(s)) : Head(s) < n
         /\ Members(s) \subseteq {Head(s)} \cup Members(Tail(s))
<1>1. PICK t, h : t = Tail(s) /\ h = Head(s)
  OBVIOUS
<1>2. PICK N \in Nat : N = Len(s)
  OBVIOUS
<1>3. /\ N # 0 /\ Len(t) = N - 1 /\ h = s[1]
      /\ \A i \in 1..(N - 1) : t[i] = s[i + 1]
  BY <1>1, <1>2
<1>4. \A i \in 1..(N - 1) : i + 1 \in 1..N /\ 1 < i + 1 /\ i + 1 - 1 = i
  BY <1>2
<1>5. 1 \in 1..N /\ \A i \in 1..N : i = 1 \/ (i - 1 \in 1..(N - 1) /\ i - 1 + 1 = i)
  BY <1>2, <1>3
<1>6. Increasing(t)
  <2> SUFFICES ASSUME NEW i \in 1..(N - 1), NEW j \in 1..(N - 1), i < j PROVE t[i] < t[j]
    BY <1>3 DEF Increasing
  <2>1. i + 1 < j + 1
    OBVIOUS
  <2> QED
    BY <1>2, <1>3, <1>4, <2>1 DEF Increasing
<1>7. \A n \in Members(t) : h < n
  BY <1>2, <1>3, <1>4, <1>5 DEF Increasing, Members
<1>8. Members(s) \subseteq {h} \cup Members(t)
  <2> SUFFICES ASSUME NEW i \in 1..N PROVE s[i] = h \/ s[i] \in Members(t)
    BY <1>2 DEF Members
  <2>1. CASE i = 1
    BY <1>3, <2>1
  <2>2. CASE i # 1
    <3>1. PICK j \in 1..(N - 1) : j = i - 1 /\ j + 1 = i
      BY <1>5, <2>2
    <3>2. t[j] = s[i]
      BY <1>3, <3>1
    <3> QED
      BY <1>3, <3>1, <3>2 DEF Members
  <2> QED
    BY <2>1, <2>2
<1> QED
  BY <1>1, <1>6, <1>7, <1>8

LEMMA ReceiveScreen ==
  ASSUME BrokerInv, ScreenInv, Receive
  PROVE  ScreenInv'
<1>1. /\ channel \in Seq(Ids) /\ channel # <<>> /\ channel' = Tail(channel)
      /\ UNCHANGED <<requests, caller>>
      /\ Serve(Head(channel))
      /\ Increasing(channel)
  BY DEF Receive, BrokerInv, RestType, ScreenInv
<1>2. PICK h : h = Head(channel)
  OBVIOUS
<1>3. /\ h \in Members(channel)
      /\ Members(channel') \subseteq Members(channel)
      /\ Increasing(channel')
      /\ \A n \in Members(channel') : h < n
      /\ Members(channel) \subseteq {h} \cup Members(channel')
  BY <1>1, <1>2, TailMembers, TailIncreases
<1>4. /\ h \in DOMAIN requests /\ h \in 1..Len(requests) /\ Len(requests) \in Nat
      /\ Members(channel) \subseteq DOMAIN requests
  BY <1>3 DEF BrokerInv, Known, TablesType
<1>5. Serving(h)
  BY <1>1, <1>2, <1>4, ServeServes
<1>6. /\ NewerThanScreen(h)
      /\ \A x \in Extensions \X Keys : shown[x] \in Nat /\ shown[x] < h /\ shown[x] <= Len(requests)
      /\ dialog \in Nat /\ dialog < h
  <2>1. /\ dialog \in Ids \cup {NoId} /\ \A x \in Extensions \X Keys : shown[x] \in Ids \cup {NoId}
    BY DEF BrokerInv, RestType
  <2>2. Ids \cup {NoId} \subseteq Nat
    BY UiBrokerAssumption DEF Ids, NoId
  <2> QED
    BY <1>3, <2>1, <2>2 DEF ScreenInv, NewerThanScreen
<1>7. /\ dialog' \in {dialog, h}
      /\ \A x \in Extensions \X Keys : shown'[x] \in {shown[x], h}
  BY <1>5 DEF Serving
<1>8. \A n : NewerThanScreen(n) /\ h < n => NewerThanScreen(n)'
  BY <1>7 DEF NewerThanScreen
<1>9. \A n \in Members(channel') : NewerThanScreen(n)'
  BY <1>3, <1>8 DEF ScreenInv
<1>10. dialog' <= Len(requests) /\ \A x \in Extensions \X Keys : shown'[x] <= Len(requests)
  BY <1>4, <1>7 DEF ScreenInv
<1>11. (\A c \in Callers : caller[c].at = "sending" =>
          NewerThanScreen(caller[c].id) /\ \A n \in Members(channel) : n < caller[c].id)'
  <2> SUFFICES ASSUME NEW c \in Callers, caller[c].at = "sending"
               PROVE  NewerThanScreen(caller[c].id)' /\ \A n \in Members(channel') : n < caller[c].id
    BY <1>1
  <2>1. PICK n : n = caller[c].id
    OBVIOUS
  <2>2. NewerThanScreen(n) /\ \A m \in Members(channel) : m < n
    BY <2>1 DEF ScreenInv
  <2>3. NewerThanScreen(n)' /\ n = caller'[c].id
    BY <1>1, <1>3, <1>8, <2>1, <2>2
  <2> QED
    BY <1>3, <2>1, <2>2, <2>3 DEF NewerThanScreen
<1>12. WaitersCanBeAnswered'
  <2> SUFFICES ASSUME NEW c \in Callers, caller[c].at = "waiting",
                      answers'[caller[c].id] = "none"
               PROVE  \/ caller[c].id \in Members(channel') \/ dialog' = caller[c].id
                      \/ caller[c].id \in Members(polls')
    BY <1>1, Containing DEF WaitersCanBeAnswered
  <2>1. PICK n \in DOMAIN requests : n = caller[c].id /\ n = Len(requests)
    BY DEF BrokerInv, Known, ScreenInv
  <2>2. answers[n] = "none"
    BY <1>5, <2>1 DEF Serving
  <2>3. n \in Members(channel) \/ dialog = n \/ n \in Members(polls)
    BY <2>1, <2>2, Containing DEF ScreenInv, ScreenIsFaithful, WaitersCanBeAnswered
  <2>4. dialog # n
    BY <1>4, <1>6, <2>1
  <2>5. CASE n \in Members(polls)
    BY <1>5, <2>1, <2>5 DEF Serving
  <2>6. CASE n \in Members(channel)
    BY <1>3, <1>5, <2>1, <2>6 DEF Serving
  <2> QED
    BY <2>1, <2>3, <2>4, <2>5, <2>6
<1>13. AcknowledgedIsShown'
  <2> SUFFICES ASSUME NEW i \in DOMAIN requests, requests[i].op = "set", answers'[i] = "ack"
               PROVE  shown'[<<requests[i].extension, requests[i].key>>] >= i
    BY <1>1 DEF AcknowledgedIsShown
  <2>1. <<requests[i].extension, requests[i].key>> \in Extensions \X Keys
    <3>1. requests[i] \in Request
      BY RequestIds DEF BrokerInv
    <3> QED
      BY <3>1 DEF Request
  <2>2. i \in Nat /\ h \in Nat
    BY <1>4 DEF BrokerInv, TablesType
  <2>3. PICK x \in Extensions \X Keys : x = <<requests[i].extension, requests[i].key>>
    BY <2>1
  <2>4. CASE answers[i] = "ack"
    <3>1. shown[x] >= i
      BY <2>3, <2>4 DEF ScreenInv, ScreenIsFaithful, AcknowledgedIsShown
    <3>2. shown'[x] >= i
      BY <1>6, <1>7, <2>2, <3>1
    <3> QED
      BY <2>3, <3>2
  <2>5. CASE i = h /\ shown'[<<requests[h].extension, requests[h].key>>] = h
    BY <2>2, <2>5
  <2> QED
    BY <1>5, <2>4, <2>5 DEF Serving
<1> QED
  BY <1>1, <1>3, <1>9, <1>10, <1>11, <1>12, <1>13 DEF ScreenInv, ScreenIsFaithful

LEMMA NextScreen == OneCaller /\ BrokerInv /\ ScreenInv /\ [Next]_vars => ScreenInv'
<1> SUFFICES ASSUME OneCaller, BrokerInv, ScreenInv, [Next]_vars PROVE ScreenInv'
  OBVIOUS
<1>1. {"input", "dialog", "cancelled"} \subseteq Answers \ {"none", "ack"}
  BY DEF Answers
<1>2. \A c \in Callers : caller \in [Callers -> [at : {"idle", "sending", "waiting", "expired"},
                                                 id : Ids \cup {NoId}]]
  BY DEF BrokerInv, RestType
<1>3. Idle.at = "idle"
  BY DEF Idle
<1>4. CASE UNCHANGED vars \/ Exit \/ Attach \/ StartScript \/ EndScript
  <2>1. UNCHANGED <<requests, tables, channel, screen, caller>>
    BY <1>4 DEF vars, Exit, Attach, StartScript, EndScript
  <2> QED
    BY <2>1, QuietScreen
<1>5. ASSUME NEW c \in Callers, Answered(c) \/ Expire(c) PROVE ScreenInv'
  <2>1. UNCHANGED <<requests, tables, channel, screen>> /\ caller[c].at = "waiting"
    BY <1>5 DEF Answered, Expire
  <2>2. \A d \in Callers : \/ caller'[d] = caller[d]
                           \/ caller'[d].at = "idle"
                           \/ /\ caller'[d].at = "expired" /\ caller'[d].id = caller[d].id
                              /\ caller[d].at # "idle"
    BY <1>2, <1>3, <1>5, <2>1 DEF Answered, Expire
  <2> QED
    BY <2>1, <2>2, QuietScreen
<1>6. ASSUME NEW c \in Callers, Send(c) PROVE ScreenInv'
  <2>1. caller[c].at = "sending" /\ UNCHANGED <<requests, screen>>
    BY <1>6 DEF Send
  <2>2. CASE /\ channel' = Append(channel, caller[c].id)
             /\ caller' = [caller EXCEPT ![c].at = "waiting"]
             /\ UNCHANGED tables
    BY <2>1, <2>2, SendScreen
  <2>3. CASE /\ Complete({caller[c].id}, "cancelled")
             /\ caller' = [caller EXCEPT ![c] = Idle]
             /\ UNCHANGED channel
    <3>1. \A d \in Callers : caller'[d] = caller[d] \/ caller'[d].at = "idle"
      BY <1>2, <1>3, <2>3
    <3> QED
      BY <1>1, <2>1, <2>3, <3>1, AnsweringScreen DEF screen
  <2> QED
    BY <1>6, <2>2, <2>3 DEF Send
<1>7. ASSUME NEW c \in Callers, CancelExpired(c) PROVE ScreenInv'
  <2>1. /\ Complete({caller[c].id}, "cancelled")
        /\ UNCHANGED <<requests, channel, screen>>
        /\ caller' = [caller EXCEPT ![c] = Idle]
    BY <1>7 DEF CancelExpired
  <2>2. \A d \in Callers : caller'[d] = caller[d] \/ caller'[d].at = "idle"
    BY <1>2, <1>3, <2>1
  <2> QED
    BY <1>1, <2>1, <2>2, AnsweringScreen DEF screen
<1>8. CASE (\E e \in Extensions : Unload(e)) \/ KeyToPoll \/ KeyToDialog
  <2>1. /\ UNCHANGED <<requests, channel, caller, shown>>
        /\ \E ids, answer : /\ answer \in {"input", "dialog", "cancelled"}
                            /\ Complete(ids, answer)
                            /\ dialog' = dialog \/ (dialog' = NoId /\ dialog \in ids)
    BY <1>8 DEF Unload, KeyToPoll, KeyToDialog, screen
  <2> QED
    BY <1>1, <2>1, AnsweringScreen
<1>9. CASE FinishClose \/ Fail
  <2>1. /\ Complete(pending, "cancelled") /\ channel' = <<>>
        /\ UNCHANGED <<requests, caller, screen>>
    BY <1>9 DEF FinishClose, Fail, DropServer
  <2> QED
    BY <1>1, <2>1, AnsweringScreen DEF screen
<1> QED
  BY <1>4, <1>5, <1>6, <1>7, <1>8, <1>9, RegisterScreen, ReceiveScreen DEF Next, Caller

LEMMA InitScreen == Init => ScreenInv
<1> SUFFICES ASSUME Init PROVE ScreenInv
  OBVIOUS
<1>1. /\ Members(channel) = {} /\ Increasing(channel)
      /\ Len(requests) = 0 /\ DOMAIN requests = {}
      /\ dialog = 0 /\ \A x \in Extensions \X Keys : shown[x] = 0
      /\ \A c \in Callers : caller[c].at = "idle"
  BY DEF Init, Members, Increasing, Idle, NoId
<1>2. ScreenIsFaithful
  BY <1>1 DEF ScreenIsFaithful, WaitersCanBeAnswered, AcknowledgedIsShown
<1> QED
  BY <1>1, <1>2 DEF ScreenInv

(* With one caller, which is what the program has, whoever waits can be         *)
(* answered, and what was acknowledged is on the screen or was replaced.      *)
THEOREM ScreenFaithful == ASSUME OneCaller PROVE Spec => []ScreenIsFaithful
<1>1. ScreenInv => ScreenIsFaithful
  BY DEF ScreenInv
<1>2. OneCaller
  OBVIOUS
<1> QED
  BY <1>1, <1>2, InitHolds, NextHolds, InitScreen, NextScreen, PTL DEF Spec
=============================================================================
