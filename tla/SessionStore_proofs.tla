------------------------- MODULE SessionStore_proofs -------------------------
(* Proofs about SessionStore and VirtualFiles, for every value of their        *)
(* constants.                                                                *)
EXTENDS SessionStore, VirtualFiles, SequenceLemmas, SequenceTheorems

-----------------------------------------------------------------------------
(* The inductive invariant                                                   *)

(* What an entry may be, whoever wrote it.                                    *)
Shaped(e) ==
  /\ e.calls # 0 => e.kind = "assistant"
  /\ e.kind = "result" <=> e.of # NoUse

(* `r` is a result of a tool use of `a`.                                      *)
AnswerTo(r, a) == r.of[1] = a.id /\ r.of[2] \in 1..a.calls

(* Entries that make a history whatever was lost: numbered below `top`, none   *)
(* twice, each result after the message it is for and the only one for its use. *)
Sound(entries, top) ==
  /\ \A e \in entries : e.id <= top /\ Shaped(e)
  /\ \A e, d \in entries : e.id = d.id => e = d
  /\ \A r \in entries : r.kind = "result" =>
        \E a \in entries : AnswerTo(r, a) /\ a.id < r.id
  /\ \A r, q \in entries : r.of = q.of /\ r.of # NoUse => r = q

Ascending(s) == \A i, j \in 1..Len(s) : i < j => s[i].id < s[j].id

(* The uses without a result.                                                *)
Unanswered(entries) ==
  {u \in ToolUses : /\ \E a \in entries : u[1] = a.id /\ u[2] \in 1..a.calls
                    /\ \A r \in entries : r.of # u}

(* An assistant message comes after the answers to all earlier uses.          *)
TurnsEnd(entries) ==
  \A a, b \in entries :
      a.kind = "assistant" /\ b.kind = "assistant" /\ a.id < b.id =>
          \A p \in 1..a.calls : \E r \in entries : r.of = <<a.id, p>> /\ r.id < b.id

Alive == phase \in {"repairing", "up"}

(* The file: well-formed as long as every line can be read.                    *)
FileHolds ==
  /\ ~newline => tearing /\ lines # <<>>
  /\ ~tearing => Readable /\ ended \subseteq OnFile
  /\ Readable => Ascending(lines) /\ Sound(OnFile, made)
  /\ ~goals => \A e \in OnFile : e.kind # "goal"
  /\ ~goals /\ Readable => TurnsEnd(OnFile)

(* The memory: what is still to be answered is what todo and pending say.      *)
MemoryHolds ==
  /\ asking => phase = "up" /\ pending = <<>>
  /\ phase # "up" => pending = <<>>
  /\ Alive =>
      /\ Ascending(messages) /\ Sound(Members(messages), made)
      /\ ~goals => TurnsEnd(Members(messages))
      /\ phase = "repairing" => todo # <<>>
      /\ phase = "up" => todo = <<>>
      /\ Distinct(todo) /\ Distinct(pending)
      /\ Unanswered(Members(messages)) = Members(todo) \cup Members(pending)

(* Both: nothing is to be answered that the file has an answer to.            *)
LinkHolds ==
  Alive /\ Readable =>
      /\ Members(messages) \subseteq OnFile
      /\ \A e \in OnFile : e.of \notin Unanswered(Members(messages))
      /\ ~goals => messages = lines

StoreInv == StoreTypeOK /\ FileHolds /\ MemoryHolds /\ LinkHolds

-----------------------------------------------------------------------------
(* Entries and sets of them                                                  *)

LEMMA EntryFields ==
  ASSUME NEW e \in Entry
  PROVE  /\ e.kind \in {"user", "assistant", "result", "goal"}
         /\ e.id \in 1..MaxEntries /\ e.id \in Nat
         /\ e.calls \in 0..MaxCalls /\ e.calls \in Nat
         /\ e.of \in ToolUses \cup {NoUse} /\ e.active \in BOOLEAN
         /\ e # Bad
  BY SessionStoreAssumption DEF Entry, Bad

LEMMA UsePairs ==
  /\ NoUse \notin ToolUses
  /\ \A u \in ToolUses : u = <<u[1], u[2]>> /\ u[1] \in 1..MaxEntries /\ u[2] \in 1..MaxCalls
  BY SessionStoreAssumption DEF NoUse, ToolUses

(* What is ever written.                                                     *)
LEMMA Made ==
  ASSUME made \in Nat, made < MaxEntries
  PROVE  /\ User \in Entry /\ User.kind = "user" /\ User.id = made + 1
         /\ User.calls = 0 /\ User.of = NoUse
         /\ \A n \in 0..MaxCalls :
               /\ Assistant(n) \in Entry /\ Assistant(n).kind = "assistant"
               /\ Assistant(n).id = made + 1 /\ Assistant(n).calls = n /\ Assistant(n).of = NoUse
         /\ \A use \in ToolUses :
               /\ Result(use) \in Entry /\ Result(use).kind = "result"
               /\ Result(use).id = made + 1 /\ Result(use).calls = 0 /\ Result(use).of = use
         /\ \A on \in BOOLEAN :
               /\ Goal(on) \in Entry /\ Goal(on).kind = "goal"
               /\ Goal(on).id = made + 1 /\ Goal(on).calls = 0 /\ Goal(on).of = NoUse
<1>1. made + 1 \in 1..MaxEntries /\ 0 \in 0..MaxCalls
  BY SessionStoreAssumption
<1> QED
  BY <1>1 DEF User, Assistant, Result, Goal, Blank, Entry

LEMMA SoundGrows ==
  ASSUME NEW E \in SUBSET Entry, NEW top \in Nat, Sound(E, top)
  PROVE  Sound(E, top + 1)
<1>1. \A e \in E : e.id \in Nat
  BY EntryFields
<1>2. \A e \in E : e.id <= top + 1
  BY <1>1 DEF Sound
<1> QED
  BY <1>2 DEF Sound

(* One more entry.                                                           *)
LEMMA SoundAdd ==
  ASSUME NEW E \in SUBSET Entry, NEW top \in Nat, Sound(E, top),
         NEW e \in Entry, e.id = top + 1, Shaped(e),
         e.kind = "result" => /\ \E a \in E : AnswerTo(e, a)
                              /\ \A r \in E : r.of # e.of
  PROVE  Sound(E \cup {e}, top + 1)
<1>1. \A d \in E : d.id \in Nat /\ d.id <= top /\ Shaped(d) /\ d.id < e.id /\ d.id <= top + 1
  BY EntryFields DEF Sound
<1>2. \A d \in E \cup {e} : d.id <= top + 1 /\ Shaped(d)
  BY <1>1
<1>3. \A d, f \in E \cup {e} : d.id = f.id => d = f
  <2>1. \A d \in E : d.id # e.id
    BY <1>1
  <2> QED
    BY <2>1 DEF Sound
<1>4. \A r \in E \cup {e} : r.kind = "result" => \E a \in E \cup {e} : AnswerTo(r, a) /\ a.id < r.id
  BY <1>1 DEF Sound
<1>5. \A r, q \in E \cup {e} : r.of = q.of /\ r.of # NoUse => r = q
  <2>1. e.of # NoUse => \A r \in E : r.of # e.of
    BY DEF Shaped
  <2> QED
    BY <2>1 DEF Sound
<1> QED
  BY <1>2, <1>3, <1>4, <1>5 DEF Sound

LEMMA UnansweredAdd ==
  ASSUME NEW E \in SUBSET Entry, NEW top \in Nat, Sound(E, top),
         NEW e \in Entry, e.id = top + 1, Shaped(e)
  PROVE  /\ Unanswered(E \cup {e}) =
              (Unanswered(E) \cup {<<e.id, p>> : p \in 1..e.calls}) \ {e.of}
         /\ \A r \in E : r.of \notin {<<e.id, p>> : p \in 1..e.calls}
<1> DEFINE New == {<<e.id, p>> : p \in 1..e.calls}
<1>1. \A d \in E : d.id \in Nat /\ d.id <= top /\ d.id # e.id
  BY EntryFields DEF Sound
<1>2. ASSUME NEW r \in E
      PROVE  r.of \notin New
  <2>1. CASE r.of = NoUse
    <3>1. e.id # 0
      OBVIOUS
    <3> QED
      BY <2>1, <3>1 DEF NoUse
  <2>2. CASE r.of # NoUse
    <3>1. r.kind = "result"
      BY <2>2 DEF Sound, Shaped
    <3>2. PICK a \in E : AnswerTo(r, a)
      BY <3>1 DEF Sound
    <3>3. r.of[1] # e.id
      BY <1>1, <3>2 DEF AnswerTo
    <3> QED
      BY <3>3
  <2> QED
    BY <2>1, <2>2
<1>3. e.of \notin New
  <2>1. e.calls # 0 => e.of = NoUse
    BY DEF Shaped
  <2>2. e.calls = 0 => New = {}
    OBVIOUS
  <2>3. NoUse \notin New
    BY DEF NoUse
  <2> QED
    BY <2>1, <2>2, <2>3
<1>4. New \subseteq ToolUses
  BY EntryFields, SessionStoreAssumption DEF ToolUses
<1>5. \A u \in ToolUses : u[1] = e.id /\ u[2] \in 1..e.calls <=> u \in New
  BY UsePairs
<1>6. Unanswered(E \cup {e}) \subseteq (Unanswered(E) \cup New) \ {e.of}
  BY <1>5 DEF Unanswered
<1>7. (Unanswered(E) \cup New) \ {e.of} \subseteq Unanswered(E \cup {e})
  <2>1. ASSUME NEW u \in Unanswered(E), u # e.of
        PROVE  u \in Unanswered(E \cup {e})
    BY <2>1 DEF Unanswered
  <2>2. ASSUME NEW u \in New
        PROVE  u \in Unanswered(E \cup {e})
    <3>1. u \in ToolUses /\ u[1] = e.id /\ u[2] \in 1..e.calls
      BY <1>4, <1>5
    <3>2. \A r \in E \cup {e} : r.of # u
      BY <1>2, <1>3
    <3> QED
      BY <3>1, <3>2 DEF Unanswered
  <2> QED
    BY <2>1, <2>2
<1> QED
  BY <1>2, <1>6, <1>7

LEMMA TurnsEndAdd ==
  ASSUME NEW E \in SUBSET Entry, NEW top \in Nat, Sound(E, top), TurnsEnd(E),
         NEW e \in Entry, e.id = top + 1,
         e.kind = "assistant" => Unanswered(E) = {}
  PROVE  TurnsEnd(E \cup {e})
<1>1. \A d \in E : d.id \in Nat /\ d.id <= top /\ d.id < e.id /\ ~(e.id < d.id)
  BY EntryFields DEF Sound
<1>2. ASSUME NEW a \in E, e.kind = "assistant", NEW p \in 1..a.calls
      PROVE  \E r \in E : r.of = <<a.id, p>> /\ r.id < e.id
  <2>1. PICK u : u = <<a.id, p>>
    OBVIOUS
  <2>2. u \in ToolUses /\ u[1] = a.id /\ u[2] = p
    BY <2>1, EntryFields, SessionStoreAssumption DEF ToolUses
  <2>3. ~(\A r \in E : r.of # u)
    BY <1>2, <2>2 DEF Unanswered
  <2> QED
    BY <1>1, <2>1, <2>3
<1>3. ~(e.id < e.id)
  OBVIOUS
<1>4. ASSUME NEW a \in E \cup {e}, NEW b \in E \cup {e}, a.kind = "assistant",
             b.kind = "assistant", a.id < b.id, NEW p \in 1..a.calls
      PROVE  \E r \in E : r.of = <<a.id, p>> /\ r.id < b.id
  <2>1. a \in E
    BY <1>1, <1>3, <1>4
  <2>2. CASE b \in E
    BY <1>4, <2>1, <2>2 DEF TurnsEnd
  <2>3. CASE b = e
    BY <1>2, <1>4, <2>1, <2>3
  <2> QED
    BY <2>2, <2>3
<1> QED
  BY <1>4 DEF TurnsEnd

-----------------------------------------------------------------------------
(* Histories as sequences                                                    *)

LEMMA AscendingAppend ==
  ASSUME NEW s \in Seq(Entry), Ascending(s), NEW e \in Entry,
         \A d \in Members(s) : d.id < e.id
  PROVE  Ascending(Append(s, e))
<1>1. PICK N \in Nat : N = Len(s)
  OBVIOUS
<1>2. PICK g : g = Append(s, e)
  OBVIOUS
<1>3. Len(g) = N + 1 /\ g[N + 1] = e /\ \A i \in 1..N : g[i] = s[i] /\ s[i] \in Members(s)
  BY <1>1, <1>2 DEF Members
<1>4. ASSUME NEW i \in 1..(N + 1), NEW j \in 1..(N + 1), i < j
      PROVE  i \in 1..N /\ (j \in 1..N \/ j = N + 1)
  BY <1>4
<1>5. \A i, j \in 1..(N + 1) : i < j => g[i].id < g[j].id
  BY <1>1, <1>3, <1>4 DEF Ascending
<1> QED
  BY <1>2, <1>3, <1>5 DEF Ascending

LEMMA AscendingWithout ==
  ASSUME NEW s \in Seq(Entry), Ascending(s), NEW out
  PROVE  Ascending(Without(s, out))
<1>1. PICK w \in Seq(Entry) : w = Without(s, out)
  BY WithoutEmbeds
<1>2. PICK at \in [1..Len(w) -> 1..Len(s)] :
         /\ \A i \in 1..Len(w) : w[i] = s[at[i]]
         /\ \A i, j \in 1..Len(w) : i < j => at[i] < at[j]
  BY <1>1, WithoutEmbeds
<1>3. \A i, j \in 1..Len(w) : i < j => w[i].id < w[j].id
  BY <1>2 DEF Ascending
<1> QED
  BY <1>1, <1>3 DEF Ascending

(* In a history of ascending numbers the places are told by the numbers.        *)
LEMMA PlacesByNumber ==
  ASSUME NEW s \in Seq(Entry), Ascending(s), NEW i \in 1..Len(s), NEW j \in 1..Len(s)
  PROVE  /\ s[i].id < s[j].id <=> i < j
         /\ s[i].id = s[j].id <=> i = j
<1>1. s[i].id \in Nat /\ s[j].id \in Nat /\ i \in Nat /\ j \in Nat
  BY EntryFields
<1>2. i < j => s[i].id < s[j].id
  BY DEF Ascending
<1>3. j < i => s[j].id < s[i].id
  BY DEF Ascending
<1> QED
  BY <1>1, <1>2, <1>3

(* The tool uses of a history, each once.                                     *)
LEMMA UsesListed ==
  ASSUME NEW s \in Seq(Entry)
  PROVE  /\ Uses(s) \in Seq(ToolUses)
         /\ \A u \in ToolUses : u \in Members(Uses(s)) <=>
               \E a \in Members(s) : u[1] = a.id /\ u[2] \in 1..a.calls
         /\ Ascending(s) => Distinct(Uses(s))
<1>1. PICK L \in Nat : L = Len(s)
  OBVIOUS
<1>2. PICK parts : parts = [i \in 1..L |-> UsesOf(s[i])]
  OBVIOUS
<1>3. ASSUME NEW i \in 1..L
      PROVE  /\ parts[i] \in Seq(ToolUses)
             /\ Members(parts[i]) = {<<s[i].id, p>> : p \in 1..s[i].calls}
             /\ Distinct(parts[i])
  <2>1. PICK id \in 1..MaxEntries, calls \in 0..MaxCalls : id = s[i].id /\ calls = s[i].calls
    BY <1>1, EntryFields
  <2>2. PICK t : t = [p \in 1..calls |-> <<id, p>>]
    OBVIOUS
  <2>3. parts[i] = t
    BY <1>2, <2>1, <2>2 DEF UsesOf
  <2>4. \A p \in 1..calls : <<id, p>> \in ToolUses
    BY SessionStoreAssumption DEF ToolUses
  <2>5. calls \in Nat
    BY SessionStoreAssumption
  <2>6. t \in Seq(ToolUses) /\ Len(t) = calls /\ \A p \in 1..calls : t[p] = <<id, p>>
    BY <2>2, <2>4, <2>5
  <2>7. Members(t) = {<<id, p>> : p \in 1..calls}
    BY <2>6 DEF Members
  <2>8. Distinct(t)
    BY <2>6 DEF Distinct
  <2> QED
    BY <2>1, <2>3, <2>6, <2>7, <2>8
<1>4. parts \in Seq(Seq(ToolUses)) /\ Len(parts) = L
  BY <1>1, <1>2, <1>3
<1>5. Uses(s) = Joined(parts)
  BY <1>1, <1>2 DEF Uses
<1>6. Members(Joined(parts)) = UNION {Members(parts[i]) : i \in 1..L}
  BY <1>4, JoinedHas
<1>7. ASSUME NEW u \in ToolUses
      PROVE  u \in Members(Uses(s)) <=> \E a \in Members(s) : u[1] = a.id /\ u[2] \in 1..a.calls
  <2>1. u = <<u[1], u[2]>>
    BY UsePairs
  <2>2. \A i \in 1..L : u \in Members(parts[i]) <=> u[1] = s[i].id /\ u[2] \in 1..s[i].calls
    BY <1>3, <2>1
  <2>3. u \in Members(Uses(s)) <=> \E i \in 1..L : u \in Members(parts[i])
    BY <1>5, <1>6
  <2> QED
    BY <1>1, <2>2, <2>3 DEF Members
<1>8. ASSUME Ascending(s)
      PROVE  Distinct(Uses(s))
  <2>1. ASSUME NEW i \in 1..L, NEW j \in 1..L, i # j
        PROVE  Members(parts[i]) \cap Members(parts[j]) = {}
    <3>1. s[i].id # s[j].id
      BY <1>1, <1>8, <2>1, PlacesByNumber
    <3>2. \A u \in Members(parts[i]) : u[1] = s[i].id
      BY <1>3
    <3>3. \A u \in Members(parts[j]) : u[1] = s[j].id
      BY <1>3
    <3> QED
      BY <3>1, <3>2, <3>3
  <2> QED
    BY <1>3, <1>4, <1>5, <2>1, JoinedHas
<1> QED
  BY <1>4, <1>5, <1>7, <1>8, JoinedHas

(* Dangling lists the unanswered uses, each once.                             *)
LEMMA DanglingListed ==
  ASSUME NEW s \in Seq(Entry), Ascending(s), \A e \in Members(s) : Shaped(e)
  PROVE  /\ Dangling(s) \in Seq(ToolUses)
         /\ Members(Dangling(s)) = Unanswered(Members(s))
         /\ Distinct(Dangling(s))
<1>1. PICK uses \in Seq(ToolUses) : uses = Uses(s)
  BY UsesListed
<1>2. /\ Without(uses, Answered(s)) \in Seq(ToolUses)
      /\ Members(Without(uses, Answered(s))) = Members(uses) \ Answered(s)
      /\ Distinct(uses) => Distinct(Without(uses, Answered(s)))
  BY WithoutKeeps
<1>3. Distinct(uses)
  BY <1>1, UsesListed
<1>4. Members(uses) \subseteq ToolUses
  BY DEF Members
<1>5. ASSUME NEW u \in ToolUses
      PROVE  u \in Answered(s) <=> \E r \in Members(s) : r.of = u
  <2>1. u # NoUse
    BY UsePairs
  <2>2. \A r \in Members(s) : r.of = u => r.kind = "result"
    BY <2>1 DEF Shaped
  <2> QED
    BY <2>2 DEF Answered, Members
<1>6. Members(uses) \ Answered(s) = Unanswered(Members(s))
  BY <1>1, <1>4, <1>5, UsesListed DEF Unanswered
<1> QED
  BY <1>1, <1>2, <1>3, <1>6 DEF Dangling

(* What open keeps of a sound file is sound.                                  *)
LEMMA LoadedHolds ==
  ASSUME NEW s \in Seq(Entry), NEW top \in Nat, Ascending(s), Sound(Members(s), top)
  PROVE  /\ Loaded(s) \in Seq(Entry)
         /\ Members(Loaded(s)) \subseteq Members(s)
         /\ Ascending(Loaded(s)) /\ Sound(Members(Loaded(s)), top)
         /\ \A e \in Members(s) : e.of \notin Unanswered(Members(Loaded(s)))
         /\ (\A e \in Members(s) : e.kind # "goal") => Loaded(s) = s
<1> DEFINE E == Members(s)
           K == E \ Hidden(s)
<1>1. Loaded(s) \in Seq(Entry) /\ Members(Loaded(s)) = K /\ Ascending(Loaded(s))
  BY WithoutKeeps, AscendingWithout DEF Loaded
<1>2. E \subseteq Entry
  BY DEF Members
<1>3. \A e \in E : e \in Hidden(s) <=>
                      e.kind = "goal" \/ (GoalActive(s) /\ (e.kind = "result" \/ e.calls # 0))
  BY DEF Hidden, Members
<1>4. \A e \in E : e.calls \in Nat
  BY <1>2, EntryFields
<1>5. ASSUME NEW r \in K, r.kind = "result", NEW a \in E, AnswerTo(r, a)
      PROVE  a \in K
  <2>1. ~GoalActive(s)
    BY <1>3, <1>5
  <2>2. a.calls # 0
    BY <1>4, <1>5 DEF AnswerTo
  <2>3. a.kind = "assistant"
    BY <2>2 DEF Sound, Shaped
  <2> QED
    BY <1>3, <2>1, <2>3
<1>6. Sound(K, top)
  <2>1. \A r \in K : r.kind = "result" => \E a \in K : AnswerTo(r, a) /\ a.id < r.id
    BY <1>5 DEF Sound
  <2> QED
    BY <2>1 DEF Sound
<1>7. ASSUME NEW e \in E, e.of \in Unanswered(K)
      PROVE  FALSE
  <2>1. PICK a \in K : e.of[1] = a.id /\ e.of[2] \in 1..a.calls
    BY <1>7 DEF Unanswered
  <2>2. e.of # NoUse /\ e \notin K
    BY <1>7, UsePairs DEF Unanswered
  <2>3. e.kind = "result"
    BY <2>2 DEF Sound, Shaped
  <2>4. a.calls # 0
    BY <1>4, <2>1
  <2> QED
    BY <1>3, <2>1, <2>2, <2>3, <2>4 DEF Sound, Shaped
<1>8. ASSUME \A e \in E : e.kind # "goal"
      PROVE  Loaded(s) = s
  <2>1. ~GoalActive(s)
    BY <1>8 DEF GoalActive, Members
  <2>2. E \cap Hidden(s) = {}
    BY <1>3, <1>8, <2>1
  <2> QED
    BY <2>2, WithoutNone DEF Loaded
<1> QED
  BY <1>1, <1>6, <1>7, <1>8

-----------------------------------------------------------------------------
(* The file                                                                  *)

LEMMA FileOf ==
  /\ OnFile = Members(lines)
  /\ Readable <=> Bad \notin OnFile
  /\ lines \in Seq(Entry \cup {Bad}) /\ Readable => lines \in Seq(Entry) /\ OnFile \subseteq Entry
<1>1. OnFile = Members(lines) /\ (Readable <=> Bad \notin OnFile)
  BY DEF OnFile, Readable, Members
<1>2. ASSUME lines \in Seq(Entry \cup {Bad}), Readable
      PROVE  lines \in Seq(Entry) /\ OnFile \subseteq Entry
  <2>1. PICK N \in Nat : N = Len(lines)
    BY <1>2
  <2>2. \A i \in 1..N : lines[i] \in Entry
    BY <1>2, <2>1 DEF Readable
  <2>3. lines = [i \in 1..N |-> lines[i]]
    BY <1>2, <2>1
  <2>4. lines \in Seq(Entry)
    BY <2>2, <2>3
  <2> QED
    BY <2>1, <2>2, <2>4 DEF OnFile
<1> QED
  BY <1>1, <1>2

(* The last line spoilt.                                                     *)
LEMMA Spoilt ==
  ASSUME NEW s \in Seq(Entry \cup {Bad}), s # <<>>
  PROVE  LET t == [s EXCEPT ![Len(s)] = Bad]
         IN  /\ t \in Seq(Entry \cup {Bad}) /\ t # <<>>
             /\ Bad \in Members(t) /\ Members(t) \subseteq Members(s) \cup {Bad}
<1>1. PICK N \in Nat : N = Len(s) /\ N # 0
  <2>1. Len(s) \in Nat /\ Len(s) # 0
    OBVIOUS
  <2> QED
    BY <2>1
<1>2. PICK t : t = [s EXCEPT ![N] = Bad]
  OBVIOUS
<1>3. t = [i \in 1..N |-> IF i = N THEN Bad ELSE s[i]] /\ N \in 1..N
  <2>1. DOMAIN s = 1..N /\ N \in 1..N
    BY <1>1
  <2> QED
    BY <1>2, <2>1
<1>4. t \in Seq(Entry \cup {Bad}) /\ Len(t) = N
  <2>1. \A i \in 1..N : (IF i = N THEN Bad ELSE s[i]) \in Entry \cup {Bad}
    BY <1>1
  <2> QED
    BY <1>3, <2>1
<1>5. t[N] = Bad /\ \A i \in 1..N : t[i] = Bad \/ t[i] = s[i]
  BY <1>3
<1>6. Bad \in Members(t) /\ Members(t) \subseteq Members(s) \cup {Bad}
  BY <1>1, <1>3, <1>4, <1>5 DEF Members
<1>7. t # <<>>
  BY <1>1, <1>4
<1> QED
  BY <1>1, <1>2, <1>4, <1>6, <1>7

(* What may be written: an entry of its own number; a result of a message that *)
(* is there, the first for its use; an assistant message after all results.    *)
Fits(e) ==
  /\ e \in Entry /\ e.id = made + 1 /\ Shaped(e)
  /\ e.kind = "goal" => goals
  /\ Readable => /\ e.kind = "result" => /\ \E a \in OnFile : AnswerTo(e, a)
                                         /\ \A r \in OnFile : r.of # e.of
                 /\ ~goals /\ e.kind = "assistant" => Unanswered(OnFile) = {}

(* A write leaves the file as it was, with one entry more, or unreadable for    *)
(* good.                                                                     *)
LEMMA WriteCases ==
  ASSUME StoreTypeOK, FileHolds, NEW e \in Entry, NEW outcome \in Outcomes, WriteLine(e, outcome)
  PROVE  /\ made \in Nat /\ made < MaxEntries /\ made' = made + 1 /\ made' \in 0..MaxEntries
         /\ lines' \in Seq(Entry \cup {Bad}) /\ newline' \in BOOLEAN
         /\ \/ outcome # "written" /\ lines' = lines /\ newline' = newline
            \/ /\ lines' = Append(lines, e) /\ OnFile' = OnFile \cup {e} /\ newline
               /\ lines' # <<>> /\ (newline' \/ tearing)
            \/ /\ ~Readable' /\ tearing /\ lines' # <<>>
               /\ OnFile' \subseteq OnFile \cup {Bad}
<1>1. /\ made \in Nat /\ made < MaxEntries /\ made' = made + 1 /\ made' \in 0..MaxEntries
      /\ lines \in Seq(Entry \cup {Bad}) /\ newline \in BOOLEAN
  BY SessionStoreAssumption DEF WriteLine, StoreTypeOK
<1>2. \A s \in Seq(Entry \cup {Bad}) : lines' = s =>
         /\ lines' \in Seq(Entry \cup {Bad})
         /\ OnFile' = Members(s)
         /\ Bad \in Members(s) => ~Readable'
  BY DEF OnFile, Readable, Members
<1>3. CASE outcome = "nothing"
  BY <1>1, <1>3 DEF WriteLine
<1>4. CASE outcome # "nothing" /\ newline /\ outcome # "part"
  <2>1. lines' = Append(lines, e) /\ newline' = (outcome = "written")
    BY <1>4 DEF WriteLine
  <2>2. newline' \/ tearing
    BY <1>4, <2>1 DEF Outcomes
  <2>3. PICK s : s = Append(lines, e)
    OBVIOUS
  <2>4. s \in Seq(Entry \cup {Bad})
    BY <1>1, <2>3
  <2>5. s # <<>> /\ Members(s) = Members(lines) \cup {e}
    BY <1>1, <2>3, MembersOfAppend
  <2>6. OnFile' = OnFile \cup {e}
    BY <1>2, <2>1, <2>3, <2>4, <2>5, FileOf
  <2> QED
    BY <1>1, <1>2, <1>4, <2>1, <2>2, <2>3, <2>4, <2>5, <2>6
<1>5. CASE outcome = "part" /\ newline
  <2>1. lines' = Append(lines, Bad) /\ newline' \in BOOLEAN
    BY <1>5 DEF WriteLine
  <2>2. tearing
    BY <1>5 DEF Outcomes
  <2>3. PICK s : s = Append(lines, Bad)
    OBVIOUS
  <2>4. s \in Seq(Entry \cup {Bad})
    BY <1>1, <2>3
  <2>5. s # <<>> /\ Members(s) = Members(lines) \cup {Bad}
    BY <1>1, <2>3, MembersOfAppend
  <2>6. OnFile' \subseteq OnFile \cup {Bad} /\ ~Readable'
    BY <1>2, <2>1, <2>3, <2>4, <2>5, FileOf
  <2> QED
    BY <1>1, <1>2, <2>1, <2>2, <2>3, <2>4, <2>5, <2>6
<1>6. CASE outcome # "nothing" /\ ~newline
  <2>1. lines' = [lines EXCEPT ![Len(lines)] = Bad] /\ newline' \in BOOLEAN
    BY <1>6 DEF WriteLine
  <2>2. tearing /\ lines # <<>>
    BY <1>6 DEF FileHolds
  <2>3. PICK s : s = [lines EXCEPT ![Len(lines)] = Bad]
    OBVIOUS
  <2>4. /\ s \in Seq(Entry \cup {Bad}) /\ s # <<>>
        /\ Bad \in Members(s) /\ Members(s) \subseteq Members(lines) \cup {Bad}
    BY <1>1, <2>2, <2>3, Spoilt
  <2>5. OnFile' \subseteq OnFile \cup {Bad} /\ ~Readable'
    BY <1>2, <2>1, <2>3, <2>4, FileOf
  <2> QED
    BY <1>1, <1>2, <2>1, <2>2, <2>3, <2>4, <2>5
<1> QED
  BY <1>3, <1>4, <1>5, <1>6

LEMMA FileWritten ==
  ASSUME StoreTypeOK, FileHolds, NEW e, Fits(e), NEW outcome \in Outcomes, WriteLine(e, outcome),
         goals' = goals, tearing' = tearing,
         ended' = ended \/ (ended' = ended \cup {e} /\ outcome = "written")
  PROVE  FileHolds'
<1>1. e \in Entry /\ e.id = made + 1 /\ Shaped(e) /\ (e.kind = "goal" => goals) /\ e # Bad
  BY EntryFields DEF Fits
<1>2. /\ made \in Nat /\ made' = made + 1
      /\ \/ outcome # "written" /\ lines' = lines /\ newline' = newline
         \/ /\ lines' = Append(lines, e) /\ OnFile' = OnFile \cup {e} /\ newline
            /\ lines' # <<>> /\ (newline' \/ tearing)
         \/ /\ ~Readable' /\ tearing /\ lines' # <<>>
            /\ OnFile' \subseteq OnFile \cup {Bad}
  BY <1>1, WriteCases
<1>3. CASE outcome # "written" /\ lines' = lines /\ newline' = newline
  <2>1. Readable' = Readable /\ OnFile' = OnFile /\ ended' = ended
    BY <1>3 DEF Readable, OnFile
  <2>2. Readable => OnFile \subseteq Entry
    BY FileOf DEF StoreTypeOK
  <2>3. Readable => Sound(OnFile, made')
    BY <1>2, <2>2, SoundGrows DEF FileHolds
  <2>4. Ascending(lines)' = Ascending(lines)
    BY <1>3 DEF Ascending
  <2> QED
    BY <1>3, <2>1, <2>3, <2>4 DEF FileHolds
<1>4. CASE /\ lines' = Append(lines, e) /\ OnFile' = OnFile \cup {e} /\ newline
           /\ lines' # <<>> /\ (newline' \/ tearing)
  <2>1. Readable' = Readable
    <3>1. Readable' <=> Bad \notin OnFile'
      BY DEF Readable, OnFile
    <3>2. Readable <=> Bad \notin OnFile
      BY FileOf
    <3>3. Bad \in OnFile' <=> Bad \in OnFile
      BY <1>1, <1>4
    <3> QED
      BY <3>1, <3>2, <3>3 DEF Readable
  <2>2. ended' \subseteq OnFile' <=> ended' \subseteq OnFile \cup {e}
    BY <1>4
  <2>3. ~tearing => Readable /\ ended' \subseteq OnFile \cup {e}
    BY DEF FileHolds
  <2>4. ~goals => \A d \in OnFile \cup {e} : d.kind # "goal"
    BY <1>1 DEF FileHolds
  <2>5. ASSUME Readable
        PROVE  /\ Ascending(Append(lines, e)) /\ Sound(OnFile \cup {e}, made + 1)
               /\ ~goals => TurnsEnd(OnFile \cup {e})
    <3>1. lines \in Seq(Entry) /\ OnFile \subseteq Entry /\ OnFile = Members(lines)
      BY <2>5, FileOf DEF StoreTypeOK
    <3>2. Ascending(lines) /\ Sound(OnFile, made) /\ (~goals => TurnsEnd(OnFile))
      BY <2>5 DEF FileHolds
    <3>3. \A d \in OnFile : d.id < e.id
      BY <1>1, <1>2, <3>1, <3>2, EntryFields DEF Sound
    <3>4. Ascending(Append(lines, e))
      BY <1>1, <3>1, <3>2, <3>3, AscendingAppend
    <3>5. Sound(OnFile \cup {e}, made + 1)
      BY <1>1, <1>2, <2>5, <3>1, <3>2, SoundAdd DEF Fits
    <3>6. ~goals => TurnsEnd(OnFile \cup {e})
      BY <1>1, <1>2, <2>5, <3>1, <3>2, TurnsEndAdd DEF Fits
    <3> QED
      BY <3>4, <3>5, <3>6
  <2>6. PICK g : g = lines'
    OBVIOUS
  <2>7. Ascending(lines)' = Ascending(g)
    BY <2>6 DEF Ascending
  <2> QED
    BY <1>2, <1>4, <2>1, <2>2, <2>3, <2>4, <2>5, <2>6, <2>7 DEF FileHolds
<1>5. CASE ~Readable' /\ tearing /\ lines' # <<>> /\ OnFile' \subseteq OnFile \cup {Bad}
  <2>1. ~goals => \A d \in OnFile' : d.kind # "goal"
    BY <1>5 DEF FileHolds, Bad
  <2> QED
    BY <1>5, <2>1 DEF FileHolds
<1> QED
  BY <1>2, <1>3, <1>4, <1>5

-----------------------------------------------------------------------------
(* The memory                                                                *)

(* What a running process may append to its history.                          *)
Continues(e) ==
  /\ e \in Entry /\ e.id = made + 1 /\ Shaped(e) /\ e.kind # "goal"
  /\ e.kind = "result" => e.of \in Unanswered(Members(messages))
  /\ e.kind = "assistant" => Unanswered(Members(messages)) = {}

LEMMA MemoryAppend ==
  ASSUME StoreInv, Alive, NEW e, Continues(e)
  PROVE  LET m == Append(messages, e)
         IN  /\ m \in Seq(Entry) /\ Members(m) = Members(messages) \cup {e}
             /\ Ascending(m) /\ Sound(Members(m), made + 1)
             /\ ~goals => TurnsEnd(Members(m))
             /\ Unanswered(Members(m)) =
                  (Unanswered(Members(messages)) \cup {<<e.id, p>> : p \in 1..e.calls}) \ {e.of}
<1> DEFINE M == Members(messages)
<1>1. messages \in Seq(Entry) /\ made \in Nat
  BY SessionStoreAssumption DEF StoreInv, StoreTypeOK
<1>2. M \subseteq Entry
  BY <1>1 DEF Members
<1>3. Ascending(messages) /\ Sound(M, made) /\ (~goals => TurnsEnd(M))
  BY DEF StoreInv, MemoryHolds
<1>4. e \in Entry /\ e.id = made + 1 /\ Shaped(e)
  BY DEF Continues
<1>5. PICK m : m = Append(messages, e)
  OBVIOUS
<1>6. m \in Seq(Entry) /\ Members(m) = M \cup {e}
  BY <1>1, <1>4, <1>5, MembersOfAppend
<1>7. Ascending(m)
  <2>1. \A d \in M : d.id < e.id
    BY <1>1, <1>2, <1>3, <1>4, EntryFields DEF Sound
  <2> QED
    BY <1>1, <1>3, <1>4, <1>5, <2>1, AscendingAppend
<1>8. Sound(M \cup {e}, made + 1)
  <2>1. ASSUME e.kind = "result"
        PROVE  /\ \E a \in M : AnswerTo(e, a)
               /\ \A r \in M : r.of # e.of
    BY <2>1 DEF Continues, Unanswered, AnswerTo
  <2> QED
    BY <1>1, <1>2, <1>3, <1>4, <2>1, SoundAdd
<1>9. ~goals => TurnsEnd(M \cup {e})
  BY <1>1, <1>2, <1>3, <1>4, TurnsEndAdd DEF Continues
<1>10. Unanswered(M \cup {e}) =
          (Unanswered(M) \cup {<<e.id, p>> : p \in 1..e.calls}) \ {e.of}
  BY <1>1, <1>2, <1>3, <1>4, UnansweredAdd
<1> QED
  BY <1>5, <1>6, <1>7, <1>8, <1>9, <1>10

(* It may be written to the file.                                             *)
LEMMA ContinuesFits ==
  ASSUME StoreInv, Alive, NEW e, Continues(e)
  PROVE  Fits(e)
<1>1. ASSUME Readable, e.kind = "result"
      PROVE  /\ \E a \in OnFile : AnswerTo(e, a)
             /\ \A r \in OnFile : r.of # e.of
  BY <1>1 DEF StoreInv, LinkHolds, Continues, Unanswered, AnswerTo
<1>2. ASSUME Readable, ~goals, e.kind = "assistant"
      PROVE  Unanswered(OnFile) = {}
  BY <1>2, FileOf DEF StoreInv, LinkHolds, Continues
<1> QED
  BY <1>1, <1>2 DEF Continues, Fits

(* Written and remembered.                                                   *)
LEMMA LinkAppend ==
  ASSUME StoreInv, Alive, NEW e, Continues(e), WriteLine(e, "written"),
         messages' = Append(messages, e), goals' = goals
  PROVE  LinkHolds'
<1> SUFFICES ASSUME Readable' PROVE LinkHolds'
  BY DEF LinkHolds
<1>1. e \in Entry /\ e.id = made + 1 /\ Shaped(e) /\ StoreTypeOK /\ FileHolds /\ "written" \in Outcomes
  BY DEF Continues, StoreInv, Outcomes
<1>2. lines' = Append(lines, e) /\ OnFile' = OnFile \cup {e}
  BY <1>1, WriteCases
<1>3. Readable
  <2>1. Readable' <=> Bad \notin OnFile'
    BY DEF Readable, OnFile
  <2> QED
    BY <1>2, <2>1, FileOf
<1>4. /\ Members(messages) \subseteq OnFile
      /\ \A d \in OnFile : d.of \notin Unanswered(Members(messages))
      /\ ~goals => messages = lines
  BY <1>3 DEF StoreInv, LinkHolds
<1>5. PICK m : m = Append(messages, e)
  OBVIOUS
<1>6. /\ Members(m) = Members(messages) \cup {e}
      /\ Unanswered(Members(m)) =
           (Unanswered(Members(messages)) \cup {<<e.id, p>> : p \in 1..e.calls}) \ {e.of}
  BY <1>5, MemoryAppend
<1>7. \A d \in OnFile : d.of \notin {<<e.id, p>> : p \in 1..e.calls}
  <2>1. OnFile \subseteq Entry /\ Sound(OnFile, made) /\ made \in Nat
    BY <1>1, <1>3, FileOf, SessionStoreAssumption DEF StoreTypeOK, FileHolds
  <2> QED
    BY <1>1, <2>1, UnansweredAdd
<1>8. \A d \in OnFile \cup {e} : d.of \notin Unanswered(Members(m))
  BY <1>4, <1>6, <1>7
<1>9. messages' = m
  BY <1>5
<1>10. Members(messages)' = Members(m)
  BY <1>9 DEF Members
<1>11. Unanswered(Members(messages))' = Unanswered(Members(m))
  BY <1>10 DEF Unanswered
<1> QED
  BY <1>2, <1>4, <1>5, <1>6, <1>8, <1>9, <1>10, <1>11 DEF LinkHolds

-----------------------------------------------------------------------------
(* The steps                                                                 *)

(* Nobody is there to remember anything.                                      *)
LEMMA DeadHolds ==
  ASSUME phase' \in {"down", "fatal", "unusable"}, ~asking', pending' = <<>>
  PROVE  MemoryHolds' /\ LinkHolds'
<1>1. ~Alive'
  BY DEF Alive
<1> QED
  BY <1>1 DEF MemoryHolds, LinkHolds

(* What follows of the memory when the history goes on.                       *)
LEMMA MemoryGoesOn ==
  ASSUME StoreInv, Alive, NEW e, Continues(e), messages' = Append(messages, e),
         made' = made + 1, goals' = goals,
         phase' = "repairing" => todo' # <<>>,
         phase' # "up" => pending' = <<>>,
         phase' = "up" => todo' = <<>>,
         asking' => phase' = "up" /\ pending' = <<>>,
         Distinct(todo'), Distinct(pending'),
         Members(todo') \cup Members(pending') =
            (Unanswered(Members(messages)) \cup {<<e.id, p>> : p \in 1..e.calls}) \ {e.of}
  PROVE  MemoryHolds'
<1>1. PICK m : m = Append(messages, e)
  OBVIOUS
<1>2. /\ m \in Seq(Entry) /\ Ascending(m) /\ Sound(Members(m), made + 1)
      /\ ~goals => TurnsEnd(Members(m))
      /\ Unanswered(Members(m)) =
           (Unanswered(Members(messages)) \cup {<<e.id, p>> : p \in 1..e.calls}) \ {e.of}
  BY <1>1, MemoryAppend
<1>3. messages' = m
  BY <1>1
<1>4. PICK t, q : t = todo' /\ q = pending'
  OBVIOUS
<1>5. /\ Members(messages)' = Members(m) /\ Ascending(messages)' = Ascending(m)
      /\ Members(todo)' = Members(t) /\ Distinct(todo)' = Distinct(t)
      /\ Members(pending)' = Members(q) /\ Distinct(pending)' = Distinct(q)
  BY <1>3, <1>4 DEF Members, Ascending, Distinct
<1>6. Unanswered(Members(messages))' = Unanswered(Members(m))
  BY <1>5 DEF Unanswered
<1>7. /\ Sound(Members(messages), made)' <=> Sound(Members(m), made + 1)
      /\ TurnsEnd(Members(messages))' <=> TurnsEnd(Members(m))
  BY <1>5 DEF Sound, TurnsEnd
<1>8. Distinct(t) /\ Distinct(q) /\ Unanswered(Members(m)) = Members(t) \cup Members(q)
  BY <1>2, <1>4
<1> QED
  BY <1>2, <1>5, <1>6, <1>7, <1>8 DEF MemoryHolds

LEMMA OutcomeOf ==
  /\ "written" \in Outcomes /\ "nothing" \in Outcomes
  /\ \A outcome \in Outcomes : outcome # "written" => outcome \in {"nothing", "part", "noNewline"}
  BY DEF Outcomes

(* append_message of a message that continues the history.                    *)
LEMMA Appends ==
  ASSUME StoreInv, phase = "up", NEW e, Continues(e),
         NEW uses \in Seq(ToolUses), Distinct(uses),
         NEW asks \in BOOLEAN, asks => uses = <<>>,
         Members(uses) =
            (Unanswered(Members(messages)) \cup {<<e.id, p>> : p \in 1..e.calls}) \ {e.of},
         AppendMessage(e, uses, asks), goals' = goals, tearing' = tearing
  PROVE  StoreInv'
<1>1. StoreTypeOK /\ FileHolds /\ Alive /\ e \in Entry /\ Fits(e)
  BY ContinuesFits DEF StoreInv, Alive, Continues
<1>2. PICK outcome \in Outcomes :
        /\ WriteLine(e, outcome)
        /\ \/ Dead /\ UNCHANGED ended
           \/ /\ outcome = "written"
              /\ messages' = Append(messages, e)
              /\ ended' = ended \cup {e}
              /\ pending' = uses /\ asking' = asks
              /\ UNCHANGED <<phase, todo>>
           \/ /\ outcome # "written"
              /\ phase' = "fatal" /\ pending' = <<>> /\ asking' = FALSE
              /\ UNCHANGED <<messages, todo, ended>>
  BY DEF AppendMessage
<1>3. /\ made' = made + 1 /\ made' \in 0..MaxEntries
      /\ lines' \in Seq(Entry \cup {Bad}) /\ newline' \in BOOLEAN
  BY <1>1, <1>2, WriteCases
<1>4. FileHolds'
  <2>1. ended' = ended \/ (ended' = ended \cup {e} /\ outcome = "written")
    BY <1>2
  <2> QED
    BY <1>1, <1>2, <2>1, FileWritten
<1>5. StoreTypeOK /\ goals' \in BOOLEAN /\ tearing' \in BOOLEAN
  BY <1>1 DEF StoreTypeOK
<1>6. CASE Dead /\ UNCHANGED ended
  <2>1. MemoryHolds' /\ LinkHolds'
    BY <1>6, DeadHolds DEF Dead
  <2>2. StoreTypeOK'
    <3>1. <<>> \in Seq(Entry) /\ <<>> \in Seq(ToolUses)
      OBVIOUS
    <3> QED
      BY <1>3, <1>5, <1>6, <3>1 DEF Dead, StoreTypeOK, Phases
  <2> QED
    BY <1>4, <2>1, <2>2 DEF StoreInv
<1>7. CASE /\ outcome # "written"
           /\ phase' = "fatal" /\ pending' = <<>> /\ asking' = FALSE
           /\ UNCHANGED <<messages, todo, ended>>
  <2>1. MemoryHolds' /\ LinkHolds'
    BY <1>7, DeadHolds
  <2>2. StoreTypeOK'
    <3>1. <<>> \in Seq(ToolUses)
      OBVIOUS
    <3> QED
      BY <1>3, <1>5, <1>7, <3>1 DEF StoreTypeOK, Phases
  <2> QED
    BY <1>4, <2>1, <2>2 DEF StoreInv
<1>8. CASE /\ outcome = "written"
           /\ messages' = Append(messages, e)
           /\ ended' = ended \cup {e}
           /\ pending' = uses /\ asking' = asks
           /\ UNCHANGED <<phase, todo>>
  <2>1. LinkHolds'
    BY <1>1, <1>2, <1>8, LinkAppend
  <2>2. todo = <<>> /\ Members(<<>>) = {} /\ Distinct(<<>>)
    BY DEF StoreInv, MemoryHolds, Alive, Members, Distinct
  <2>3. MemoryHolds'
    <3>1. PICK q : q = uses
      OBVIOUS
    <3>2. pending' = q /\ todo' = <<>>
      BY <1>8, <2>2, <3>1
    <3>3. Distinct(pending') /\ Members(pending') = Members(q) /\ Distinct(todo') /\ Members(todo') = {}
      BY <2>2, <3>1, <3>2
    <3>4. Members(todo') \cup Members(pending') =
            (Unanswered(Members(messages)) \cup {<<e.id, p>> : p \in 1..e.calls}) \ {e.of}
      BY <3>1, <3>3
    <3>5. phase' = "up" /\ (asking' => pending' = <<>>)
      BY <1>8
    <3> QED
      BY <1>1, <1>3, <1>8, <3>2, <3>3, <3>4, <3>5, MemoryGoesOn
  <2>4. StoreTypeOK'
    <3>1. Append(messages, e) \in Seq(Entry) /\ ended \cup {e} \subseteq Entry
      BY <1>1 DEF StoreTypeOK
    <3> QED
      BY <1>3, <1>5, <1>8, <3>1 DEF StoreTypeOK
  <2> QED
    BY <1>4, <2>1, <2>3, <2>4 DEF StoreInv
<1> QED
  BY <1>2, <1>6, <1>7, <1>8

(* Bounds of what is written, from the guard of a write.                      *)
LEMMA MayWrite ==
  ASSUME StoreInv, NEW e, NEW outcome, WriteLine(e, outcome)
  PROVE  made \in Nat /\ made < MaxEntries
  BY SessionStoreAssumption DEF WriteLine, StoreInv, StoreTypeOK

LEMMA NothingPending ==
  ASSUME StoreInv, phase = "up"
  PROVE  /\ pending \in Seq(ToolUses) /\ Distinct(pending)
         /\ Unanswered(Members(messages)) = Members(pending)
         /\ Members(<<>>) = {} /\ Distinct(<<>>)
<1>1. todo = <<>> /\ Members(<<>>) = {} /\ Distinct(<<>>)
  BY DEF StoreInv, MemoryHolds, Alive, Members, Distinct
<1> QED
  BY <1>1 DEF StoreInv, MemoryHolds, StoreTypeOK, Alive

LEMMA PromptHolds ==
  ASSUME StoreInv, Prompt, goals' = goals, tearing' = tearing
  PROVE  StoreInv'
<1>1. phase = "up" /\ pending = <<>> /\ AppendMessage(User, <<>>, TRUE)
  BY DEF Prompt
<1>2. made \in Nat /\ made < MaxEntries
  BY <1>1, MayWrite DEF AppendMessage
<1>3. PICK e : e = User
  OBVIOUS
<1>4. e \in Entry /\ e.kind = "user" /\ e.id = made + 1 /\ e.calls = 0 /\ e.of = NoUse
  BY <1>2, <1>3, Made
<1>5. Continues(e)
  BY <1>4 DEF Continues, Shaped
<1>6. Members(<<>>) = {} /\ Distinct(<<>>) /\ Unanswered(Members(messages)) = {}
  BY <1>1, NothingPending
<1>7. Members(<<>>) =
         (Unanswered(Members(messages)) \cup {<<e.id, p>> : p \in 1..e.calls}) \ {e.of}
  <2>1. {<<e.id, p>> : p \in 1..e.calls} = {}
    BY <1>4
  <2> QED
    BY <1>6, <2>1
<1>8. <<>> \in Seq(ToolUses)
  OBVIOUS
<1> QED
  BY <1>1, <1>3, <1>5, <1>6, <1>7, <1>8, Appends

LEMMA ReplyHolds ==
  ASSUME StoreInv, Reply, goals' = goals, tearing' = tearing
  PROVE  StoreInv'
<1>1. phase = "up" /\ asking
  BY DEF Reply
<1>2. PICK n \in 0..MaxCalls : AppendMessage(Assistant(n), UsesOf(Assistant(n)), FALSE)
  BY DEF Reply
<1>3. made \in Nat /\ made < MaxEntries
  BY <1>2, MayWrite DEF AppendMessage
<1>4. PICK e : e = Assistant(n)
  OBVIOUS
<1>5. e \in Entry /\ e.kind = "assistant" /\ e.id = made + 1 /\ e.calls = n /\ e.of = NoUse
  BY <1>3, <1>4, Made
<1>6. pending = <<>>
  BY <1>1 DEF StoreInv, MemoryHolds
<1>7. Unanswered(Members(messages)) = {}
  BY <1>1, <1>6, NothingPending
<1>8. Continues(e)
  BY <1>5, <1>7 DEF Continues, Shaped
<1>9. PICK uses : uses = UsesOf(e)
  OBVIOUS
<1>10. uses = [p \in 1..n |-> <<made + 1, p>>] /\ n \in Nat
  BY <1>5, <1>9, SessionStoreAssumption DEF UsesOf
<1>11. \A p \in 1..n : <<made + 1, p>> \in ToolUses
  BY <1>3, SessionStoreAssumption DEF ToolUses
<1>12. uses \in Seq(ToolUses) /\ Len(uses) = n /\ \A p \in 1..n : uses[p] = <<made + 1, p>>
  BY <1>10, <1>11
<1>13. Distinct(uses)
  BY <1>12 DEF Distinct
<1>14. Members(uses) = {<<e.id, p>> : p \in 1..e.calls}
  BY <1>5, <1>12 DEF Members
<1>15. NoUse \notin Members(uses)
  <2>1. \A p \in 1..n : <<made + 1, p>> # <<0, 0>>
    BY <1>3
  <2> QED
    BY <1>12, <2>1 DEF Members, NoUse
<1>16. Members(uses) =
         (Unanswered(Members(messages)) \cup {<<e.id, p>> : p \in 1..e.calls}) \ {e.of}
  BY <1>5, <1>7, <1>14, <1>15
<1> QED
  BY ZenonT(40), <1>1, <1>2, <1>4, <1>8, <1>9, <1>12, <1>13, <1>16, Appends

LEMMA ToolResultHolds ==
  ASSUME StoreInv, ToolResult, goals' = goals, tearing' = tearing
  PROVE  StoreInv'
<1>1. /\ phase = "up" /\ pending # <<>>
      /\ AppendMessage(Result(Head(pending)), Tail(pending), Tail(pending) = <<>>)
  BY DEF ToolResult
<1>2. made \in Nat /\ made < MaxEntries
  BY <1>1, MayWrite DEF AppendMessage
<1>3. PICK use, rest : use = Head(pending) /\ rest = Tail(pending)
  OBVIOUS
<1>4. /\ pending \in Seq(ToolUses) /\ Distinct(pending)
      /\ Unanswered(Members(messages)) = Members(pending)
  BY <1>1, NothingPending
<1>5. /\ rest \in Seq(ToolUses) /\ Distinct(rest)
      /\ Members(rest) = Members(pending) \ {use} /\ use \in Members(pending)
  BY <1>1, <1>3, <1>4, MembersOfTail
<1>6. use \in ToolUses
  BY <1>4, <1>5 DEF Members
<1>7. PICK e : e = Result(use)
  OBVIOUS
<1>8. e \in Entry /\ e.kind = "result" /\ e.id = made + 1 /\ e.calls = 0 /\ e.of = use
  BY <1>2, <1>6, <1>7, Made
<1>9. Continues(e)
  BY <1>4, <1>5, <1>6, <1>8, UsePairs DEF Continues, Shaped
<1>10. Members(rest) =
         (Unanswered(Members(messages)) \cup {<<e.id, p>> : p \in 1..e.calls}) \ {e.of}
  <2>1. {<<e.id, p>> : p \in 1..e.calls} = {}
    BY <1>8
  <2> QED
    BY <1>4, <1>5, <1>8, <2>1
<1>11. PICK asks \in BOOLEAN : asks = (rest = <<>>)
  OBVIOUS
<1>12. AppendMessage(e, rest, asks)
  BY <1>1, <1>3, <1>7, <1>11
<1> QED
  BY <1>1, <1>5, <1>9, <1>10, <1>11, <1>12, Appends

LEMMA SteerHolds ==
  ASSUME StoreInv, Steer, goals' = goals, tearing' = tearing
  PROVE  StoreInv'
<1>1. phase = "up" /\ AppendMessage(User, pending, asking)
  BY DEF Steer
<1>2. made \in Nat /\ made < MaxEntries
  BY <1>1, MayWrite DEF AppendMessage
<1>3. PICK e : e = User
  OBVIOUS
<1>4. e \in Entry /\ e.kind = "user" /\ e.id = made + 1 /\ e.calls = 0 /\ e.of = NoUse
  BY <1>2, <1>3, Made
<1>5. Continues(e)
  BY <1>4 DEF Continues, Shaped
<1>6. /\ pending \in Seq(ToolUses) /\ Distinct(pending)
      /\ Unanswered(Members(messages)) = Members(pending)
  BY <1>1, NothingPending
<1>7. Members(pending) =
         (Unanswered(Members(messages)) \cup {<<e.id, p>> : p \in 1..e.calls}) \ {e.of}
  <2>1. {<<e.id, p>> : p \in 1..e.calls} = {}
    BY <1>4
  <2>2. NoUse \notin Members(pending)
    BY <1>6, UsePairs DEF Members
  <2> QED
    BY <1>4, <1>6, <2>1, <2>2
<1>8. asking \in BOOLEAN /\ (asking => pending = <<>>)
  BY DEF StoreInv, StoreTypeOK, MemoryHolds
<1>9. PICK uses, asks : uses = pending /\ asks = asking
  OBVIOUS
<1>10. /\ uses \in Seq(ToolUses) /\ Distinct(uses) /\ asks \in BOOLEAN /\ (asks => uses = <<>>)
       /\ Members(uses) =
            (Unanswered(Members(messages)) \cup {<<e.id, p>> : p \in 1..e.calls}) \ {e.of}
       /\ AppendMessage(e, uses, asks)
  BY <1>1, <1>3, <1>6, <1>7, <1>8, <1>9
<1> QED
  BY <1>1, <1>5, <1>10, Appends

(* open: what is read is a sound history, what dangles in it is to be answered. *)
LEMMA OpenHolds ==
  ASSUME StoreInv, Open, goals' = goals, tearing' = tearing
  PROVE  StoreInv'
<1>1. UNCHANGED <<lines, newline, pending, asking, made, ended>> /\ phase = "down"
  BY DEF Open
<1>2. StoreTypeOK /\ FileHolds /\ MemoryHolds
  BY DEF StoreInv
<1>3. FileHolds'
  <2>1. OnFile' = OnFile /\ Readable' = Readable /\ Ascending(lines)' = Ascending(lines)
    BY <1>1 DEF OnFile, Readable, Ascending
  <2> QED
    BY <1>1, <1>2, <2>1 DEF FileHolds
<1>4. ~asking
  BY <1>1, <1>2 DEF MemoryHolds
<1>5. CASE ~Readable
  <2>1. phase' = "unusable" /\ UNCHANGED <<messages, todo>>
    BY <1>5 DEF Open, Readable
  <2>2. MemoryHolds' /\ LinkHolds'
    BY <1>1, <1>2, <1>4, <2>1, DeadHolds DEF MemoryHolds
  <2>3. StoreTypeOK'
    BY <1>1, <1>2, <2>1 DEF StoreTypeOK, Phases
  <2> QED
    BY <1>3, <2>2, <2>3 DEF StoreInv
<1>6. CASE Readable
  <2>1. /\ messages' = Loaded(lines)
        /\ todo' = Dangling(Loaded(lines))
        /\ phase' = IF todo' = <<>> THEN "up" ELSE "repairing"
    BY <1>6 DEF Open, Readable
  <2>2. lines \in Seq(Entry) /\ OnFile = Members(lines) /\ OnFile \subseteq Entry
    BY <1>2, <1>6, FileOf DEF StoreTypeOK
  <2>3. /\ made \in Nat /\ Ascending(lines) /\ Sound(OnFile, made)
        /\ ~goals => TurnsEnd(OnFile) /\ \A e \in OnFile : e.kind # "goal"
    BY <1>2, <1>6, SessionStoreAssumption DEF StoreTypeOK, FileHolds
  <2>4. PICK m : m = Loaded(lines)
    OBVIOUS
  <2>5. /\ m \in Seq(Entry) /\ Members(m) \subseteq OnFile
        /\ Ascending(m) /\ Sound(Members(m), made)
        /\ \A e \in OnFile : e.of \notin Unanswered(Members(m))
        /\ ~goals => m = lines
    BY <2>2, <2>3, <2>4, LoadedHolds
  <2>6. PICK t : t = Dangling(m)
    OBVIOUS
  <2>7. t \in Seq(ToolUses) /\ Members(t) = Unanswered(Members(m)) /\ Distinct(t)
    BY <2>5, <2>6, DanglingListed DEF Sound
  <2>8. messages' = m /\ todo' = t /\ phase' = (IF t = <<>> THEN "up" ELSE "repairing")
    BY <2>1, <2>4, <2>6
  <2>9. pending = <<>>
    BY <1>1, <1>2 DEF MemoryHolds
  <2>10. Members(<<>>) = {} /\ Distinct(<<>>)
    BY DEF Members, Distinct
  <2>11. /\ Members(messages)' = Members(m) /\ Ascending(messages)' = Ascending(m)
         /\ Members(todo)' = Members(t) /\ Distinct(todo)' = Distinct(t)
         /\ Members(pending)' = {} /\ Distinct(pending)'
    BY <1>1, <2>8, <2>9, <2>10 DEF Members, Ascending, Distinct
  <2>12. Unanswered(Members(messages))' = Unanswered(Members(m))
    BY <2>11 DEF Unanswered
  <2>13. /\ Sound(Members(messages), made)' <=> Sound(Members(m), made)
         /\ TurnsEnd(Members(messages))' <=> TurnsEnd(Members(m))
    BY <1>1, <2>11 DEF Sound, TurnsEnd
  <2>14. MemoryHolds'
    BY <1>1, <1>4, <2>2, <2>3, <2>5, <2>7, <2>8, <2>9, <2>11, <2>12, <2>13 DEF MemoryHolds
  <2>15. LinkHolds'
    <3>1. OnFile' = OnFile
      BY <1>1 DEF OnFile
    <3> QED
      BY <1>1, <2>5, <2>8, <2>11, <2>12, <3>1 DEF LinkHolds
  <2>16. StoreTypeOK'
    BY <1>1, <1>2, <2>5, <2>7, <2>8 DEF StoreTypeOK, Phases
  <2> QED
    BY <1>3, <2>14, <2>15, <2>16 DEF StoreInv
<1> QED
  BY <1>5, <1>6

LEMMA RepairHolds ==
  ASSUME StoreInv, Repair, goals' = goals, tearing' = tearing
  PROVE  StoreInv'
<1>1. PICK outcome \in Outcomes :
        /\ WriteLine(Result(Head(todo)), outcome)
        /\ \/ Dead
           \/ /\ outcome = "written"
              /\ messages' = Append(messages, Result(Head(todo)))
              /\ todo' = Tail(todo)
              /\ phase' = IF todo' = <<>> THEN "up" ELSE "repairing"
              /\ UNCHANGED <<pending, asking>>
  BY DEF Repair
<1>2. phase = "repairing" /\ ended' = ended
  BY DEF Repair
<1>3. StoreTypeOK /\ FileHolds /\ MemoryHolds /\ Alive
  BY <1>2 DEF StoreInv, Alive
<1>4. made \in Nat /\ made < MaxEntries
  BY <1>1, MayWrite
<1>5. PICK use, rest : use = Head(todo) /\ rest = Tail(todo)
  OBVIOUS
<1>6. /\ todo \in Seq(ToolUses) /\ todo # <<>> /\ Distinct(todo)
      /\ pending = <<>> /\ ~asking
  BY <1>2, <1>3 DEF StoreTypeOK, MemoryHolds
<1>7. Members(<<>>) = {} /\ Distinct(<<>>)
  BY DEF Members, Distinct
<1>8. Unanswered(Members(messages)) = Members(todo)
  BY <1>3, <1>6, <1>7 DEF MemoryHolds
<1>9. /\ rest \in Seq(ToolUses) /\ Distinct(rest)
      /\ Members(rest) = Members(todo) \ {use} /\ use \in Members(todo)
  BY <1>5, <1>6, MembersOfTail
<1>10. use \in ToolUses
  BY <1>6, <1>9 DEF Members
<1>11. PICK e : e = Result(use)
  OBVIOUS
<1>12. e \in Entry /\ e.kind = "result" /\ e.id = made + 1 /\ e.calls = 0 /\ e.of = use
  BY <1>4, <1>10, <1>11, Made
<1>13. Continues(e)
  BY <1>8, <1>9, <1>10, <1>12, UsePairs DEF Continues, Shaped
<1>14. WriteLine(e, outcome) /\ Fits(e)
  BY <1>1, <1>3, <1>5, <1>11, <1>13, ContinuesFits
<1>15. /\ made' = made + 1 /\ made' \in 0..MaxEntries
       /\ lines' \in Seq(Entry \cup {Bad}) /\ newline' \in BOOLEAN
  BY <1>3, <1>12, <1>14, WriteCases
<1>16. FileHolds'
  BY <1>2, <1>3, <1>14, FileWritten
<1>17. goals' \in BOOLEAN /\ tearing' \in BOOLEAN
  BY <1>3 DEF StoreTypeOK
<1>18. CASE Dead
  <2>1. MemoryHolds' /\ LinkHolds'
    BY <1>18, DeadHolds DEF Dead
  <2>2. StoreTypeOK'
    <3>1. <<>> \in Seq(Entry) /\ <<>> \in Seq(ToolUses)
      OBVIOUS
    <3> QED
      BY <1>2, <1>3, <1>15, <1>17, <1>18, <3>1 DEF Dead, StoreTypeOK, Phases
  <2> QED
    BY <1>16, <2>1, <2>2 DEF StoreInv
<1>19. CASE /\ outcome = "written"
            /\ messages' = Append(messages, Result(Head(todo)))
            /\ todo' = Tail(todo)
            /\ phase' = IF todo' = <<>> THEN "up" ELSE "repairing"
            /\ UNCHANGED <<pending, asking>>
  <2>1. /\ messages' = Append(messages, e) /\ todo' = rest
        /\ phase' = (IF rest = <<>> THEN "up" ELSE "repairing")
        /\ pending' = <<>> /\ ~asking'
    BY <1>5, <1>6, <1>11, <1>19
  <2>2. LinkHolds'
    BY <1>3, <1>13, <1>14, <1>19, <2>1, LinkAppend
  <2>3. MemoryHolds'
    <3>1. {<<e.id, p>> : p \in 1..e.calls} = {}
      BY <1>12
    <3>2. /\ Members(todo') = Members(rest) /\ Distinct(todo')
          /\ Members(pending') = {} /\ Distinct(pending')
      BY <1>7, <1>9, <2>1
    <3>3. Members(todo') \cup Members(pending') =
            (Unanswered(Members(messages)) \cup {<<e.id, p>> : p \in 1..e.calls}) \ {e.of}
      BY <1>8, <1>9, <1>12, <3>1, <3>2
    <3>4. /\ phase' = "repairing" => todo' # <<>>
          /\ phase' = "up" => todo' = <<>>
      BY <2>1
    <3> QED
      BY <1>3, <1>13, <1>15, <2>1, <3>2, <3>3, <3>4, MemoryGoesOn
  <2>4. StoreTypeOK'
    <3>1. Append(messages, e) \in Seq(Entry)
      BY <1>3, <1>12 DEF StoreTypeOK
    <3>2. <<>> \in Seq(ToolUses)
      OBVIOUS
    <3>3. phase' \in Phases /\ messages' \in Seq(Entry) /\ pending' \in Seq(ToolUses)
          /\ todo' \in Seq(ToolUses) /\ asking' \in BOOLEAN /\ ended' \subseteq Entry
      BY <1>2, <1>3, <1>9, <1>19, <2>1, <3>1, <3>2 DEF StoreTypeOK, Phases
    <3> QED
      BY <1>15, <1>17, <3>3 DEF StoreTypeOK
  <2> QED
    BY <1>16, <2>2, <2>3, <2>4 DEF StoreInv
<1> QED
  BY <1>1, <1>18, <1>19

(* A goal is on the file and not in memory.                                   *)
LEMMA SetGoalHolds ==
  ASSUME StoreInv, SetGoal, goals' = goals, tearing' = tearing
  PROVE  StoreInv'
<1>1. PICK on \in BOOLEAN, outcome \in Outcomes :
        /\ WriteLine(Goal(on), outcome)
        /\ Dead \/ UNCHANGED <<phase, messages, todo, pending, asking>>
  BY DEF SetGoal
<1>2. goals /\ phase = "up" /\ ended' = ended
  BY DEF SetGoal
<1>3. StoreTypeOK /\ FileHolds /\ MemoryHolds /\ LinkHolds /\ Alive
  BY <1>2 DEF StoreInv, Alive
<1>4. made \in Nat /\ made < MaxEntries
  BY <1>1, MayWrite
<1>5. PICK e : e = Goal(on)
  OBVIOUS
<1>6. e \in Entry /\ e.kind = "goal" /\ e.id = made + 1 /\ e.calls = 0 /\ e.of = NoUse
  BY <1>4, <1>5, Made
<1>7. WriteLine(e, outcome) /\ Fits(e)
  BY <1>1, <1>2, <1>5, <1>6 DEF Fits, Shaped
<1>8. /\ made' = made + 1 /\ made' \in 0..MaxEntries
      /\ lines' \in Seq(Entry \cup {Bad}) /\ newline' \in BOOLEAN
      /\ \/ lines' = lines
         \/ OnFile' = OnFile \cup {e}
         \/ ~Readable'
  BY <1>3, <1>6, <1>7, WriteCases
<1>9. FileHolds'
  BY <1>2, <1>3, <1>7, FileWritten
<1>10. goals' \in BOOLEAN /\ tearing' \in BOOLEAN
  BY <1>3 DEF StoreTypeOK
<1>11. CASE Dead
  <2>1. MemoryHolds' /\ LinkHolds'
    BY <1>11, DeadHolds DEF Dead
  <2>2. StoreTypeOK'
    <3>1. <<>> \in Seq(Entry) /\ <<>> \in Seq(ToolUses)
      OBVIOUS
    <3> QED
      BY <1>2, <1>3, <1>8, <1>10, <1>11, <3>1 DEF Dead, StoreTypeOK, Phases
  <2> QED
    BY <1>9, <2>1, <2>2 DEF StoreInv
<1>12. CASE UNCHANGED <<phase, messages, todo, pending, asking>>
  <2>1. Members(messages)' = Members(messages) /\ Ascending(messages)' = Ascending(messages)
    BY <1>12 DEF Members, Ascending
  <2>2. Unanswered(Members(messages))' = Unanswered(Members(messages))
    BY <2>1 DEF Unanswered
  <2>3. Sound(Members(messages), made)'
    <3>1. Members(messages) \subseteq Entry
      BY <1>3 DEF StoreTypeOK, Members
    <3>2. Sound(Members(messages), made + 1)
      BY <1>3, <1>4, <3>1, SoundGrows DEF MemoryHolds
    <3> QED
      BY <1>8, <2>1, <3>2 DEF Sound
  <2>4. MemoryHolds'
    BY <1>2, <1>3, <1>12, <2>1, <2>2, <2>3 DEF MemoryHolds, Alive, Members, Distinct
  <2>5. ASSUME Readable'
        PROVE  Readable /\ (OnFile' = OnFile \/ OnFile' = OnFile \cup {e})
    <3>1. Readable' <=> Bad \notin OnFile'
      BY DEF Readable, OnFile
    <3>2. lines' = lines => OnFile' = OnFile
      BY DEF OnFile
    <3> QED
      BY <1>8, <2>5, <3>1, <3>2, FileOf
  <2>6. LinkHolds'
    <3>1. e.of \notin Unanswered(Members(messages))
      BY <1>6, UsePairs DEF Unanswered
    <3> QED
      BY <1>2, <1>3, <2>1, <2>2, <2>5, <3>1 DEF LinkHolds
  <2>7. StoreTypeOK'
    BY <1>2, <1>3, <1>8, <1>10, <1>12 DEF StoreTypeOK
  <2> QED
    BY <1>9, <2>4, <2>6, <2>7 DEF StoreInv
<1> QED
  BY <1>1, <1>11, <1>12

LEMMA ExitHolds ==
  ASSUME StoreInv, Exit \/ UNCHANGED storeVars, goals' = goals, tearing' = tearing
  PROVE  StoreInv'
<1>1. UNCHANGED <<lines, newline, made, ended>>
  BY DEF Exit, storeVars
<1>2. StoreTypeOK /\ FileHolds
  BY DEF StoreInv
<1>3. FileHolds'
  <2>1. OnFile' = OnFile /\ Readable' = Readable /\ Ascending(lines)' = Ascending(lines)
    BY <1>1 DEF OnFile, Readable, Ascending
  <2> QED
    BY <1>1, <1>2, <2>1 DEF FileHolds
<1>4. CASE Exit
  <2>1. MemoryHolds' /\ LinkHolds'
    BY <1>4, DeadHolds DEF Exit, Dead
  <2>2. StoreTypeOK'
    <3>1. <<>> \in Seq(Entry) /\ <<>> \in Seq(ToolUses)
      OBVIOUS
    <3> QED
      BY <1>1, <1>2, <1>4, <3>1 DEF Exit, Dead, StoreTypeOK, Phases
  <2> QED
    BY <1>3, <2>1, <2>2 DEF StoreInv
<1>5. CASE UNCHANGED storeVars
  <2>1. UNCHANGED <<messages, phase, todo, pending, asking>>
    BY <1>5 DEF storeVars
  <2>2. StoreTypeOK'
    BY <1>1, <1>2, <2>1 DEF StoreTypeOK
  <2>3. /\ Members(messages)' = Members(messages) /\ Ascending(messages)' = Ascending(messages)
        /\ Members(todo)' = Members(todo) /\ Distinct(todo)' = Distinct(todo)
        /\ Members(pending)' = Members(pending) /\ Distinct(pending)' = Distinct(pending)
        /\ OnFile' = OnFile /\ Readable' = Readable
    BY <1>1, <2>1 DEF Members, Ascending, Distinct, OnFile, Readable
  <2>4. /\ Unanswered(Members(messages))' = Unanswered(Members(messages))
        /\ Sound(Members(messages), made)' = Sound(Members(messages), made)
        /\ TurnsEnd(Members(messages))' = TurnsEnd(Members(messages))
    BY <1>1, <2>3 DEF Unanswered, Sound, TurnsEnd
  <2> QED
    BY <1>1, <1>3, <2>1, <2>2, <2>3, <2>4 DEF StoreInv, MemoryHolds, LinkHolds, Alive
<1> QED
  BY <1>4, <1>5

-----------------------------------------------------------------------------
(* The invariant, and what follows from it                                   *)

LEMMA StoreStarts ==
  ASSUME StoreInit
  PROVE  StoreInv
<1>1. /\ lines = <<>> /\ messages = <<>> /\ todo = <<>> /\ pending = <<>> /\ newline = TRUE
      /\ phase = "down" /\ asking = FALSE /\ made = 0 /\ ended = {}
      /\ goals \in BOOLEAN /\ tearing \in BOOLEAN
  BY SessionStoreAssumption DEF StoreInit
<1>2. /\ <<>> \in Seq(Entry) /\ <<>> \in Seq(ToolUses) /\ <<>> \in Seq(Entry \cup {Bad})
      /\ 0 \in 0..MaxEntries
  BY SessionStoreAssumption
<1>3. StoreTypeOK
  BY <1>1, <1>2 DEF StoreTypeOK, Phases
<1>4. OnFile = {} /\ Readable /\ Ascending(lines)
  BY <1>1 DEF OnFile, Readable, Ascending
<1>5. FileHolds
  BY <1>1, <1>4 DEF FileHolds, Sound, TurnsEnd
<1>6. MemoryHolds /\ LinkHolds
  BY <1>1 DEF MemoryHolds, LinkHolds, Alive
<1> QED
  BY <1>3, <1>5, <1>6 DEF StoreInv

LEMMA StoreStep ==
  ASSUME StoreInv, [StoreNext]_storeVars
  PROVE  StoreInv'
<1>1. goals' = goals /\ tearing' = tearing
  BY DEF StoreNext, storeVars
<1>2. CASE Open
  BY <1>1, <1>2, OpenHolds
<1>3. CASE Repair
  BY <1>1, <1>3, RepairHolds
<1>4. CASE Prompt
  BY <1>1, <1>4, PromptHolds
<1>5. CASE Reply
  BY <1>1, <1>5, ReplyHolds
<1>6. CASE ToolResult
  BY <1>1, <1>6, ToolResultHolds
<1>7. CASE Steer
  BY <1>1, <1>7, SteerHolds
<1>8. CASE SetGoal
  BY <1>1, <1>8, SetGoalHolds
<1>9. CASE Exit \/ UNCHANGED storeVars
  BY <1>1, <1>9, ExitHolds
<1> QED
  BY <1>2, <1>3, <1>4, <1>5, <1>6, <1>7, <1>8, <1>9 DEF StoreNext

LEMMA StoreAlways == StoreSpec => []StoreInv
<1>1. StoreInit => StoreInv
  BY StoreStarts
<1>2. StoreInv /\ [StoreNext]_storeVars => StoreInv'
  BY StoreStep
<1> QED
  BY <1>1, <1>2, PTL DEF StoreSpec

LEMMA UsesAreAnswered ==
  ASSUME StoreInv
  PROVE  EveryUseAnswered
<1> SUFFICES ASSUME asking PROVE EveryUseAnswered
  BY DEF EveryUseAnswered
<1>1. phase = "up" /\ pending = <<>> /\ messages \in Seq(Entry)
  BY DEF StoreInv, MemoryHolds, StoreTypeOK
<1>2. Ascending(messages) /\ Sound(Members(messages), made)
  BY <1>1 DEF StoreInv, MemoryHolds, Alive
<1>3. Unanswered(Members(messages)) = {}
  BY <1>1, NothingPending
<1>4. ASSUME NEW a \in 1..Len(messages), NEW p \in 1..MaxCalls, p <= messages[a].calls
      PROVE  /\ \E r \in (a + 1)..Len(messages) : messages[r].of = <<messages[a].id, p>>
             /\ \A r, q \in 1..Len(messages) :
                   messages[r].of = <<messages[a].id, p>> /\ messages[q].of = messages[r].of
                       => r = q
  <2>1. PICK use : use = <<messages[a].id, p>>
    OBVIOUS
  <2>2. messages[a] \in Entry /\ messages[a] \in Members(messages)
    BY <1>1 DEF Members
  <2>3. use \in ToolUses /\ use[1] = messages[a].id /\ use[2] = p /\ p \in 1..messages[a].calls
    BY <1>4, <2>1, <2>2, EntryFields DEF ToolUses
  <2>4. use # NoUse
    BY <2>3, UsePairs
  <2>5. PICK d \in Members(messages) : d.of = use
    BY <1>3, <2>2, <2>3 DEF Unanswered
  <2>6. PICK r \in 1..Len(messages) : messages[r] = d
    BY <2>5 DEF Members
  <2>7. d.kind = "result"
    BY <1>2, <2>4, <2>5 DEF Sound, Shaped
  <2>8. PICK b \in Members(messages) : AnswerTo(d, b) /\ b.id < d.id
    BY <1>2, <2>5, <2>7 DEF Sound
  <2>9. b = messages[a]
    BY <1>2, <2>2, <2>3, <2>5, <2>8 DEF AnswerTo, Sound
  <2>10. a < r
    BY <1>1, <1>2, <2>6, <2>8, <2>9, PlacesByNumber
  <2>11. ASSUME NEW i \in 1..Len(messages), NEW j \in 1..Len(messages),
                messages[i].of = use, messages[j].of = messages[i].of
         PROVE  i = j
    <3>1. messages[i] = messages[j]
      BY <1>2, <2>4, <2>11 DEF Members, Sound
    <3> QED
      BY <1>1, <1>2, <3>1, PlacesByNumber
  <2>12. r \in (a + 1)..Len(messages)
    BY <2>10
  <2> QED
    BY <2>1, <2>5, <2>6, <2>11, <2>12
<1> QED
  BY <1>4 DEF EveryUseAnswered

LEMMA ResultsFollow ==
  ASSUME StoreInv
  PROVE  ResultsFollowTheirUse
<1> SUFFICES ASSUME asking, ~goals,
                    NEW a \in 1..Len(messages), NEW b \in 1..Len(messages),
                    NEW r \in 1..Len(messages),
                    a < b, b < r, messages[b].kind = "assistant",
                    messages[r].of[1] = messages[a].id
             PROVE  FALSE
  BY DEF ResultsFollowTheirUse
<1>1. phase = "up" /\ messages \in Seq(Entry)
  BY DEF StoreInv, MemoryHolds, StoreTypeOK
<1>2. Ascending(messages) /\ Sound(Members(messages), made) /\ TurnsEnd(Members(messages))
  BY <1>1 DEF StoreInv, MemoryHolds, Alive
<1>3. PICK x, y, z \in Members(messages) : x = messages[a] /\ y = messages[b] /\ z = messages[r]
  BY DEF Members
<1>4. x \in Entry /\ y \in Entry /\ z \in Entry
  BY <1>1, <1>3
<1>5. x.id < y.id /\ y.id < z.id
  BY <1>1, <1>2, <1>3, PlacesByNumber
<1>6. z.of # NoUse
  BY <1>3, <1>4, EntryFields DEF NoUse
<1>7. z.kind = "result"
  BY <1>2, <1>3, <1>6 DEF Sound, Shaped
<1>8. PICK d \in Members(messages) : AnswerTo(z, d)
  BY <1>2, <1>3, <1>7 DEF Sound
<1>9. d = x
  BY <1>2, <1>3, <1>8 DEF AnswerTo, Sound
<1>10. z.of[2] \in 1..x.calls /\ z.of[1] = x.id
  BY <1>3, <1>8, <1>9 DEF AnswerTo
<1>11. x.kind = "assistant"
  BY <1>2, <1>3, <1>4, <1>10, EntryFields DEF Sound, Shaped
<1>12. PICK q \in Members(messages) : q.of = <<x.id, z.of[2]>> /\ q.id < y.id
  BY <1>2, <1>3, <1>5, <1>10, <1>11 DEF TurnsEnd
<1>13. z.of \in ToolUses
  BY <1>4, <1>6, EntryFields
<1>14. z.of = <<x.id, z.of[2]>>
  BY <1>10, <1>13, UsePairs
<1>15. q = z
  BY <1>2, <1>3, <1>6, <1>12, <1>14 DEF Sound
<1> QED
  BY <1>4, <1>5, <1>12, <1>15, EntryFields

LEMMA MemoryFollowsFile ==
  ASSUME StoreInv
  PROVE  MessageEndRecoverable /\ MemoryIsOnFile
<1>1. MessageEndRecoverable
  BY DEF StoreInv, FileHolds, MessageEndRecoverable, AnnouncedIsRecoverable
<1>2. ASSUME asking, ~goals, ~tearing
      PROVE  messages = Loaded(lines)
  <2>1. Readable /\ (\A e \in OnFile : e.kind # "goal") /\ messages = lines
    BY <1>2 DEF StoreInv, FileHolds, MemoryHolds, LinkHolds, Alive
  <2>2. lines \in Seq(Entry) /\ OnFile = Members(lines)
    BY <2>1, FileOf DEF StoreInv, StoreTypeOK
  <2>3. made \in Nat /\ Ascending(lines) /\ Sound(OnFile, made)
    BY <2>1, SessionStoreAssumption DEF StoreInv, StoreTypeOK, FileHolds
  <2> QED
    BY <2>1, <2>2, <2>3, LoadedHolds
<1> QED
  BY <1>1, <1>2 DEF MemoryIsOnFile

(* Whatever fails, and however often the process dies - in a write, in a repair *)
(* or between two - what was announced can be read again, memory and file       *)
(* agree, and the provider gets a history in which each tool use is answered     *)
(* once, after it and before the next assistant message.                     *)
THEOREM StoreSound == StoreSpec => []HistoryIsSound
<1>1. StoreInv => HistoryIsSound
  BY UsesAreAnswered, ResultsFollow, MemoryFollowsFile DEF HistoryIsSound, StoreInv
<1> QED
  BY <1>1, StoreAlways, PTL

(* As long as writes are whole, no step changes or loses a line.              *)
THEOREM FileGrows == StoreSpec => FileOnlyGrows
<1>1. ASSUME StoreInv, [StoreNext]_storeVars
      PROVE  [~tearing => IsPrefix(lines, lines')]_storeVars
  <2>1. SUFFICES ASSUME StoreNext, ~tearing PROVE IsPrefix(lines, lines')
    BY <1>1
  <2>2. newline /\ lines \in Seq(Entry \cup {Bad})
    BY <1>1, <2>1 DEF StoreInv, FileHolds, StoreTypeOK
  <2>3. \/ Open \/ Repair \/ Prompt \/ Reply \/ ToolResult \/ Steer \/ SetGoal \/ Exit
    BY <2>1 DEF StoreNext
  <2>4. lines' = lines \/ \E e : lines' = Append(lines, e)
    <3>1. CASE Open \/ Exit
      BY <3>1 DEF Open, Exit
    <3>2. CASE Repair
      BY <2>2, <3>2 DEF Repair, AppendMessage, WriteLine
    <3>3. CASE Prompt
      BY <2>2, <3>3 DEF Prompt, AppendMessage, WriteLine
    <3>4. CASE Reply
      BY <2>2, <3>4 DEF Reply, AppendMessage, WriteLine
    <3>5. CASE ToolResult
      BY <2>2, <3>5 DEF ToolResult, AppendMessage, WriteLine
    <3>6. CASE Steer
      BY <2>2, <3>6 DEF Steer, AppendMessage, WriteLine
    <3>7. CASE SetGoal
      BY <2>2, <3>7 DEF SetGoal, AppendMessage, WriteLine
    <3> QED
      BY <2>3, <3>1, <3>2, <3>3, <3>4, <3>5, <3>6, <3>7
  <2>5. CASE lines' = lines
    BY <2>2, <2>5 DEF IsPrefix
  <2>6. ASSUME NEW e, lines' = Append(lines, e)
        PROVE  IsPrefix(lines, lines')
    <3>1. PICK N \in Nat : N = Len(lines)
      BY <2>2
    <3>2. PICK g : g = Append(lines, e)
      OBVIOUS
    <3>3. Len(g) = N + 1 /\ \A i \in 1..N : g[i] = lines[i]
      BY <2>2, <3>1, <3>2
    <3>4. SubSeq(g, 1, N) = SubSeq(lines, 1, N)
      BY <2>2, <3>1, <3>3
    <3> QED
      BY <2>6, <3>1, <3>2, <3>3, <3>4 DEF IsPrefix
  <2> QED
    BY <2>4, <2>5, <2>6
<1> QED
  BY <1>1, StoreAlways, PTL DEF StoreSpec, FileOnlyGrows

-----------------------------------------------------------------------------
(* VirtualFiles                                                              *)

(* Prefixes and parents.                                                     *)
LEMMA PrefixOf ==
  ASSUME NEW p \in Seq(Parts), NEW n \in 0..Len(p)
  PROVE  /\ UpTo(p, n) \in Seq(Parts) /\ Len(UpTo(p, n)) = n
         /\ \A i \in 1..n : UpTo(p, n)[i] = p[i]
<1>1. Len(p) \in Nat /\ n \in Nat /\ n <= Len(p)
  OBVIOUS
<1>2. \A i \in 1..n : p[i] \in Parts
  BY <1>1, ElementOfSeq
<1>3. /\ SubSeq(p, 1, n) \in Seq(Parts)
      /\ Len(SubSeq(p, 1, n)) = IF 1 <= n THEN n - 1 + 1 ELSE 0
      /\ \A i \in 1..(n - 1 + 1) : SubSeq(p, 1, n)[i] = p[1 + i - 1]
  BY <1>1, <1>2, SubSeqProperties
<1> QED
  BY <1>1, <1>3 DEF UpTo

LEMMA PrefixOfPrefix ==
  ASSUME NEW p \in Seq(Parts), NEW n \in 0..Len(p), NEW m \in 0..n
  PROVE  UpTo(UpTo(p, n), m) = UpTo(p, m)
<1>1. PICK q : q = UpTo(p, n)
  OBVIOUS
<1>2. Len(p) \in Nat /\ n \in Nat /\ n <= Len(p) /\ m \in Nat /\ m <= n
  OBVIOUS
<1>3. q \in Seq(Parts) /\ Len(q) = n /\ \A i \in 1..n : q[i] = p[i]
  BY <1>1, PrefixOf
<1>4. UpTo(q, m) \in Seq(Parts) /\ Len(UpTo(q, m)) = m /\ \A i \in 1..m : UpTo(q, m)[i] = q[i]
  <2>1. q \in Seq(Parts) /\ m \in 0..Len(q)
    BY <1>2, <1>3
  <2> QED
    BY ONLY <2>1, PrefixOf
<1>5. UpTo(p, m) \in Seq(Parts) /\ Len(UpTo(p, m)) = m /\ \A i \in 1..m : UpTo(p, m)[i] = p[i]
  <2>1. p \in Seq(Parts) /\ m \in 0..Len(p)
    BY <1>2
  <2> QED
    BY ONLY <2>1, PrefixOf
<1>6. \A i \in 1..m : UpTo(q, m)[i] = UpTo(p, m)[i]
  BY <1>2, <1>3, <1>4, <1>5
<1> QED
  BY <1>1, <1>4, <1>5, <1>6, SeqEqual

LEMMA ParentOf ==
  ASSUME NEW p \in Seq(Parts), p # Root
  PROVE  /\ Len(p) \in Nat /\ Len(p) >= 1 /\ Len(p) - 1 \in 0..Len(p)
         /\ Parent(p) = UpTo(p, Len(p) - 1) /\ Parent(p) \in Seq(Parts)
         /\ Len(Parent(p)) = Len(p) - 1 /\ UpTo(p, Len(p)) = p
<1>1. Len(p) \in Nat \ {0}
  BY EmptySeq DEF Root
<1>2. Parent(p) = UpTo(p, Len(p) - 1)
  BY DEF Parent, Front, UpTo
<1>3. UpTo(p, Len(p)) = p
  BY SubSeqFull DEF UpTo
<1> QED
  BY <1>1, <1>2, <1>3, PrefixOf

LEMMA ParentOfPrefix ==
  ASSUME NEW p \in Seq(Parts), NEW n \in 1..Len(p)
  PROVE  UpTo(p, n) # Root /\ Parent(UpTo(p, n)) = UpTo(p, n - 1)
<1>1. PICK q : q = UpTo(p, n)
  OBVIOUS
<1>2. Len(p) \in Nat /\ n \in Nat /\ 1 <= n /\ n <= Len(p) /\ n \in 0..Len(p) /\ n - 1 \in 0..n
  OBVIOUS
<1>3. q \in Seq(Parts) /\ Len(q) = n
  BY <1>1, <1>2, PrefixOf
<1>4. q # Root
  BY <1>2, <1>3, EmptySeq DEF Root
<1>5. Parent(q) = UpTo(q, n - 1)
  BY <1>3, <1>4, ParentOf
<1> QED
  BY <1>1, <1>2, <1>4, <1>5, PrefixOfPrefix

LEMMA PathsAreNamed == Paths \subseteq Seq(Parts) /\ Root \in Paths
  BY FilesConstants

LEMMA PrefixesArePaths ==
  ASSUME NEW p \in Paths, NEW n \in 0..Len(p)
  PROVE  UpTo(p, n) \in Paths
<1>1. p \in Seq(Parts)
  BY PathsAreNamed
<1>2. PICK top \in Nat : top = Len(p)
  BY <1>1
<1> DEFINE S == {k \in 0..top : UpTo(p, top - k) \in Paths}
<1>3. 0 \in S
  <2>1. UpTo(p, top) = p
    BY <1>1, <1>2, SubSeqFull DEF UpTo
  <2> QED
    BY <2>1
<1>4. ASSUME NEW k \in Nat, k \in S, k < top PROVE k + 1 \in S
  <2>1. top - k \in 1..Len(p) /\ (top - k) - 1 = top - (k + 1) /\ k + 1 \in 0..top
    BY <1>2, <1>4
  <2>2. UpTo(p, top - k) # Root /\ Parent(UpTo(p, top - k)) = UpTo(p, top - (k + 1))
    BY <1>1, <2>1, ParentOfPrefix
  <2>3. UpTo(p, top - k) \in Paths
    BY <1>4
  <2>4. UpTo(p, top - (k + 1)) \in Paths
    BY <2>2, <2>3, FilesConstants
  <2> QED
    BY <2>1, <2>4
<1>5. 0..top \subseteq S
  <2> HIDE DEF S
  <2> QED
    BY <1>3, <1>4, AllUpTo
<1>6. top - n \in 0..top /\ top - (top - n) = n
  BY <1>2
<1>7. UpTo(p, top - (top - n)) \in Paths
  BY <1>5, <1>6
<1> QED
  BY <1>6, <1>7

LEMMA StrictPrefix ==
  ASSUME NEW p \in Seq(Parts), NEW q \in Seq(Parts)
  PROVE  IsStrictPrefix(p, q) <=> Len(p) < Len(q) /\ UpTo(q, Len(p)) = p
<1>1. Len(p) \in Nat /\ Len(q) \in Nat /\ SubSeq(p, 1, Len(p)) = p /\ SubSeq(q, 1, Len(q)) = q
  BY SubSeqFull
<1> QED
  BY <1>1 DEF IsStrictPrefix, IsPrefix, UpTo

LEMMA BelowParent ==
  ASSUME NEW p \in Seq(Parts), NEW q \in Seq(Parts), q # Root
  PROVE  /\ Parent(q) = p => IsStrictPrefix(p, q)
         /\ IsStrictPrefix(p, Parent(q)) => IsStrictPrefix(p, q)
<1>1. /\ Len(q) \in Nat /\ Len(q) >= 1 /\ Parent(q) = UpTo(q, Len(q) - 1) /\ Parent(q) \in Seq(Parts)
      /\ Len(Parent(q)) = Len(q) - 1 /\ Len(q) - 1 \in 0..Len(q) /\ Len(p) \in Nat
  BY ParentOf
<1>2. CASE Parent(q) = p
  BY <1>1, <1>2, StrictPrefix
<1>3. CASE IsStrictPrefix(p, Parent(q))
  <2>1. Len(p) < Len(Parent(q)) /\ UpTo(Parent(q), Len(p)) = p
    BY <1>1, <1>3, StrictPrefix
  <2>2. Len(p) \in 0..(Len(q) - 1)
    BY <1>1, <2>1
  <2>3. UpTo(q, Len(p)) = p
    BY <1>1, <2>1, <2>2, PrefixOfPrefix
  <2> QED
    BY <1>1, <2>1, <2>3, StrictPrefix
<1> QED
  BY <1>2, <1>3


-----------------------------------------------------------------------------
(* Resolution.  Each link that is followed leaves one less to follow, so that  *)
(* what is resolved in as many rounds as there are links, and one, is resolved. *)
Situations == Seq(Parts) \X SUBSET DOMAIN symlinks

LinksFit ==
  /\ symlinks \in [DOMAIN symlinks -> Paths]
  /\ DOMAIN symlinks \subseteq Paths \ {Root} /\ IsFiniteSet(DOMAIN symlinks)

ToFollow(x) ==
  LinksOf(x[1]) # {} /\ ~(LinkOf(x[1]) \in x[2] \/ Cardinality(x[2]) >= MaxFollowed)
Onward(x) == <<Followed(x[1]), x[2] \union {LinkOf(x[1])}>>
Ends(x)  == IF LinksOf(x[1]) = {} THEN {x[1]} ELSE {}
Outcome(f, x) == IF ToFollow(x) THEN f[Onward(x)] ELSE Ends(x)
LeftFrom(x) == Cardinality(DOMAIN symlinks \ x[2])

LEMMA FirstLink ==
  ASSUME NEW p \in Seq(Parts), LinksOf(p) # {}
  PROVE  LinkOf(p) \in DOMAIN symlinks /\ Min(LinksOf(p)) \in 1..Len(p)
<1>1. LinksOf(p) \in SUBSET Nat
  BY DEF LinksOf
<1>2. PICK S : S = LinksOf(p)
  OBVIOUS
<1>3. Min(S) \in S
  <2>1. \E m \in S : \A n \in S : m <= n
    BY <1>1, <1>2, LeastExists
  <2> QED
    BY <2>1 DEF Min
<1> QED
  BY <1>2, <1>3 DEF LinksOf, LinkOf

LEMMA AfterFits ==
  ASSUME LinksFit, NEW x \in Situations
  PROVE  /\ x[1] \in Seq(Parts) /\ x[2] \subseteq DOMAIN symlinks /\ LeftFrom(x) \in Nat
         /\ LeftFrom(x) <= Cardinality(DOMAIN symlinks)
         /\ ToFollow(x) => /\ Onward(x) \in Situations
                       /\ LeftFrom(x) >= 1 /\ LeftFrom(Onward(x)) = LeftFrom(x) - 1
<1>1. x[1] \in Seq(Parts) /\ x[2] \subseteq DOMAIN symlinks
  BY DEF Situations
<1>2. PICK L : L = DOMAIN symlinks
  OBVIOUS
<1>3. IsFiniteSet(L) /\ IsFiniteSet(L \ x[2]) /\ Cardinality(L) \in Nat /\ Cardinality(L \ x[2]) \in Nat
  <2>1. IsFiniteSet(L) /\ L \ x[2] \subseteq L
    BY <1>2 DEF LinksFit
  <2>2. IsFiniteSet(L \ x[2])
    BY <2>1, FS_Subset
  <2> QED
    BY <2>1, <2>2, FS_CardinalityType
<1>4. Cardinality(L \ x[2]) <= Cardinality(L)
  BY <1>3, FS_Subset
<1>5. ASSUME ToFollow(x)
      PROVE  /\ Onward(x) \in Situations
             /\ LeftFrom(x) >= 1 /\ LeftFrom(Onward(x)) = LeftFrom(x) - 1
  <2>1. PICK p, l : p = x[1] /\ l = LinkOf(p)
    OBVIOUS
  <2>2. l \in L /\ l \notin x[2] /\ p \in Seq(Parts)
    BY <1>1, <1>2, <1>5, <2>1, FirstLink DEF ToFollow
  <2>3. symlinks[l] \in Seq(Parts) /\ l \in Seq(Parts)
    BY <1>2, <2>2, PathsAreNamed DEF LinksFit
  <2>4. PICK rest : rest = SubSeq(p, Len(l) + 1, Len(p))
    OBVIOUS
  <2>5. rest \in Seq(Parts)
    <3>1. Len(l) + 1 \in Int /\ Len(p) \in Int /\ Len(l) + 1 >= 1
      BY <2>2, <2>3
    <3>2. \A i \in (Len(l) + 1)..Len(p) : p[i] \in Parts
      BY <2>2, <2>3, <3>1, ElementOfSeq
    <3> QED
      BY <2>4, <3>1, <3>2, SubSeqProperties
  <2>6. symlinks[l] \o rest \in Seq(Parts)
    BY <2>3, <2>5, ConcatProperties
  <2>7. Onward(x) = <<symlinks[l] \o rest, x[2] \union {l}>>
    BY <2>1, <2>4 DEF Onward, Followed
  <2>8. Onward(x) \in Situations
    <3>1. PICK path, seen : path = symlinks[l] \o rest /\ seen = x[2] \union {l}
      OBVIOUS
    <3>2. path \in Seq(Parts) /\ seen \in SUBSET DOMAIN symlinks /\ Onward(x) = <<path, seen>>
      BY <1>1, <1>2, <2>2, <2>6, <2>7, <3>1
    <3> QED
      BY ONLY <3>2 DEF Situations
  <2>9. L \ (x[2] \union {l}) = (L \ x[2]) \ {l} /\ l \in L \ x[2]
    BY <2>2
  <2>10. Cardinality(L \ (x[2] \union {l})) = Cardinality(L \ x[2]) - 1 /\ Cardinality(L \ x[2]) # 0
    <3>1. Cardinality((L \ x[2]) \ {l}) = Cardinality(L \ x[2]) - 1
      BY <1>3, <2>9, FS_RemoveElement
    <3>2. Cardinality(L \ x[2]) # 0
      BY <1>3, <2>9, FS_EmptySet
    <3> QED
      BY <2>9, <3>1, <3>2
  <2>11. Onward(x)[2] = x[2] \union {l}
    BY <2>7
  <2> QED
    BY <1>2, <1>3, <2>8, <2>10, <2>11 DEF LeftFrom
<1> QED
  BY <1>1, <1>2, <1>3, <1>4, <1>5 DEF LeftFrom

LEMMA ResolutionExists ==
  ASSUME LinksFit
  PROVE  \E f \in [Situations -> SUBSET Seq(Parts)] : \A x \in Situations : f[x] = Outcome(f, x)
<1> DEFINE D == [Situations -> SUBSET Seq(Parts)]
<1>1. PICK N \in Nat : N = Cardinality(DOMAIN symlinks)
  BY FS_CardinalityType DEF LinksFit
<1>2. PICK base \in D : base = [x \in Situations |-> {}]
  OBVIOUS
<1>3. ASSUME NEW f \in D, NEW x \in Situations PROVE Outcome(f, x) \in SUBSET Seq(Parts)
  <2>1. CASE ToFollow(x)
    <3>1. Onward(x) \in Situations
      BY <2>1, AfterFits
    <3>2. f[Onward(x)] \in SUBSET Seq(Parts)
      BY <3>1
    <3> QED
      BY <2>1, <3>2 DEF Outcome
  <2>2. CASE ~ToFollow(x)
    <3>1. x[1] \in Seq(Parts)
      BY AfterFits
    <3> QED
      BY <2>2, <3>1 DEF Outcome, Ends
  <2> QED
    BY <2>1, <2>2
<1>4. PICK top, step : /\ top = N + 2
                       /\ step = [y \in (1..top) \X D |-> [x \in Situations |-> Outcome(y[2], x)]]
  OBVIOUS
<1>5. step \in [(1..top) \X D -> D]
  <2>1. ASSUME NEW y \in (1..top) \X D PROVE [x \in Situations |-> Outcome(y[2], x)] \in D
    <3>1. y[2] \in D
      OBVIOUS
    <3> QED
      BY <1>3, <3>1
  <2> QED
    BY <1>4, <2>1
<1>6. PICK g : Recurs(g, top, D, base, step)
  <2>1. top \in Nat /\ base \in D /\ step \in [(1..top) \X D -> D]
    BY <1>1, <1>2, <1>4, <1>5
  <2> HIDE DEF D
  <2> QED
    BY ONLY <2>1, Recursion
<1>7. /\ \A n \in 0..top : g[n] \in D
      /\ \A n \in 1..top : \A x \in Situations : g[n][x] = Outcome(g[n - 1], x)
  <2>1. \A n \in 0..top : g[n] \in D
    BY <1>6 DEF Recurs
  <2>2. ASSUME NEW n \in 1..top, NEW x \in Situations PROVE g[n][x] = Outcome(g[n - 1], x)
    <3>1. n - 1 \in 0..top /\ g[n] = step[<<n, g[n - 1]>>]
      <4>1. n - 1 \in 0..top
        BY <1>1, <1>4
      <4> QED
        BY ONLY <1>6, <4>1, n \in 1..top DEF Recurs
    <3>2. PICK before \in D : before = g[n - 1]
      BY <2>1, <3>1
    <3>3. step[<<n, before>>] = [y \in Situations |-> Outcome(before, y)]
      <4> HIDE DEF D
      <4> QED
        BY <1>4
    <3> QED
      BY <3>1, <3>2, <3>3
  <2> QED
    BY <2>1, <2>2
<1> DEFINE S == {n \in 0..(N + 1) : \A x \in Situations : LeftFrom(x) < n => g[n + 1][x] = g[n][x]}
<1>8. 0 \in S
  <2>1. \A x \in Situations : ~(LeftFrom(x) < 0)
    BY AfterFits
  <2> QED
    BY <1>1, <2>1
<1>9. ASSUME NEW n \in Nat, n \in S, n < N + 1 PROVE n + 1 \in S
  <2>0. /\ n + 1 \in 1..top /\ n + 2 \in 1..top /\ (n + 1) - 1 = n /\ (n + 2) - 1 = n + 1
        /\ (n + 1) + 1 = n + 2 /\ n + 1 \in 0..(N + 1)
    BY <1>1, <1>4, <1>9
  <2> SUFFICES ASSUME NEW x \in Situations, LeftFrom(x) < n + 1 PROVE g[n + 2][x] = g[n + 1][x]
    BY <2>0
  <2>1. g[n + 1][x] = Outcome(g[n], x) /\ g[n + 2][x] = Outcome(g[n + 1], x)
    BY <1>7, <2>0
  <2>2. CASE ToFollow(x)
    <3>1. Onward(x) \in Situations /\ LeftFrom(Onward(x)) < n
      BY <2>2, AfterFits
    <3>2. g[n + 1][Onward(x)] = g[n][Onward(x)]
      BY <1>9, <3>1
    <3> QED
      BY <2>1, <2>2, <3>2 DEF Outcome
  <2>3. CASE ~ToFollow(x)
    BY <2>1, <2>3 DEF Outcome
  <2> QED
    BY <2>2, <2>3
<1>10. 0..(N + 1) \subseteq S
  <2>1. N + 1 \in Nat
    BY <1>1
  <2> HIDE DEF S
  <2> QED
    BY <1>8, <1>9, <2>1, AllUpTo
<1>11. ASSUME NEW x \in Situations PROVE g[N + 1][x] = Outcome(g[N + 1], x)
  <2>1. N + 1 \in S /\ N + 2 \in 1..top /\ (N + 2) - 1 = N + 1 /\ (N + 1) + 1 = N + 2
    BY <1>1, <1>4, <1>10
  <2>2. LeftFrom(x) < N + 1
    BY <1>1, AfterFits
  <2>3. g[N + 2][x] = g[N + 1][x]
    BY <2>1, <2>2
  <2> QED
    BY <1>7, <2>1, <2>3
<1>12. g[N + 1] \in D
  BY <1>1, <1>4, <1>7
<1> QED
  BY <1>11, <1>12

LEMMA ResolvingRecurs ==
  ASSUME LinksFit
  PROVE  \A x \in Situations : Resolving[x] = Outcome(Resolving, x)
<1> DEFINE Is(f) == f = [x \in Seq(Parts) \X SUBSET DOMAIN symlinks |->
             IF LinksOf(x[1]) = {} THEN {x[1]}
             ELSE IF LinkOf(x[1]) \in x[2] \/ Cardinality(x[2]) >= MaxFollowed THEN {}
             ELSE f[<<Followed(x[1]), x[2] \union {LinkOf(x[1])}>>]]
<1>1. PICK f \in [Situations -> SUBSET Seq(Parts)] : \A x \in Situations : f[x] = Outcome(f, x)
  BY ResolutionExists
<1>2. f = [x \in Situations |-> f[x]]
  OBVIOUS
<1>3. Is(f)
  <2>1. \A x \in Situations :
          f[x] = IF LinksOf(x[1]) = {} THEN {x[1]}
                 ELSE IF LinkOf(x[1]) \in x[2] \/ Cardinality(x[2]) >= MaxFollowed THEN {}
                 ELSE f[<<Followed(x[1]), x[2] \union {LinkOf(x[1])}>>]
    BY <1>1 DEF Outcome, ToFollow, Onward, Ends
  <2> QED
    BY <1>2, <2>1 DEF Situations
<1>4. Resolving = CHOOSE h : Is(h)
  BY DEF Resolving
<1>5. Is(Resolving)
  <2> HIDE DEF Is
  <2> QED
    BY <1>3, <1>4
<1> QED
  BY <1>5 DEF Situations, Outcome, ToFollow, Onward, Ends

(* What a path resolves to has no link in it.                                *)
LEMMA ResolvedHasNoLinks ==
  ASSUME LinksFit
  PROVE  \A x \in Situations : \A r \in Resolving[x] : LinksOf(r) = {}
<1>1. PICK N \in Nat : N = Cardinality(DOMAIN symlinks)
  BY FS_CardinalityType DEF LinksFit
<1>2. ASSUME NEW x \in Situations, ~ToFollow(x), NEW r \in Resolving[x] PROVE LinksOf(r) = {}
  BY <1>2, ResolvingRecurs DEF Outcome, Ends
<1> DEFINE S == {n \in 0..N : \A x \in Situations :
                   LeftFrom(x) <= n => \A r \in Resolving[x] : LinksOf(r) = {}}
<1>3. 0 \in S
  <2> SUFFICES ASSUME NEW x \in Situations, LeftFrom(x) <= 0 PROVE ~ToFollow(x)
    BY <1>1, <1>2
  <2> QED
    BY AfterFits
<1>4. ASSUME NEW n \in Nat, n \in S, n < N PROVE n + 1 \in S
  <2>0. n + 1 \in 0..N
    BY <1>1, <1>4
  <2> SUFFICES ASSUME NEW x \in Situations, LeftFrom(x) <= n + 1, NEW r \in Resolving[x]
               PROVE  LinksOf(r) = {}
    BY <2>0
  <2>1. CASE ToFollow(x)
    <3>1. Onward(x) \in Situations /\ LeftFrom(Onward(x)) <= n
      BY <2>1, AfterFits
    <3>2. r \in Resolving[Onward(x)]
      BY <2>1, ResolvingRecurs DEF Outcome
    <3> QED
      BY <1>4, <3>1, <3>2
  <2> QED
    BY <1>2, <2>1
<1>5. 0..N \subseteq S
  <2> HIDE DEF S
  <2> QED
    BY <1>1, <1>3, <1>4, AllUpTo
<1> SUFFICES ASSUME NEW x \in Situations PROVE \A r \in Resolving[x] : LinksOf(r) = {}
  OBVIOUS
<1>6. LeftFrom(x) \in Nat /\ LeftFrom(x) <= N
  BY <1>1, AfterFits
<1>7. N \in S
  BY <1>1, <1>5
<1> QED
  BY <1>6, <1>7

LEMMA Resolved ==
  ASSUME LinksFit, NEW p \in Paths, NEW r \in Resolution[p]
  PROVE  r \in Paths /\ r \notin DOMAIN symlinks
<1>1. r \in Paths /\ r \in Resolving[<<p, {}>>]
  BY DEF Resolution
<1>2. <<p, {}>> \in Situations
  BY PathsAreNamed DEF Situations
<1>3. LinksOf(r) = {}
  BY <1>1, <1>2, ResolvedHasNoLinks
<1>4. ASSUME r \in DOMAIN symlinks PROVE FALSE
  <2>1. r \in Seq(Parts) /\ r # Root
    BY <1>4, PathsAreNamed DEF LinksFit
  <2>2. Len(r) \in 1..Len(r) /\ UpTo(r, Len(r)) = r
    BY <2>1, ParentOf
  <2>3. Len(r) \in LinksOf(r)
    BY <1>4, <2>2 DEF LinksOf
  <2> QED
    BY <1>3, <2>3
<1> QED
  BY <1>1, <1>4

-----------------------------------------------------------------------------
(* The tree.  The descriptors' paths, all of them in `opened`, say which files *)
(* may be without a directory.                                               *)
TreeInv ==
  /\ files \subseteq Paths \ {Root} /\ dirs \subseteq Paths /\ Root \in dirs
  /\ opened \subseteq Paths \ {Root} /\ LinksFit
  /\ EntriesAreReachable /\ OnlyDescriptorsStray /\ PathsHaveOneKind

LEMMA EnsureDirFacts ==
  ASSUME TreeInv, NEW p \in Paths
  PROVE  /\ dirs \subseteq EnsureDir(p) /\ EnsureDir(p) \subseteq Paths
         /\ \A q \in EnsureDir(p) \ dirs :
              /\ q \notin files /\ q \notin DOMAIN symlinks /\ Len(q) <= Len(p)
              /\ Parent(q) \in EnsureDir(p)
         /\ IsEnsured(p) => p \in EnsureDir(p)
<1>1. p \in Seq(Parts) /\ Len(p) \in Nat
  BY PathsAreNamed
<1>2. PICK K : K = {k \in 0..Len(p) : \A m \in InTheWay(p) : k < m}
  OBVIOUS
<1>3. EnsureDir(p) = dirs \union {UpTo(p, n) : n \in K}
  BY <1>2 DEF EnsureDir
<1>4. \A n \in K : UpTo(p, n) \in Paths
  BY <1>2, PrefixesArePaths
<1>5. ASSUME NEW n \in K, UpTo(p, n) \notin dirs
      PROVE  /\ UpTo(p, n) \notin files /\ UpTo(p, n) \notin DOMAIN symlinks
             /\ Len(UpTo(p, n)) <= Len(p) /\ Parent(UpTo(p, n)) \in EnsureDir(p)
  <2>1. n \in 0..Len(p) /\ \A m \in InTheWay(p) : n < m
    BY <1>2
  <2>2. n # 0
    <3>1. n = 0 => UpTo(p, n) = Root
      BY SubSeqEmpty DEF UpTo, Root
    <3> QED
      BY <1>5, <3>1 DEF TreeInv
  <2>3. n \in 1..Len(p) /\ n \notin InTheWay(p)
    BY <1>1, <2>1, <2>2
  <2>4. n - 1 \in K
    <3>1. \A m \in InTheWay(p) : m \in Nat
      BY DEF InTheWay
    <3> QED
      BY <1>1, <1>2, <2>1, <2>3, <3>1
  <2>5. Parent(UpTo(p, n)) = UpTo(p, n - 1) /\ Len(UpTo(p, n)) = n
    BY <1>1, <2>1, <2>3, ParentOfPrefix, PrefixOf
  <2> QED
    BY <1>1, <1>3, <2>3, <2>4, <2>5 DEF InTheWay
<1>6. IsEnsured(p) => p \in EnsureDir(p)
  <2>1. UpTo(p, Len(p)) = p
    BY <1>1, SubSeqFull DEF UpTo
  <2>2. IsEnsured(p) => Len(p) \in K
    BY <1>1, <1>2 DEF IsEnsured
  <2> QED
    BY <1>3, <2>1, <2>2
<1>7. dirs \subseteq Paths
  BY DEF TreeInv
<1> QED
  BY <1>3, <1>4, <1>5, <1>6, <1>7

(* Directories made, with a file or a link in the last one if all were made.    *)
LEMMA EnsuredStep ==
  ASSUME TreeInv, NEW p \in Paths, dirs' = EnsureDir(p),
         NEW fs, NEW ls, files' \subseteq files \union fs, fs \subseteq Paths \ {Root},
         DOMAIN symlinks' \subseteq DOMAIN symlinks \union ls, LinksFit',
         opened \subseteq opened', opened' \subseteq Paths \ {Root}, renamed \subseteq renamed',
         \A q \in fs : (Parent(q) \in dirs' \/ q \in opened') /\ (q \in renamed' \union opened' \/
                         (q \notin dirs' /\ q \notin DOMAIN symlinks')),
         \A q \in ls : Parent(q) \in dirs' /\ (q \in renamed' \/ (q \notin files' /\ q \notin dirs'))
  PROVE  TreeInv'
<1>1. /\ dirs \subseteq dirs' /\ dirs' \subseteq Paths
      /\ \A q \in dirs' \ dirs :
           q \notin files /\ q \notin DOMAIN symlinks /\ Parent(q) \in dirs'
  BY EnsureDirFacts
<1>2. /\ files \subseteq Paths \ {Root} /\ dirs \subseteq Paths /\ Root \in dirs
      /\ opened \subseteq Paths \ {Root} /\ LinksFit
      /\ EntriesAreReachable /\ OnlyDescriptorsStray /\ PathsHaveOneKind
  BY DEF TreeInv
<1>3. EntriesAreReachable'
  BY <1>1, <1>2 DEF EntriesAreReachable
<1>4. OnlyDescriptorsStray'
  BY <1>1, <1>2 DEF OnlyDescriptorsStray
<1>5. PathsHaveOneKind'
  <2>1. ASSUME NEW q \in files', q \in dirs' PROVE q \in renamed' \union opened'
    BY <1>1, <1>2, <2>1 DEF PathsHaveOneKind
  <2>2. ASSUME NEW q \in files', q \in DOMAIN symlinks' PROVE q \in renamed' \union opened'
    BY <1>2, <2>2 DEF PathsHaveOneKind
  <2>3. ASSUME NEW q \in dirs', q \in DOMAIN symlinks' PROVE q \in renamed'
    BY <1>1, <1>2, <2>3 DEF PathsHaveOneKind
  <2> QED
    BY <2>1, <2>2, <2>3 DEF PathsHaveOneKind
<1> QED
  BY <1>1, <1>2, <1>3, <1>4, <1>5 DEF TreeInv

LEMMA PathParent ==
  ASSUME NEW q \in Paths, q # Root
  PROVE  /\ Parent(q) \in Paths /\ q \in Seq(Parts)
         /\ Len(q) \in Nat /\ Len(Parent(q)) = Len(q) - 1
<1>1. q \in Seq(Parts)
  BY PathsAreNamed
<1>2. Parent(q) \in Paths
  BY FilesConstants
<1> QED
  BY <1>1, <1>2, ParentOf

LEMMA RootIsThere ==
  ASSUME TreeInv
  PROVE  EnsureDir(Root) = dirs
<1>1. Len(Root) = 0 /\ UpTo(Root, 0) = Root
  <2>1. Len(Root) = 0
    BY EmptySeq DEF Root
  <2>2. UpTo(Root, 0) = Root
    BY SubSeqEmpty DEF UpTo, Root
  <2> QED
    BY <2>1, <2>2
<1>2. \A n \in 0..Len(Root) : UpTo(Root, n) = Root
  BY <1>1
<1> QED
  BY <1>2 DEF EnsureDir, TreeInv

LEMMA MakeFileKeeps ==
  ASSUME TreeInv, NEW r \in Paths, r \notin dirs, r \notin DOMAIN symlinks, MakeFile(r),
         symlinks' = symlinks, renamed' = renamed,
         opened \subseteq opened', opened' \subseteq Paths \ {Root}
  PROVE  TreeInv'
<1>1. r # Root /\ LinksFit
  BY DEF TreeInv
<1>2. Parent(r) \in Paths /\ Len(r) \in Nat /\ Len(Parent(r)) = Len(r) - 1
  BY <1>1, PathParent
<1>3. dirs' = EnsureDir(Parent(r)) /\ LinksFit'
  BY <1>1 DEF MakeFile, LinksFit
<1>4. r \notin dirs'
  <2>1. \A q \in dirs' \ dirs : Len(q) <= Len(Parent(r))
    BY <1>2, <1>3, EnsureDirFacts
  <2> QED
    BY <1>2, <2>1
<1>5. PICK fs : fs = IF IsEnsured(Parent(r)) THEN {r} ELSE {}
  OBVIOUS
<1>6. files' = files \union fs
  BY <1>5 DEF MakeFile
<1>7. IsEnsured(Parent(r)) => Parent(r) \in dirs'
  BY <1>2, <1>3, EnsureDirFacts
<1>8. fs \subseteq Paths \ {Root} /\ \A q \in fs : Parent(q) \in dirs' /\ q \notin dirs' /\ q \notin DOMAIN symlinks'
  BY <1>1, <1>4, <1>5, <1>7
<1>9. PICK none : none = {}
  OBVIOUS
<1>10. \A q \in none : Parent(q) \in dirs' /\ (q \in renamed' \/ (q \notin files' /\ q \notin dirs'))
  BY <1>9
<1>11. files' \subseteq files \union fs /\ DOMAIN symlinks' \subseteq DOMAIN symlinks \union none
  BY <1>6
<1>12. \A q \in fs : (Parent(q) \in dirs' \/ q \in opened') /\ (q \in renamed' \union opened' \/
                       (q \notin dirs' /\ q \notin DOMAIN symlinks'))
  BY <1>8
<1>13. renamed \subseteq renamed'
  OBVIOUS
<1> QED
  BY ONLY <1>2, <1>3, <1>8, <1>10, <1>11, <1>12, <1>13, TreeInv, opened \subseteq opened',
     opened' \subseteq Paths \ {Root}, EnsuredStep

(* The directories are as they were, and nothing is new but the files `fs` and  *)
(* the links `ls`.                                                           *)
LEMMA SameDirs ==
  ASSUME TreeInv, dirs' = dirs,
         NEW fs, NEW ls, files' \subseteq files \union fs, fs \subseteq Paths \ {Root},
         DOMAIN symlinks' \subseteq DOMAIN symlinks \union ls, LinksFit',
         opened \subseteq opened', opened' \subseteq Paths \ {Root}, renamed \subseteq renamed',
         fs \subseteq opened',
         \A q \in ls : Parent(q) \in dirs /\ q \notin files' /\ q \notin dirs
  PROVE  TreeInv'
<1>1. dirs' = EnsureDir(Root) /\ Root \in Paths
  BY RootIsThere, PathsAreNamed
<1>2. \A q \in fs : (Parent(q) \in dirs' \/ q \in opened') /\ (q \in renamed' \union opened' \/
                       (q \notin dirs' /\ q \notin DOMAIN symlinks'))
  OBVIOUS
<1>3. \A q \in ls : Parent(q) \in dirs' /\ (q \in renamed' \/ (q \notin files' /\ q \notin dirs'))
  OBVIOUS
<1> QED
  BY <1>1, <1>2, <1>3, EnsuredStep

(* What is left when a directory is removed has its own still.                *)
LEMMA OutsideStays ==
  ASSUME TreeInv, NEW p \in Paths, NEW q \in (files \union dirs \union DOMAIN symlinks) \ {Root},
         q \notin Below(p)
  PROVE  Parent(q) # p /\ Parent(q) \notin Below(p)
<1>1. q \in Paths /\ p \in Seq(Parts) /\ q \in Seq(Parts)
  BY PathsAreNamed DEF TreeInv, LinksFit
<1>2. Parent(q) # p /\ ~IsStrictPrefix(p, Parent(q))
  BY <1>1, BelowParent DEF Below
<1> QED
  BY <1>2 DEF Below

LEMMA RmdirKeeps ==
  ASSUME TreeInv, NEW p \in Paths, Rmdir(p)
  PROVE  TreeInv'
<1>1. /\ p # Root /\ Below(p) = {} /\ dirs' = dirs \ {p} /\ files' = files /\ symlinks' = symlinks
      /\ opened' = opened /\ renamed' = renamed
  BY DEF Rmdir, fdVars
<1>2. /\ files \subseteq Paths \ {Root} /\ dirs \subseteq Paths /\ Root \in dirs
      /\ opened \subseteq Paths \ {Root} /\ LinksFit
      /\ EntriesAreReachable /\ OnlyDescriptorsStray /\ PathsHaveOneKind
  BY DEF TreeInv
<1>3. \A q \in (files \union dirs \union DOMAIN symlinks) \ {Root} : Parent(q) # p
  BY <1>1, OutsideStays
<1>4. EntriesAreReachable'
  BY <1>1, <1>2, <1>3 DEF EntriesAreReachable
<1>5. OnlyDescriptorsStray'
  BY <1>1, <1>2, <1>3 DEF OnlyDescriptorsStray
<1>6. PathsHaveOneKind'
  BY <1>1, <1>2 DEF PathsHaveOneKind
<1>7. LinksFit'
  BY <1>1, <1>2 DEF LinksFit
<1> QED
  BY <1>1, <1>2, <1>4, <1>5, <1>6, <1>7 DEF TreeInv

(* Links that are dropped leave links.                                        *)
LEMMA DroppedLinks ==
  ASSUME LinksFit, NEW S, symlinks' = Drop(symlinks, S)
  PROVE  LinksFit' /\ DOMAIN symlinks' = DOMAIN symlinks \ S
<1>1. DOMAIN symlinks' = DOMAIN symlinks \ S
  BY DEF Drop
<1>2. IsFiniteSet(DOMAIN symlinks \ S)
  BY FS_Subset DEF LinksFit
<1>3. symlinks' \in [DOMAIN symlinks \ S -> Paths]
  BY DEF Drop, LinksFit
<1> QED
  BY <1>1, <1>2, <1>3 DEF LinksFit

LEMMA RmTreeKeeps ==
  ASSUME TreeInv, NEW p \in Paths, RmTree(p)
  PROVE  TreeInv'
<1>1. PICK gone : gone = {p} \union Below(p)
  OBVIOUS
<1>2. /\ files' = files \ Below(p) /\ dirs' = (dirs \ gone) \union {Root}
      /\ symlinks' = Drop(symlinks, gone) /\ p \notin files
      /\ opened' = opened /\ renamed' = renamed
  BY <1>1 DEF RmTree, fdVars
<1>3. /\ files \subseteq Paths \ {Root} /\ dirs \subseteq Paths /\ Root \in dirs
      /\ opened \subseteq Paths \ {Root} /\ LinksFit
      /\ EntriesAreReachable /\ OnlyDescriptorsStray /\ PathsHaveOneKind
  BY DEF TreeInv
<1>4. LinksFit' /\ DOMAIN symlinks' = DOMAIN symlinks \ gone
  BY <1>2, <1>3, DroppedLinks
<1>5. ASSUME NEW q \in (files \union dirs \union DOMAIN symlinks) \ {Root}, q \notin Below(p)
      PROVE  Parent(q) \in dirs => Parent(q) \in dirs'
  BY <1>1, <1>2, <1>5, OutsideStays
<1>6. dirs' \subseteq dirs
  BY <1>2, <1>3
<1>7. EntriesAreReachable'
  <2> SUFFICES ASSUME NEW q \in (dirs' \union DOMAIN symlinks') \ {Root} PROVE Parent(q) \in dirs'
    BY DEF EntriesAreReachable
  <2>1. q \in (dirs \union DOMAIN symlinks) \ {Root} /\ q \notin Below(p)
    BY <1>1, <1>2, <1>4, <1>6
  <2>2. Parent(q) \in dirs
    BY <1>3, <2>1 DEF EntriesAreReachable
  <2> QED
    BY <1>5, <2>1, <2>2
<1>8. OnlyDescriptorsStray'
  <2> SUFFICES ASSUME NEW q \in files' PROVE Parent(q) \in dirs' \/ q \in opened'
    BY DEF OnlyDescriptorsStray
  <2>1. q \in files /\ q # Root /\ q \notin Below(p)
    BY <1>2, <1>3
  <2>2. Parent(q) \in dirs \/ q \in opened
    BY <1>3, <2>1 DEF OnlyDescriptorsStray
  <2> QED
    BY <1>2, <1>5, <2>1, <2>2
<1>9. PathsHaveOneKind'
  BY <1>2, <1>3, <1>4, <1>6 DEF PathsHaveOneKind
<1> QED
  BY <1>2, <1>3, <1>4, <1>6, <1>7, <1>8, <1>9 DEF TreeInv

LEMMA WriteFileKeeps ==
  ASSUME TreeInv, NEW p \in Paths, WriteFile(p)
  PROVE  TreeInv'
<1>1. PICK r \in Resolution[p] : ~IsDir(r) /\ MakeFile(r) /\ UNCHANGED <<symlinks, fdVars, renamed>>
  BY DEF WriteFile
<1>2. r \in Paths /\ r \notin DOMAIN symlinks
  BY Resolved DEF TreeInv
<1>3. r \notin dirs /\ symlinks' = symlinks /\ renamed' = renamed /\ opened' = opened
  BY <1>1 DEF IsDir, fdVars
<1>4. opened \subseteq opened' /\ opened' \subseteq Paths \ {Root}
  BY <1>3 DEF TreeInv
<1> QED
  BY <1>1, <1>2, <1>3, <1>4, MakeFileKeeps

LEMMA MkdirKeeps ==
  ASSUME TreeInv, NEW p \in Paths, Mkdir(p)
  PROVE  TreeInv'
<1>1. PICK r \in Resolution[p] : dirs' = EnsureDir(r) /\ UNCHANGED <<files, symlinks, fdVars, renamed>>
  BY DEF Mkdir
<1>2. r \in Paths
  BY Resolved DEF TreeInv
<1>3. files' = files /\ symlinks' = symlinks /\ renamed' = renamed /\ opened' = opened
  BY <1>1 DEF fdVars
<1>4. PICK none : none = {}
  OBVIOUS
<1>5. /\ opened \subseteq opened' /\ opened' \subseteq Paths \ {Root} /\ LinksFit'
      /\ renamed \subseteq renamed'
      /\ files' \subseteq files \union none /\ DOMAIN symlinks' \subseteq DOMAIN symlinks \union none
      /\ none \subseteq Paths \ {Root}
  BY <1>3, <1>4 DEF TreeInv, LinksFit
<1>6. /\ \A q \in none : (Parent(q) \in dirs' \/ q \in opened') /\ (q \in renamed' \union opened' \/
                       (q \notin dirs' /\ q \notin DOMAIN symlinks'))
      /\ \A q \in none : Parent(q) \in dirs' /\ (q \in renamed' \/ (q \notin files' /\ q \notin dirs'))
  BY <1>4
<1> QED
  BY ONLY <1>1, <1>2, <1>5, <1>6, TreeInv, EnsuredStep

LEMMA SymlinkKeeps ==
  ASSUME TreeInv, NEW p \in Paths, NEW target \in Paths, Symlink(target, p)
  PROVE  TreeInv'
<1>1. /\ p # Root /\ Parent(p) \in dirs /\ p \notin files \union dirs \union DOMAIN symlinks
      /\ symlinks' = [q \in DOMAIN symlinks \union {p} |-> IF q = p THEN target ELSE symlinks[q]]
      /\ files' = files /\ dirs' = dirs /\ renamed' = renamed /\ opened' = opened
  BY DEF Symlink, fdVars
<1>2. LinksFit
  BY DEF TreeInv
<1>3. DOMAIN symlinks' = DOMAIN symlinks \union {p}
  BY <1>1
<1>4. LinksFit'
  <2>1. symlinks' \in [DOMAIN symlinks \union {p} -> Paths]
    BY <1>1, <1>2 DEF LinksFit
  <2>2. IsFiniteSet(DOMAIN symlinks \union {p})
    BY <1>2, FS_AddElement DEF LinksFit
  <2> QED
    BY <1>1, <1>2, <1>3, <2>1, <2>2 DEF LinksFit
<1>5. PICK none, ls : none = {} /\ ls = {p}
  OBVIOUS
<1>6. /\ opened \subseteq opened' /\ opened' \subseteq Paths \ {Root} /\ renamed \subseteq renamed'
      /\ files' \subseteq files \union none /\ DOMAIN symlinks' \subseteq DOMAIN symlinks \union ls
      /\ none \subseteq Paths \ {Root} /\ none \subseteq opened'
      /\ \A q \in ls : Parent(q) \in dirs /\ q \notin files' /\ q \notin dirs
  BY <1>1, <1>3, <1>5 DEF TreeInv
<1>7. dirs' = dirs
  BY <1>1
<1> QED
  BY ONLY <1>4, <1>6, <1>7, TreeInv, SameDirs

(* Nothing is new but files that descriptors know.                           *)
LEMMA NoNewEntries ==
  ASSUME TreeInv, dirs' = dirs, NEW fs, files' \subseteq files \union fs, fs \subseteq opened',
         LinksFit', DOMAIN symlinks' \subseteq DOMAIN symlinks,
         opened \subseteq opened', opened' \subseteq Paths \ {Root}, renamed \subseteq renamed'
  PROVE  TreeInv'
<1>1. PICK none : none = {}
  OBVIOUS
<1>2. /\ DOMAIN symlinks' \subseteq DOMAIN symlinks \union none /\ fs \subseteq Paths \ {Root}
      /\ \A q \in none : Parent(q) \in dirs /\ q \notin files' /\ q \notin dirs
  BY <1>1
<1> QED
  BY <1>2, SameDirs

LEMMA RemovalsKeep ==
  ASSUME TreeInv, NEW p \in Paths, Unlink(p) \/ RmFile(p)
  PROVE  TreeInv'
<1>1. PICK none : none = {}
  OBVIOUS
<1>2. /\ dirs' = dirs /\ renamed' = renamed /\ opened' = opened /\ files' \subseteq files \union none
      /\ none \subseteq opened'
      /\ symlinks' = symlinks \/ symlinks' = Drop(symlinks, {p})
  BY <1>1 DEF Unlink, RmFile, fdVars
<1>3. LinksFit' /\ DOMAIN symlinks' \subseteq DOMAIN symlinks
  <2>1. CASE symlinks' = symlinks
    BY <2>1 DEF TreeInv, LinksFit
  <2>2. CASE symlinks' = Drop(symlinks, {p})
    BY <2>2, DroppedLinks DEF TreeInv
  <2> QED
    BY <1>2, <2>1, <2>2
<1>4. opened \subseteq opened' /\ opened' \subseteq Paths \ {Root} /\ renamed \subseteq renamed'
  BY <1>2 DEF TreeInv
<1> QED
  BY <1>2, <1>3, <1>4, NoNewEntries

LEMMA RenameKeeps ==
  ASSUME TreeInv, NEW p \in Paths, NEW q \in Paths, Rename(p, q)
  PROVE  TreeInv'
<1>1. /\ p \in files \union DOMAIN symlinks /\ q # Root /\ dirs' = EnsureDir(Parent(q))
      /\ opened' = opened
  BY DEF Rename, fdVars
<1>2. Parent(q) \in Paths /\ LinksFit
  BY <1>1, PathParent DEF TreeInv
<1>3. opened \subseteq opened' /\ opened' \subseteq Paths \ {Root}
  BY <1>1 DEF TreeInv
<1>4. PICK none, one : none = {} /\ one = {q}
  OBVIOUS
<1>5. CASE ~IsEnsured(Parent(q))
  <2>1. files' = files /\ symlinks' = symlinks /\ renamed' = renamed
    BY <1>5 DEF Rename
  <2>2. /\ LinksFit' /\ renamed \subseteq renamed'
        /\ files' \subseteq files \union none /\ DOMAIN symlinks' \subseteq DOMAIN symlinks \union none
        /\ none \subseteq Paths \ {Root}
    BY <1>2, <1>4, <2>1 DEF LinksFit
  <2>3. /\ \A x \in none : (Parent(x) \in dirs' \/ x \in opened') /\ (x \in renamed' \union opened' \/
                       (x \notin dirs' /\ x \notin DOMAIN symlinks'))
        /\ \A x \in none : Parent(x) \in dirs' /\ (x \in renamed' \/ (x \notin files' /\ x \notin dirs'))
    BY <1>4
  <2> QED
    BY ONLY <1>1, <1>2, <1>3, <2>2, <2>3, TreeInv, EnsuredStep
<1>6. CASE IsEnsured(Parent(q))
  <2>1. Parent(q) \in dirs' /\ renamed' = renamed \union {q}
    BY <1>1, <1>2, <1>6, EnsureDirFacts DEF Rename
  <2>2. files' \subseteq files \union one /\ LinksFit' /\ DOMAIN symlinks' \subseteq DOMAIN symlinks \union one
    <3>1. CASE p \in DOMAIN symlinks
      <4>1. /\ files' = files
            /\ symlinks' = [x \in (DOMAIN symlinks \union {q}) \ {p} |->
                              IF x = q THEN symlinks[p] ELSE symlinks[x]]
        BY <1>6, <3>1 DEF Rename
      <4>2. DOMAIN symlinks' = (DOMAIN symlinks \union {q}) \ {p}
        BY <4>1
      <4>3. IsFiniteSet((DOMAIN symlinks \union {q}) \ {p})
        <5>1. IsFiniteSet(DOMAIN symlinks \union {q})
          BY <1>2, FS_AddElement DEF LinksFit
        <5> QED
          BY <5>1, FS_Subset
      <4>4. symlinks' \in [(DOMAIN symlinks \union {q}) \ {p} -> Paths]
        BY <1>2, <3>1, <4>1 DEF LinksFit
      <4> QED
        BY <1>1, <1>2, <1>4, <4>1, <4>2, <4>3, <4>4 DEF LinksFit
    <3>2. CASE p \notin DOMAIN symlinks
      <4>1. files' = (files \union {q}) \ {p} /\ symlinks' = symlinks
        BY <1>6, <3>2 DEF Rename
      <4> QED
        BY <1>2, <1>4, <4>1 DEF LinksFit
    <3> QED
      BY <3>1, <3>2
  <2>3. renamed \subseteq renamed' /\ one \subseteq Paths \ {Root}
    BY <1>1, <1>4, <2>1
  <2>4. /\ \A x \in one : (Parent(x) \in dirs' \/ x \in opened') /\ (x \in renamed' \union opened' \/
                       (x \notin dirs' /\ x \notin DOMAIN symlinks'))
        /\ \A x \in one : Parent(x) \in dirs' /\ (x \in renamed' \/ (x \notin files' /\ x \notin dirs'))
    BY <1>4, <2>1
  <2> QED
    BY ONLY <1>1, <1>2, <1>3, <2>2, <2>3, <2>4, TreeInv, EnsuredStep
<1> QED
  BY <1>5, <1>6

LEMMA TreeStands ==
  ASSUME TreeInv, UNCHANGED treeVars, renamed' = renamed,
         opened \subseteq opened', opened' \subseteq Paths \ {Root}
  PROVE  TreeInv'
<1>1. PICK none : none = {}
  OBVIOUS
<1>2. /\ dirs' = dirs /\ files' \subseteq files \union none /\ none \subseteq opened'
      /\ LinksFit' /\ DOMAIN symlinks' \subseteq DOMAIN symlinks /\ renamed \subseteq renamed'
  BY <1>1 DEF treeVars, TreeInv, LinksFit
<1> QED
  BY <1>2, NoNewEntries

-----------------------------------------------------------------------------
(* Descriptors.  That numbers are never given out again keeps a stream or a    *)
(* handle from another's descriptor.                                         *)
Streams == [kind : {"stream", "handle"}, fd : 0..MaxDescriptors, closed : BOOLEAN]

FdInv ==
  /\ nextFd \in 0..MaxDescriptors /\ DOMAIN fds \subseteq 0..(nextFd - 1)
  /\ \A d \in DOMAIN fds : fds[d].path \in opened
  /\ owners \in Seq(Streams) /\ \A i \in 1..Len(owners) : owners[i].fd < nextFd
  /\ DescriptorsAreOwned

LEMMA FdsStand ==
  ASSUME FdInv, UNCHANGED fdVars
  PROVE  FdInv'
  BY DEF FdInv, fdVars, DescriptorsAreOwned, HasItsOwn

LEMMA WriteThroughKeeps ==
  ASSUME TreeInv, FdInv, NEW fd, WriteThrough(fd), opened' = opened, renamed' = renamed
  PROVE  TreeInv'
<1>1. PICK fs : fs = {fds[fd].path}
  OBVIOUS
<1>2. /\ dirs' = dirs /\ files' \subseteq files \union fs /\ fs \subseteq opened'
      /\ LinksFit' /\ DOMAIN symlinks' \subseteq DOMAIN symlinks /\ renamed \subseteq renamed'
      /\ opened \subseteq opened' /\ opened' \subseteq Paths \ {Root}
  BY <1>1 DEF WriteThrough, FdInv, TreeInv, LinksFit
<1> QED
  BY <1>2, NoNewEntries

LEMMA CloseFdKeeps ==
  ASSUME TreeInv, FdInv, NEW fd \in DOMAIN fds, CloseFd(fd)
  PROVE  TreeInv' /\ FdInv'
<1>1. /\ fds' = Drop(fds, {fd}) /\ UNCHANGED treeVars /\ renamed' = renamed
      /\ nextFd' = nextFd /\ owners' = owners /\ opened' = opened
  BY DEF CloseFd
<1>2. DOMAIN fds' = DOMAIN fds \ {fd} /\ \A d \in DOMAIN fds' : fds'[d] = fds[d]
  BY <1>1 DEF Drop
<1>3. FdInv'
  BY <1>1, <1>2 DEF FdInv, DescriptorsAreOwned, HasItsOwn
<1>4. opened \subseteq opened' /\ opened' \subseteq Paths \ {Root}
  BY <1>1 DEF TreeInv
<1> QED
  BY <1>1, <1>3, <1>4, TreeStands

LEMMA CloseOwnedKeeps ==
  ASSUME FdInv, NEW i \in DOMAIN owners, CloseOwned(i)
  PROVE  FdInv' /\ opened' = opened /\ renamed' = renamed
<1>1. /\ owners' = [owners EXCEPT ![i].closed = TRUE]
      /\ fds' = IF HasItsOwn(i) THEN Drop(fds, {owners[i].fd}) ELSE fds
      /\ nextFd' = nextFd /\ opened' = opened /\ renamed' = renamed
  BY DEF CloseOwned
<1>2. owners \in Seq(Streams) /\ i \in 1..Len(owners) /\ DOMAIN owners = 1..Len(owners)
  BY DEF FdInv
<1>3. PICK s : s = [owners[i] EXCEPT !.closed = TRUE]
  OBVIOUS
<1>4. owners[i] \in Streams
  BY <1>2, ElementOfSeq
<1>5. s \in Streams /\ s.fd = owners[i].fd /\ s.closed = TRUE
  BY <1>3, <1>4 DEF Streams
<1>6. owners' = [owners EXCEPT ![i] = s]
  BY <1>1, <1>3
<1>7. /\ owners' \in Seq(Streams) /\ Len(owners') = Len(owners)
      /\ \A j \in 1..Len(owners) : owners'[j] = IF j = i THEN s ELSE owners[j]
  BY <1>2, <1>5, <1>6, ExceptSeq
<1>8. \A j \in 1..Len(owners) : owners'[j].fd = owners[j].fd
  BY <1>5, <1>7
<1>9. /\ DOMAIN fds' \subseteq DOMAIN fds /\ owners[i].fd \notin DOMAIN fds'
      /\ \A d \in DOMAIN fds' : fds'[d] = fds[d]
  <2>1. CASE HasItsOwn(i)
    BY <1>1, <2>1 DEF Drop
  <2>2. CASE ~HasItsOwn(i)
    BY <1>1, <2>2 DEF FdInv, DescriptorsAreOwned
  <2> QED
    BY <2>1, <2>2
<1>10. DescriptorsAreOwned'
  <2> SUFFICES ASSUME NEW j \in DOMAIN owners', owners'[j].fd \in DOMAIN fds'
               PROVE  /\ ~owners'[j].closed
                      /\ owners'[j].fd \in DOMAIN fds' /\ fds'[owners'[j].fd].owner = j
    BY DEF DescriptorsAreOwned, HasItsOwn
  <2>1. j \in 1..Len(owners) /\ j # i
    BY <1>7, <1>8, <1>9
  <2>2. owners'[j] = owners[j] /\ owners[j].fd \in DOMAIN fds
    BY <1>7, <1>8, <1>9, <2>1
  <2>3. ~owners[j].closed /\ fds[owners[j].fd].owner = j
    BY <1>2, <2>1, <2>2 DEF FdInv, DescriptorsAreOwned, HasItsOwn
  <2> QED
    BY <1>9, <2>2, <2>3
<1>11. nextFd' \in 0..MaxDescriptors /\ DOMAIN fds' \subseteq 0..(nextFd' - 1)
  BY <1>1, <1>9 DEF FdInv
<1>12. \A d \in DOMAIN fds' : fds'[d].path \in opened'
  BY <1>1, <1>9 DEF FdInv
<1>13. \A j \in 1..Len(owners') : owners'[j].fd < nextFd'
  <2>1. \A j \in 1..Len(owners) : owners[j].fd < nextFd
    BY DEF FdInv
  <2> QED
    BY ONLY <1>1, <1>7, <1>8, <2>1
<1> QED
  BY ONLY <1>1, <1>7, <1>10, <1>11, <1>12, <1>13 DEF FdInv

LEMMA OwnersKeep ==
  ASSUME TreeInv, FdInv, NEW i \in DOMAIN owners,
         EndStream(i) \/ DestroyStream(i) \/ WriteHandle(i) \/ CloseHandle(i)
  PROVE  TreeInv' /\ FdInv'
<1>1. opened \subseteq Paths \ {Root}
  BY DEF TreeInv
<1>2. CASE CloseOwned(i) /\ (WriteThrough(owners[i].fd) \/ UNCHANGED treeVars)
  <2>1. FdInv' /\ opened' = opened /\ renamed' = renamed
    BY <1>2, CloseOwnedKeeps
  <2>2. TreeInv'
    BY <1>1, <1>2, <2>1, WriteThroughKeeps, TreeStands
  <2> QED
    BY <2>1, <2>2
<1>3. CASE WriteFd(owners[i].fd)
  BY <1>3, WriteThroughKeeps, FdsStand DEF WriteFd, fdVars
<1> QED
  BY <1>2, <1>3 DEF EndStream, DestroyStream, WriteHandle, CloseHandle

LEMMA OpenFileKeeps ==
  ASSUME TreeInv, FdInv, NEW p \in Paths, NEW flags \in OpenFlags,
         NEW kind \in {"plain", "stream", "handle"}, OpenFile(p, flags, kind)
  PROVE  TreeInv' /\ FdInv'
<1>1. PICK r \in Resolution[p] :
        /\ nextFd < MaxDescriptors /\ ~IsDir(r)
        /\ \/ r \notin files /\ MakeFile(r)
           \/ UNCHANGED <<files, dirs>>
           \/ files' = files \union {r} /\ dirs' = dirs
        /\ files' = files \union {r} /\ dirs' = dirs =>
             ~(r \notin files' /\ Writes(flags)) 
        /\ UNCHANGED <<symlinks, renamed>>
        /\ IF r \notin files' /\ Writes(flags) THEN UNCHANGED fdVars
           ELSE /\ nextFd' = nextFd + 1
                /\ opened' = opened \union {r}
                /\ owners' = IF kind = "plain" THEN owners
                             ELSE Append(owners, [kind |-> kind, fd |-> nextFd, closed |-> FALSE])
                /\ fds' = [d \in DOMAIN fds \union {nextFd} |->
                             IF d # nextFd THEN fds[d]
                             ELSE [path |-> r, writes |-> Writes(flags),
                                   owner |-> IF kind = "plain" THEN Nobody ELSE Len(owners) + 1]]
  BY DEF OpenFile
<1>2. r \in Paths /\ r \notin DOMAIN symlinks /\ r \notin dirs /\ r # Root
  BY <1>1, Resolved DEF TreeInv, IsDir
<1>3. symlinks' = symlinks /\ renamed' = renamed
  BY <1>1
<1>4. /\ opened \subseteq opened' /\ opened' \subseteq Paths \ {Root}
      /\ files' = files \union {r} /\ dirs' = dirs => r \in opened'
  BY <1>1, <1>2 DEF TreeInv, fdVars
<1>5. TreeInv'
  <2>1. CASE MakeFile(r)
    BY <1>2, <1>3, <1>4, <2>1, MakeFileKeeps
  <2>2. CASE UNCHANGED <<files, dirs>>
    BY <1>3, <1>4, <2>2, TreeStands DEF treeVars
  <2>3. CASE files' = files \union {r} /\ dirs' = dirs
    <3>1. PICK fs : fs = {r}
      OBVIOUS
    <3>2. /\ dirs' = dirs /\ files' \subseteq files \union fs /\ fs \subseteq opened'
          /\ LinksFit' /\ DOMAIN symlinks' \subseteq DOMAIN symlinks /\ renamed \subseteq renamed'
      BY <1>3, <1>4, <2>3, <3>1 DEF TreeInv, LinksFit
    <3> QED
      BY <1>4, <3>2, NoNewEntries
  <2> QED
    BY <1>1, <2>1, <2>2, <2>3
<1>6. CASE UNCHANGED fdVars
  BY <1>5, <1>6, FdsStand
<1>7. CASE ~UNCHANGED fdVars
  <2>1. PICK s, o : /\ s = [kind |-> kind, fd |-> nextFd, closed |-> FALSE]
                    /\ o = [path |-> r, writes |-> Writes(flags),
                            owner |-> IF kind = "plain" THEN Nobody ELSE Len(owners) + 1]
    OBVIOUS
  <2>2. /\ nextFd' = nextFd + 1 /\ opened' = opened \union {r}
        /\ owners' = IF kind = "plain" THEN owners ELSE Append(owners, s)
        /\ fds' = [d \in DOMAIN fds \union {nextFd} |-> IF d # nextFd THEN fds[d] ELSE o]
    BY <1>1, <1>7, <2>1
  <2>3. /\ nextFd \in 0..MaxDescriptors /\ nextFd < MaxDescriptors /\ MaxDescriptors \in Nat
        /\ DOMAIN fds \subseteq 0..(nextFd - 1) /\ owners \in Seq(Streams)
        /\ \A i \in 1..Len(owners) : owners[i].fd < nextFd
    BY <1>1, FilesConstants DEF FdInv
  <2>4. /\ DOMAIN fds' = DOMAIN fds \union {nextFd} /\ fds'[nextFd] = o /\ nextFd \notin DOMAIN fds
        /\ \A d \in DOMAIN fds : fds'[d] = fds[d]
    BY <2>2, <2>3
  <2>5. o.path = r /\ (kind # "plain" => o.owner = Len(owners) + 1)
    BY <2>1
  <2>6. nextFd' \in 0..MaxDescriptors /\ DOMAIN fds' \subseteq 0..(nextFd' - 1)
    BY <2>2, <2>3, <2>4
  <2>7. \A d \in DOMAIN fds' : fds'[d].path \in opened'
    BY <2>2, <2>4, <2>5 DEF FdInv
  <2>8. \A i \in 1..Len(owners) : /\ owners[i].fd # nextFd
                                  /\ owners[i].fd \in DOMAIN fds =>
                                       ~owners[i].closed /\ fds[owners[i].fd].owner = i
    <3>1. \A i \in 1..Len(owners) : owners[i].fd \in Nat
      <4>1. \A i \in 1..Len(owners) : owners[i] \in Streams
        BY <2>3, ElementOfSeq
      <4> QED
        BY <4>1 DEF Streams
    <3> QED
      BY <2>3, <3>1 DEF FdInv, DescriptorsAreOwned, HasItsOwn
  <2>9. CASE kind = "plain"
    <3>1. owners' = owners
      BY <2>2, <2>9
    <3>2. DescriptorsAreOwned'
      BY <2>3, <2>4, <2>8, <3>1 DEF DescriptorsAreOwned, HasItsOwn
    <3>3. \A i \in 1..Len(owners') : owners'[i].fd < nextFd'
      <4>1. \A i \in 1..Len(owners) : owners[i] \in Streams
        BY <2>3, ElementOfSeq
      <4> QED
        BY <2>2, <2>3, <3>1, <4>1 DEF Streams
    <3>4. owners' \in Seq(Streams)
      BY <2>3, <3>1
    <3> QED
      BY ONLY <1>5, <2>6, <2>7, <3>2, <3>3, <3>4 DEF FdInv
  <2>10. CASE kind # "plain"
    <3>1. s \in Streams /\ s.fd = nextFd /\ s.closed = FALSE
      BY <2>1, <2>3, <2>10 DEF Streams
    <3>2. PICK after : after = owners'
      OBVIOUS
    <3>3. /\ after \in Seq(Streams) /\ Len(after) = Len(owners) + 1 /\ after[Len(owners) + 1] = s
          /\ \A i \in 1..Len(owners) : after[i] = owners[i]
      BY <2>2, <2>3, <2>10, <3>1, <3>2, AppendProperties
    <3>4. \A i \in 1..Len(after) : i \in 1..Len(owners) \/ i = Len(owners) + 1
      BY <2>3, <3>3
    <3>5. \A i \in 1..Len(after) : after[i].fd < nextFd'
      <4>1. \A i \in 1..Len(owners) : owners[i].fd < nextFd + 1
        <5>1. \A i \in 1..Len(owners) : owners[i] \in Streams
          BY <2>3, ElementOfSeq
        <5> QED
          BY <2>3, <5>1 DEF Streams
      <4> QED
        BY <2>2, <2>3, <3>1, <3>3, <3>4, <4>1
    <3>6. DescriptorsAreOwned'
      <4> SUFFICES ASSUME NEW i \in DOMAIN after, after[i].fd \in DOMAIN fds'
                   PROVE  ~after[i].closed /\ after[i].fd \in DOMAIN fds' /\ fds'[after[i].fd].owner = i
        BY <3>2 DEF DescriptorsAreOwned, HasItsOwn
      <4>1. i \in 1..Len(after)
        BY <3>3
      <4>2. CASE i \in 1..Len(owners)
        BY <2>4, <2>8, <3>3, <4>2
      <4>3. CASE i = Len(owners) + 1
        BY <2>4, <2>5, <2>10, <3>1, <3>3, <4>3
      <4> QED
        BY <3>4, <4>1, <4>2, <4>3
    <3> QED
      BY <1>5, <2>6, <2>7, <3>2, <3>3, <3>5, <3>6 DEF FdInv
  <2> QED
    BY <2>9, <2>10
<1> QED
  BY <1>6, <1>7

(* The other steps.                                                          *)
FilesInv == TreeInv /\ FdInv

LEMMA NoLinksFit ==
  ASSUME NEW s, s = <<>>
  PROVE  s \in [DOMAIN s -> Paths] /\ DOMAIN s \subseteq Paths \ {Root} /\ IsFiniteSet(DOMAIN s)
<1>1. s \in Seq(Paths) /\ Len(s) = 0
  BY EmptySeq
<1>2. DOMAIN s = {} /\ s \in [1..Len(s) -> Paths] /\ DOMAIN s = 1..Len(s)
  BY <1>1, LenProperties
<1> QED
  BY <1>2, FS_EmptySet

LEMMA ResetKeeps ==
  ASSUME FilesInv, ResetFiles
  PROVE  FilesInv'
<1>1. /\ files' = {} /\ dirs' = {Root} /\ symlinks' = <<>> /\ fds' = <<>>
      /\ nextFd' = nextFd /\ owners' = owners /\ opened' = opened /\ renamed' = renamed
  BY DEF ResetFiles
<1>2. DOMAIN symlinks' = {} /\ DOMAIN fds' = {}
  BY <1>1
<1>3. LinksFit'
  <2>1. symlinks' = <<>>
    BY <1>1
  <2>2. /\ symlinks' \in [DOMAIN symlinks' -> Paths] /\ DOMAIN symlinks' \subseteq Paths \ {Root}
        /\ IsFiniteSet(DOMAIN symlinks')
    BY ONLY <2>1, NoLinksFit
  <2> QED
    BY ONLY <2>2 DEF LinksFit
<1>4. TreeInv'
  <2>1. EntriesAreReachable' /\ OnlyDescriptorsStray' /\ PathsHaveOneKind'
    BY <1>1, <1>2 DEF EntriesAreReachable, OnlyDescriptorsStray, PathsHaveOneKind
  <2>2. /\ files' \subseteq Paths \ {Root} /\ dirs' \subseteq Paths /\ Root \in dirs'
        /\ opened' \subseteq Paths \ {Root}
    BY <1>1, PathsAreNamed DEF FilesInv, TreeInv
  <2> QED
    BY ONLY <1>3, <2>1, <2>2 DEF TreeInv
<1>5. FdInv'
  BY <1>1, <1>2 DEF FilesInv, FdInv, DescriptorsAreOwned, HasItsOwn
<1> QED
  BY <1>4, <1>5 DEF FilesInv

LEMMA FilesStep ==
  ASSUME FilesInv, [FilesNext]_filesVars
  PROVE  FilesInv'
<1>1. TreeInv /\ FdInv
  BY DEF FilesInv
<1>2. ASSUME NEW p \in Paths, WriteFile(p) PROVE FilesInv'
  BY <1>1, <1>2, WriteFileKeeps, FdsStand DEF FilesInv, WriteFile, fdVars
<1>3. ASSUME NEW p \in Paths, Mkdir(p) PROVE FilesInv'
  BY <1>1, <1>3, MkdirKeeps, FdsStand DEF FilesInv, Mkdir, fdVars
<1>4. ASSUME NEW p \in Paths, Unlink(p) \/ RmFile(p) PROVE FilesInv'
  BY <1>1, <1>4, RemovalsKeep, FdsStand DEF FilesInv, Unlink, RmFile, fdVars
<1>5. ASSUME NEW p \in Paths, Rmdir(p) PROVE FilesInv'
  BY <1>1, <1>5, RmdirKeeps, FdsStand DEF FilesInv, Rmdir, fdVars
<1>6. ASSUME NEW p \in Paths, RmTree(p) PROVE FilesInv'
  BY <1>1, <1>6, RmTreeKeeps, FdsStand DEF FilesInv, RmTree, fdVars
<1>7. ASSUME NEW p \in Paths, NEW q \in Paths, CopyFile(p, q) PROVE FilesInv'
  BY <1>2, <1>7 DEF CopyFile
<1>8. ASSUME NEW p \in Paths, NEW q \in Paths, Symlink(q, p) PROVE FilesInv'
  BY <1>1, <1>8, SymlinkKeeps, FdsStand DEF FilesInv, Symlink, fdVars
<1>9. ASSUME NEW p \in Paths, NEW q \in Paths, Rename(p, q) PROVE FilesInv'
  BY <1>1, <1>9, RenameKeeps, FdsStand DEF FilesInv, Rename, fdVars
<1>10. ASSUME NEW p \in Paths, NEW flags \in OpenFlags, NEW kind \in {"plain", "stream", "handle"},
              OpenFile(p, flags, kind)
       PROVE  FilesInv'
  BY <1>1, <1>10, OpenFileKeeps DEF FilesInv
<1>11. ASSUME NEW fd \in DOMAIN fds, WriteFd(fd) PROVE FilesInv'
  BY <1>1, <1>11, WriteThroughKeeps, FdsStand DEF FilesInv, WriteFd, fdVars
<1>12. ASSUME NEW fd \in DOMAIN fds, CloseFd(fd) PROVE FilesInv'
  BY <1>1, <1>12, CloseFdKeeps DEF FilesInv
<1>13. ASSUME NEW i \in DOMAIN owners,
              EndStream(i) \/ DestroyStream(i) \/ WriteHandle(i) \/ CloseHandle(i)
       PROVE  FilesInv'
  BY <1>1, <1>13, OwnersKeep DEF FilesInv
<1>14. ASSUME UNCHANGED filesVars PROVE FilesInv'
  <2>1. UNCHANGED treeVars /\ UNCHANGED fdVars /\ renamed' = renamed /\ opened' = opened
    BY <1>14 DEF filesVars, treeVars, fdVars
  <2>2. opened \subseteq opened' /\ opened' \subseteq Paths \ {Root}
    BY <1>1, <2>1 DEF TreeInv
  <2> QED
    BY <1>1, <2>1, <2>2, TreeStands, FdsStand DEF FilesInv
<1> QED
  BY <1>2, <1>3, <1>4, <1>5, <1>6, <1>7, <1>8, <1>9, <1>10, <1>11, <1>12, <1>13, <1>14, ResetKeeps
  DEF FilesNext

LEMMA FilesStart ==
  ASSUME FilesInit
  PROVE  FilesInv
<1>1. DOMAIN symlinks = {} /\ DOMAIN fds = {}
  BY DEF FilesInit
<1>2. LinksFit
  <2>1. symlinks = <<>>
    BY DEF FilesInit
  <2>2. /\ symlinks \in [DOMAIN symlinks -> Paths] /\ DOMAIN symlinks \subseteq Paths \ {Root}
        /\ IsFiniteSet(DOMAIN symlinks)
    BY ONLY <2>1, NoLinksFit
  <2> QED
    BY ONLY <2>2 DEF LinksFit
<1>3. TreeInv
  <2>1. EntriesAreReachable /\ OnlyDescriptorsStray /\ PathsHaveOneKind
    BY <1>1 DEF FilesInit, EntriesAreReachable, OnlyDescriptorsStray, PathsHaveOneKind
  <2>2. /\ files \subseteq Paths \ {Root} /\ dirs \subseteq Paths /\ Root \in dirs
        /\ opened \subseteq Paths \ {Root}
    BY PathsAreNamed DEF FilesInit
  <2> QED
    BY ONLY <1>2, <2>1, <2>2 DEF TreeInv
<1>4. FdInv
  BY <1>1, FilesConstants DEF FilesInit, FdInv, DescriptorsAreOwned, HasItsOwn
<1> QED
  BY <1>3, <1>4 DEF FilesInv

(* However the overlay is changed, by path, through descriptors, by steps that *)
(* are given up half way or by a reset, what stands in it can be reached, has   *)
(* one kind but for renames and descriptors, and no stream or handle ever meets *)
(* another's descriptor (ensureDir, resolveSymlinkPath, renameSync, openSync,   *)
(* createWriteStream, resetState).                                             *)
THEOREM FilesSound == FilesSpec => []FilesAreSound
<1>1. FilesInv => FilesAreSound
  <2> SUFFICES ASSUME FilesInv PROVE FilesAreSound
    OBVIOUS
  <2>1. TreeInv /\ FdInv
    BY DEF FilesInv
  <2>2. Range(symlinks) \subseteq Paths
    BY <2>1 DEF TreeInv, LinksFit, Range
  <2>3. FilesTypeOK
    BY <2>1, <2>2 DEF TreeInv, LinksFit, FdInv, FilesTypeOK
  <2>4. EntriesAreReachable
    BY <2>1 DEF TreeInv, EntriesAreReachable
  <2>5. OnlyDescriptorsStray
    BY <2>1 DEF TreeInv, OnlyDescriptorsStray
  <2>6. PathsHaveOneKind
    BY <2>1 DEF TreeInv, PathsHaveOneKind
  <2> QED
    BY <2>1, <2>3, <2>4, <2>5, <2>6 DEF FdInv, FilesAreSound
<1>2. FilesSpec => []FilesInv
  BY FilesStart, FilesStep, PTL DEF FilesSpec
<1> QED
  BY <1>1, <1>2, PTL
=============================================================================
