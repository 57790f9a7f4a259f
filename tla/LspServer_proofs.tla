--------------------------- MODULE LspServer_proofs ---------------------------
(***************************************************************************)
(* Theorems about the language server for every set of documents and       *)
(* folders, every number of places for handlers and every number of        *)
(* events: what is kept has its type, a handler at work has one turn,      *)
(* the diagnostics shown in the end are about the texts in the map, and    *)
(* those texts are the editor's or the file's, but for late writes.        *)
(***************************************************************************)
EXTENDS LspServer, SequenceTheorems, FiniteSetTheorems, TLAPS

Text  == Texts \cup {NoText}
Steps ==
  [do : {"log", "store", "publish", "remove", "read"}, doc : Docs, text : Text]
    \cup [do : {"addRoot", "removeRoot"}, root : Roots]

Kinds    == {"open", "change", "close", "files", "folders"}
Sent     == [docs : SUBSET Docs, what : Kinds, steps : Seq(Steps)]
Handlers == [n : Nat, what : Kinds, steps : Seq(Steps)]

\* What each variable holds.
TypeInv ==
  /\ editor \in [Docs -> Text] /\ disk \in [Docs -> Text]
  /\ events \in 0 .. MaxEvents /\ changed \subseteq Docs
  /\ documents \in [Docs -> Text] /\ roots \subseteq Roots
  /\ inbox \in Seq(Sent) /\ handlers \in Seq(Handlers) /\ Len(handlers) <= Concurrency
  /\ started \in Nat /\ turn \in Nat /\ ready \in Seq(Nat) /\ parked \in Seq(Nat)
  /\ outbox \in Seq([doc : Docs \cup {"log"}, text : Text]) /\ shown \in [Docs -> Text]

AtWork == {handlers[i].n : i \in DOMAIN handlers}
EachOnce(s) == \A i, j \in DOMAIN s : s[i] = s[j] => i = j

\* A handler at work is being polled, to be polled or waiting: one of these, and once.
Turns ==
  /\ \A i \in DOMAIN handlers : handlers[i].n \in 1 .. started
  /\ \A i, j \in DOMAIN handlers : handlers[i].n = handlers[j].n => i = j
  /\ turn # Nobody => turn \in AtWork
  /\ \A i \in DOMAIN ready : ready[i] \in AtWork /\ ready[i] # turn
  /\ \A i \in DOMAIN parked : parked[i] \in AtWork /\ parked[i] # turn
  /\ EachOnce(ready) /\ EachOnce(parked)
  /\ \A i \in DOMAIN ready, j \in DOMAIN parked : ready[i] # parked[j]

Inv == TypeInv /\ Turns

-----------------------------------------------------------------------------
(* Sequences *)

LEMMA RemoveAtProperties ==
  ASSUME NEW S, NEW s \in Seq(S), NEW i \in DOMAIN s
  PROVE  /\ RemoveAt(s, i) \in Seq(S)
         /\ Len(RemoveAt(s, i)) = Len(s) - 1
         /\ \A j \in DOMAIN RemoveAt(s, i) : RemoveAt(s, i)[j] = IF j < i THEN s[j] ELSE s[j + 1]
<1>1. i \in 1 .. Len(s) /\ Len(s) \in Nat /\ \A j \in 1 .. Len(s) : s[j] \in S
  BY LenProperties, ElementOfSeq
<1> DEFINE before == SubSeq(s, 1, i - 1)
           after  == SubSeq(s, i + 1, Len(s))
<1>2. /\ before \in Seq(S) /\ Len(before) = i - 1
      /\ \A j \in 1 .. i - 1 : before[j] = s[j]
  BY <1>1, SubSeqProperties
<1>3. /\ after \in Seq(S) /\ Len(after) = Len(s) - i
      /\ \A j \in 1 .. Len(s) - i : after[j] = s[i + j]
  BY <1>1, SubSeqProperties
<1> HIDE DEF before, after
<1>4. /\ before \o after \in Seq(S)
      /\ Len(before \o after) = Len(s) - 1
      /\ \A j \in 1 .. Len(s) - 1 : (before \o after)[j] = IF j < i THEN s[j] ELSE s[j + 1]
  BY <1>1, <1>2, <1>3, ConcatProperties
<1>5. QED
  BY <1>4, LenProperties DEF RemoveAt, before, after

\* What a set of changed documents becomes is a sequence of them.
LEMMA SetToSeqIsSeq ==
  ASSUME NEW S \in SUBSET Docs
  PROVE  Cardinality(S) \in Nat /\ SetToSeq(S) \in [1 .. Cardinality(S) -> S]
<1>1. IsFiniteSet(S)
  BY DocsAssumption, FS_Subset
<1>2. \E f \in [1 .. Cardinality(S) -> S] : IsInjective(f)
  BY <1>1, FS_CardinalityType DEF ExistsBijection, Bijection, Injection, Surjection, IsInjective
<1>3. QED
  BY <1>1, <1>2, FS_CardinalityType DEF SetToSeq

-----------------------------------------------------------------------------
(* The handler being polled *)

LEMMA PolledIsAtWork ==
  ASSUME Inv, turn # Nobody
  PROVE  /\ Polled \in DOMAIN handlers /\ handlers[Polled].n = turn
         /\ handlers[Polled] \in Handlers
         /\ \A i \in DOMAIN handlers : handlers[i].n = turn => i = Polled
<1>1. Polled \in DOMAIN handlers /\ handlers[Polled].n = turn
  BY DEF Inv, Turns, AtWork, Polled
<1>2. QED
  BY <1>1 DEF Inv, Turns, TypeInv

\* Going on changes what is left to do of that handler and nothing else.
LEMMA ContinueProperties ==
  ASSUME Inv, turn # Nobody, handlers[Polled].steps # <<>>, NEW steps \in Seq(Steps), Continue(steps)
  PROVE  /\ handlers' \in Seq(Handlers) /\ Len(handlers') = Len(handlers)
         /\ \A i \in DOMAIN handlers :
              /\ handlers'[i].n = handlers[i].n
              /\ i # Polled => handlers'[i] = handlers[i]
         /\ handlers'[Polled].steps = steps \o Tail(handlers[Polled].steps)
<1>1. /\ Polled \in DOMAIN handlers /\ handlers[Polled] \in Handlers
      /\ handlers \in Seq(Handlers)
  BY PolledIsAtWork DEF Inv, TypeInv
<1>2. Tail(handlers[Polled].steps) \in Seq(Steps)
  BY <1>1, HeadTailProperties DEF Handlers
<1>3. steps \o Tail(handlers[Polled].steps) \in Seq(Steps)
  BY <1>2, ConcatProperties
<1> DEFINE rest == steps \o Tail(handlers[Polled].steps)
           next == [handlers[Polled] EXCEPT !.steps = rest]
<1>4. handlers' = [handlers EXCEPT ![Polled] = next]
  BY DEF Continue
<1>5. next \in Handlers /\ next.n = handlers[Polled].n /\ next.steps = rest
  BY <1>1, <1>3 DEF Handlers
<1> HIDE DEF next, rest
<1>6. QED
  BY <1>1, <1>4, <1>5, ExceptSeq, LenProperties DEF rest

-----------------------------------------------------------------------------
(* Types and turns *)

LEMMA InitInv == Init => Inv
<1> SUFFICES ASSUME Init PROVE Inv
  OBVIOUS
<1>1. NoText \in Text /\ 0 \in Text /\ 0 \in 0 .. MaxEvents /\ 0 <= Concurrency
  BY ConcurrencyAssumption, EventsAssumption DEF Text, Texts
<1>2. /\ editor \in [Docs -> Text] /\ disk \in [Docs -> Text]
      /\ documents \in [Docs -> Text] /\ shown \in [Docs -> Text]
  BY <1>1 DEF Init
<1>3. TypeInv
  BY <1>1, <1>2, EmptySeq DEF Init, TypeInv, Nobody
<1>4. Turns
  BY DEF Init, Turns, EachOnce, AtWork
<1>5. QED
  BY <1>3, <1>4 DEF Inv

\* What a document's events send is made of steps.
LEMMA SentStepsTyped ==
  ASSUME NEW d \in Docs, NEW text \in Text
  PROVE  /\ DidOpen(d, text) \in Seq(Steps) /\ DidChange(d, text) \in Seq(Steps)
         /\ DidClose(d) \in Seq(Steps)
<1>1. /\ Step("log", d, text) \in Steps /\ Step("store", d, text) \in Steps /\ Step("publish", d, text) \in Steps
      /\ Step("remove", d, NoText) \in Steps /\ Step("publish", d, NoText) \in Steps
  BY DEF Step, Steps, Text
<1>2. QED
  BY <1>1 DEF DidOpen, DidChange, DidClose

LEMMA WatchedStepsTyped ==
  ASSUME Inv, NEW S \in SUBSET Docs
  PROVE  DidChangeWatchedFiles(S) \in Seq(Steps)
<1> DEFINE Of(d) == Step(IF disk[d] = NoText THEN "remove" ELSE "read", d, NoText)
<1>1. Cardinality(S) \in Nat /\ \A i \in 1 .. Cardinality(S) : SetToSeq(S)[i] \in Docs
  BY SetToSeqIsSeq
<1>2. \A d \in Docs : Of(d) \in Steps
  BY DEF Step, Steps, Text
<1> HIDE DEF Of
<1>3. [i \in 1 .. Cardinality(S) |-> Of(SetToSeq(S)[i])] \in Seq(Steps)
  BY <1>1, <1>2
<1>4. QED
  BY <1>3 DEF DidChangeWatchedFiles, Of

\* Sending appends a message to those not yet taken up.
LEMMA SendTyped ==
  ASSUME inbox \in Seq(Sent), NEW docs \in SUBSET Docs, NEW what \in Kinds, NEW steps \in Seq(Steps),
         Send(docs, what, steps)
  PROVE  inbox' \in Seq(Sent)
<1>1. [docs |-> docs, what |-> what, steps |-> steps] \in Sent
  BY DEF Sent
<1>2. QED
  BY <1>1, AppendProperties DEF Send

LEMMA EnvironmentTyped ==
  ASSUME Inv, Environment
  PROVE  Inv'
<1> USE DEF Inv
<1>1. UNCHANGED <<documents, roots, handlers, turn, ready, parked, clientVars, started>>
  BY DEF Environment
<1>2. Turns'
  BY <1>1 DEF Turns, AtWork, EachOnce
<1>3. New \in Int /\ (Event => New \in Text /\ events' \in 0 .. MaxEvents) /\ NoText \in Text
  BY EventsAssumption DEF TypeInv, Event, New, Text, Texts
<1>4. SUFFICES /\ editor' \in [Docs -> Text] /\ disk' \in [Docs -> Text]
               /\ events' \in 0 .. MaxEvents /\ changed' \subseteq Docs
               /\ inbox' \in Seq(Sent)
  BY <1>1, <1>2 DEF TypeInv, clientVars
<1>5. \A docs \in SUBSET Docs : \A steps \in Seq(Steps) : \A what \in Kinds :
        Send(docs, what, steps) => inbox' \in Seq(Sent)
  BY SendTyped DEF TypeInv
<1>6. ASSUME NEW d \in Docs PROVE EditorOpens(d) => <1>4!1
  <2>1. disk[d] \in Text /\ {d} \in SUBSET Docs
    BY DEF TypeInv
  <2>2. DidOpen(d, disk[d]) \in Seq(Steps)
    BY <2>1, SentStepsTyped
  <2>3. EditorOpens(d) => inbox' \in Seq(Sent)
    BY <1>5, <2>1, <2>2 DEF EditorOpens, Kinds
  <2>4. QED
    BY <1>3, <2>1, <2>3 DEF EditorOpens, TypeInv
<1>7. ASSUME NEW d \in Docs PROVE EditorChanges(d) => <1>4!1
  <2>1. EditorChanges(d) => DidChange(d, New) \in Seq(Steps)
    BY <1>3, SentStepsTyped DEF EditorChanges
  <2>2. EditorChanges(d) => inbox' \in Seq(Sent)
    BY <1>5, <2>1 DEF EditorChanges, Kinds
  <2>3. QED
    BY <1>3, <2>2 DEF EditorChanges, TypeInv
<1>8. ASSUME NEW d \in Docs PROVE EditorCloses(d) => <1>4!1
  <2>1. DidClose(d) \in Seq(Steps)
    BY <1>3, SentStepsTyped
  <2>2. EditorCloses(d) => inbox' \in Seq(Sent)
    BY <1>5, <2>1 DEF EditorCloses, Kinds
  <2>3. QED
    BY <1>3, <2>2 DEF EditorCloses, TypeInv
<1>9. ASSUME NEW d \in Docs PROVE EditorSaves(d) \/ DiskChanges(d) => <1>4!1
  <2>1. editor[d] \in Text
    BY DEF TypeInv
  <2>2. EditorSaves(d) => <1>4!1
    BY <1>3, <2>1 DEF EditorSaves, TypeInv
  <2>3. ASSUME NEW text \in {New, NoText}, Event, disk' = [disk EXCEPT ![d] = text]
        PROVE  disk' \in [Docs -> Text]
    BY <1>3, <2>3 DEF TypeInv
  <2>4. DiskChanges(d) => <1>4!1
    BY <1>3, <2>3 DEF DiskChanges, TypeInv
  <2>5. QED
    BY <2>2, <2>4
<1>10. WatcherReports => <1>4!1
  <2>1. ASSUME NEW S \in SUBSET changed, Send(S, "files", DidChangeWatchedFiles(S)) PROVE inbox' \in Seq(Sent)
    <3>1. S \in SUBSET Docs
      BY DEF TypeInv
    <3>2. QED
      BY <1>5, <2>1, <3>1, WatchedStepsTyped DEF Kinds
  <2>2. QED
    BY <2>1 DEF WatcherReports, TypeInv
<1>11. FoldersChange => <1>4!1
  <2>1. ASSUME NEW root \in Roots, NEW do \in {"addRoot", "removeRoot"}
        PROVE  Send({}, "folders", <<[do |-> do, root |-> root]>>) => inbox' \in Seq(Sent)
    <3>1. <<[do |-> do, root |-> root]>> \in Seq(Steps)
      BY DEF Steps
    <3>2. QED
      BY <1>5, <3>1 DEF Kinds
  <2>2. QED
    BY <1>3, <2>1 DEF FoldersChange, TypeInv
<1>12. QED
  BY <1>6, <1>7, <1>8, <1>9, <1>10, <1>11 DEF Environment

-----------------------------------------------------------------------------
LEMMA TakeUpTyped ==
  ASSUME Inv, TakeUp
  PROVE  Inv'
<1> USE DEF Inv
<1> DEFINE message == Head(inbox)
           h == [n |-> started + 1, what |-> message.what, steps |-> message.steps]
<1>1. /\ message \in Sent /\ Tail(inbox) \in Seq(Sent)
      /\ turn = Nobody /\ turn' = turn /\ parked' = parked /\ started' = started + 1
      /\ inbox' = Tail(inbox) /\ Len(handlers) < Concurrency
      /\ UNCHANGED <<editor, disk, events, changed, documents, roots, outbox, shown>>
  BY HeadTailProperties DEF TakeUp, TypeInv, editorVars, clientVars
<1>2. handlers' = Append(handlers, h) /\ ready' = Append(ready, started + 1)
  BY DEF TakeUp
<1>3. h \in Handlers /\ h.n = started + 1
  BY <1>1 DEF Sent, Handlers, TypeInv
<1> HIDE DEF message, h
<1>4. /\ handlers' \in Seq(Handlers) /\ Len(handlers') = Len(handlers) + 1
      /\ DOMAIN handlers = 1 .. Len(handlers) /\ DOMAIN handlers' = 1 .. Len(handlers) + 1
      /\ \A i \in DOMAIN handlers : handlers'[i] = handlers[i]
      /\ handlers'[Len(handlers) + 1] = h /\ Len(handlers) \in Nat
  BY <1>2, <1>3, AppendProperties, LenProperties DEF TypeInv
<1>5. /\ ready' \in Seq(Nat) /\ DOMAIN ready = 1 .. Len(ready) /\ DOMAIN ready' = 1 .. Len(ready) + 1
      /\ \A i \in DOMAIN ready : ready'[i] = ready[i]
      /\ ready'[Len(ready) + 1] = started + 1 /\ Len(ready) \in Nat
  BY <1>2, AppendProperties, LenProperties DEF TypeInv
<1>6. TypeInv'
  BY <1>1, <1>4, <1>5, ConcurrencyAssumption DEF TypeInv
<1>7. AtWork \subseteq AtWork' /\ AtWork \subseteq 1 .. started
  BY <1>4 DEF AtWork, Turns
<1>8. started + 1 \in AtWork'
  BY <1>3, <1>4 DEF AtWork
<1>9. /\ \A i \in DOMAIN handlers' : handlers'[i].n \in 1 .. started'
      /\ \A i, j \in DOMAIN handlers' : handlers'[i].n = handlers'[j].n => i = j
  <2>1. /\ started \in Nat
        /\ \A i \in 1 .. Len(handlers) : handlers[i].n \in 1 .. started
        /\ \A i, j \in 1 .. Len(handlers) : handlers[i].n = handlers[j].n => i = j
    BY <1>4 DEF Turns, TypeInv
  <2>2. /\ \A i \in 1 .. Len(handlers) : handlers'[i].n = handlers[i].n
        /\ handlers'[Len(handlers) + 1].n = started + 1
        /\ DOMAIN handlers' = 1 .. Len(handlers) + 1 /\ Len(handlers) \in Nat
    BY <1>3, <1>4
  <2>3. \A i \in DOMAIN handlers' : i \in 1 .. Len(handlers) \/ i = Len(handlers) + 1
    BY <2>2
  <2>4. \A i \in 1 .. Len(handlers) : handlers[i].n # started + 1
    BY <2>1
  <2>5. \A i \in DOMAIN handlers' : handlers'[i].n \in 1 .. started + 1
    BY <2>1, <2>2, <2>3
  <2>6. ASSUME NEW i \in DOMAIN handlers', NEW j \in DOMAIN handlers', handlers'[i].n = handlers'[j].n
        PROVE  i = j
    <3>1. CASE i \in 1 .. Len(handlers) /\ j \in 1 .. Len(handlers)
      BY <2>1, <2>2, <2>6, <3>1
    <3>2. CASE i = Len(handlers) + 1 \/ j = Len(handlers) + 1
      BY <2>2, <2>3, <2>4, <2>6, <3>2
    <3>3. QED
      BY <2>3, <3>1, <3>2
  <2>7. QED
    BY <1>1, <2>5, <2>6
<1>10. \A i \in DOMAIN ready' : ready'[i] \in AtWork' /\ ready'[i] # turn'
  <2>1. ASSUME NEW i \in DOMAIN ready PROVE ready[i] \in AtWork' /\ ready[i] # turn
    BY <1>7 DEF Turns
  <2>2. started + 1 # turn
    BY <1>1 DEF Nobody, TypeInv
  <2>3. QED
    BY <1>1, <1>5, <1>8, <2>1, <2>2
<1>11. \A i \in DOMAIN parked : parked[i] \in AtWork' /\ parked[i] # turn /\ parked[i] \in 1 .. started
  BY <1>7 DEF Turns
<1>12. \A i \in DOMAIN ready : ready[i] \in 1 .. started
  BY <1>7 DEF Turns
<1>13. EachOnce(ready)'
  <2>1. \A i \in DOMAIN ready : ready[i] # started + 1
    BY <1>12 DEF TypeInv
  <2>2. \A i \in DOMAIN ready' : i \in DOMAIN ready \/ i = Len(ready) + 1
    BY <1>5
  <2>3. QED
    BY <1>5, <2>1, <2>2 DEF Turns, EachOnce
<1>14. \A i \in DOMAIN ready', j \in DOMAIN parked : ready'[i] # parked[j]
  <2>1. \A j \in DOMAIN parked : parked[j] # started + 1
    BY <1>11 DEF TypeInv
  <2>2. \A i \in DOMAIN ready' : i \in DOMAIN ready \/ i = Len(ready) + 1
    BY <1>5
  <2>3. QED
    BY <1>5, <2>1, <2>2 DEF Turns
<1>15. Turns'
  BY <1>1, <1>9, <1>10, <1>11, <1>13, <1>14 DEF Turns, EachOnce
<1>16. QED
  BY <1>6, <1>15

LEMMA ResumeTyped ==
  ASSUME Inv, Resume
  PROVE  Inv'
<1> USE DEF Inv
<1>1. /\ ready # <<>> /\ turn' = Head(ready) /\ ready' = Tail(ready) /\ parked' = parked
      /\ UNCHANGED <<editor, disk, events, changed, inbox, documents, roots, handlers, outbox, shown, started>>
  BY DEF Resume, editorVars, clientVars
<1>2. /\ turn' \in Nat /\ turn' = ready[1] /\ 1 \in DOMAIN ready
      /\ ready' \in Seq(Nat)
      /\ \A i \in DOMAIN ready' : i + 1 \in DOMAIN ready /\ i + 1 # 1 /\ ready'[i] = ready[i + 1]
  BY <1>1, HeadTailProperties, LenProperties DEF TypeInv
<1>3. TypeInv'
  BY <1>1, <1>2 DEF TypeInv
<1>4. AtWork' = AtWork
  BY <1>1 DEF AtWork
<1>5. turn' \in AtWork'
  BY <1>2, <1>4 DEF Turns
<1>6. \A i \in DOMAIN ready' : ready'[i] \in AtWork' /\ ready'[i] # turn'
  BY <1>2, <1>4 DEF Turns, EachOnce
<1>7. \A i \in DOMAIN parked : parked[i] \in AtWork' /\ parked[i] # turn'
  BY <1>2, <1>4 DEF Turns
<1>8. EachOnce(ready)'
  BY <1>2 DEF Turns, EachOnce, TypeInv
<1>9. \A i \in DOMAIN ready', j \in DOMAIN parked : ready'[i] # parked[j]
  BY <1>2 DEF Turns
<1>10. Turns'
  BY <1>1, <1>5, <1>6, <1>7, <1>8, <1>9 DEF Turns, EachOnce
<1>11. QED
  BY <1>3, <1>10

LEMMA WriteOutTyped ==
  ASSUME Inv, WriteOut
  PROVE  Inv'
<1> USE DEF Inv
<1>1. /\ outbox # <<>> /\ outbox' = Tail(outbox)
      /\ shown' = [d \in Docs |-> IF d = Head(outbox).doc THEN Head(outbox).text ELSE shown[d]]
      /\ UNCHANGED <<editor, disk, events, changed, inbox, documents, roots, handlers, turn, started>>
  BY DEF WriteOut, editorVars
<1>2. Head(outbox).text \in Text /\ outbox' \in Seq([doc : Docs \cup {"log"}, text : Text])
  <2>1. outbox \in Seq([doc : Docs \cup {"log"}, text : Text])
    BY DEF TypeInv
  <2>2. /\ Head(outbox) \in [doc : Docs \cup {"log"}, text : Text]
        /\ Tail(outbox) \in Seq([doc : Docs \cup {"log"}, text : Text])
    BY <1>1, <2>1, HeadTailProperties
  <2>3. QED
    BY <1>1, <2>2
<1>3. shown' \in [Docs -> Text]
  BY <1>1, <1>2 DEF TypeInv
<1>4. AtWork' = AtWork
  BY <1>1 DEF AtWork
<1>5. CASE parked = <<>>
  <2>1. UNCHANGED <<parked, ready>>
    BY <1>5 DEF WriteOut
  <2>2. QED
    BY <1>1, <1>2, <1>3, <1>4, <2>1 DEF TypeInv, Turns, EachOnce
<1>6. CASE parked # <<>>
  <2>1. parked' = Tail(parked) /\ ready' = Append(ready, parked[1]) /\ parked[1] \in Nat /\ 1 \in DOMAIN parked
    BY <1>6, HeadTailProperties, LenProperties DEF WriteOut, TypeInv
  <2>2. /\ parked' \in Seq(Nat)
        /\ \A i \in DOMAIN parked' : i + 1 \in DOMAIN parked /\ i + 1 # 1 /\ parked'[i] = parked[i + 1]
        /\ \A i, j \in DOMAIN parked' : i + 1 = j + 1 => i = j
    <3>1. parked \in Seq(Nat)
      BY DEF TypeInv
    <3>2. /\ parked' \in Seq(Nat) /\ Len(parked') = Len(parked) - 1
          /\ \A i \in 1 .. Len(parked) - 1 : parked'[i] = parked[i + 1]
      BY <1>6, <2>1, <3>1, HeadTailProperties
    <3>3. /\ DOMAIN parked = 1 .. Len(parked) /\ Len(parked) \in Nat
          /\ DOMAIN parked' = 1 .. Len(parked')
      BY <3>1, <3>2, LenProperties
    <3>4. QED
      BY <3>2, <3>3
  <2>3. /\ ready' \in Seq(Nat)
        /\ \A i \in DOMAIN ready' : i \in DOMAIN ready \/ i = Len(ready) + 1
        /\ \A i \in DOMAIN ready : ready'[i] = ready[i]
        /\ ready'[Len(ready) + 1] = parked[1]
    BY <2>1, AppendProperties, LenProperties DEF TypeInv
  <2>4. TypeInv'
    BY <1>1, <1>2, <1>3, <2>2, <2>3 DEF TypeInv
  <2>5. \A i \in DOMAIN parked' : parked'[i] \in AtWork' /\ parked'[i] # turn'
    BY <1>1, <1>4, <2>2 DEF Turns
  <2>6. \A i \in DOMAIN ready' : ready'[i] \in AtWork' /\ ready'[i] # turn'
    BY <1>1, <1>4, <2>1, <2>3 DEF Turns
  <2>7. EachOnce(parked)'
    BY <2>2 DEF Turns, EachOnce
  <2>8. EachOnce(ready)'
    BY <2>1, <2>3 DEF Turns, EachOnce
  <2>9. \A i \in DOMAIN ready', j \in DOMAIN parked' : ready'[i] # parked'[j]
    BY <2>1, <2>2, <2>3 DEF Turns, EachOnce
  <2>10. Turns'
    BY <1>1, <1>4, <2>5, <2>6, <2>7, <2>8, <2>9 DEF Turns
  <2>11. QED
    BY <2>4, <2>10
<1>7. QED
  BY <1>5, <1>6

LEMMA FinishTyped ==
  ASSUME Inv, Finish
  PROVE  Inv'
<1> USE DEF Inv
<1>1. /\ turn # Nobody /\ turn' = Nobody /\ handlers' = RemoveAt(handlers, Polled)
      /\ UNCHANGED <<editor, disk, events, changed, inbox, documents, roots, ready, parked, outbox, shown, started>>
  BY DEF Finish, editorVars, clientVars
<1>2. Polled \in DOMAIN handlers /\ handlers[Polled].n = turn
  BY <1>1, PolledIsAtWork
<1> DEFINE Was(j) == IF j < Polled THEN j ELSE j + 1
<1>3. /\ handlers' \in Seq(Handlers) /\ Len(handlers') = Len(handlers) - 1
      /\ DOMAIN handlers = 1 .. Len(handlers) /\ DOMAIN handlers' = 1 .. Len(handlers) - 1
      /\ \A j \in DOMAIN handlers' : handlers'[j] = handlers[Was(j)]
      /\ Len(handlers) \in Nat
  <2>1. \A j \in DOMAIN handlers' : handlers'[j] = IF j < Polled THEN handlers[j] ELSE handlers[j + 1]
    BY <1>1, <1>2, RemoveAtProperties DEF TypeInv
  <2>2. handlers \in Seq(Handlers)
    BY DEF TypeInv
  <2>3. handlers' \in Seq(Handlers) /\ Len(handlers') = Len(handlers) - 1
    BY <1>1, <1>2, <2>2, RemoveAtProperties
  <2>4. /\ DOMAIN handlers = 1 .. Len(handlers) /\ Len(handlers) \in Nat
        /\ DOMAIN handlers' = 1 .. Len(handlers')
    BY <2>2, <2>3, LenProperties
  <2>5. \A j \in DOMAIN handlers' : handlers'[j] = handlers[Was(j)]
    BY <2>1
  <2>6. QED
    BY <2>3, <2>4, <2>5
<1>4. \A j \in DOMAIN handlers' :
        /\ Was(j) \in DOMAIN handlers /\ Was(j) # Polled
        /\ \A i \in DOMAIN handlers' : Was(i) = Was(j) => i = j
  BY <1>2, <1>3
<1>5. \A i \in DOMAIN handlers \ {Polled} : \E j \in DOMAIN handlers' : Was(j) = i
  <2>1. ASSUME NEW i \in DOMAIN handlers \ {Polled}, i < Polled PROVE i \in DOMAIN handlers' /\ Was(i) = i
    BY <1>2, <1>3, <2>1
  <2>2. ASSUME NEW i \in DOMAIN handlers \ {Polled}, i > Polled PROVE i - 1 \in DOMAIN handlers' /\ Was(i - 1) = i
    BY <1>2, <1>3, <2>2
  <2>3. QED
    BY <1>2, <1>3, <2>1, <2>2
<1> HIDE DEF Was
<1>6. AtWork \ {turn} \subseteq AtWork'
  BY <1>2, <1>3, <1>5 DEF AtWork
<1>7. TypeInv'
  BY <1>1, <1>3, ConcurrencyAssumption DEF TypeInv, Nobody
<1>8. \A i \in DOMAIN handlers' : handlers'[i].n \in 1 .. started
  BY <1>3, <1>4 DEF Turns
<1>9. \A i, j \in DOMAIN handlers' : handlers'[i].n = handlers'[j].n => i = j
  BY <1>3, <1>4 DEF Turns
<1>10. AtWork \subseteq 1 .. started
  BY DEF Turns, AtWork
<1>11. \A i \in DOMAIN ready : ready[i] \in AtWork' /\ ready[i] # Nobody
  BY <1>6, <1>10 DEF Turns, Nobody, TypeInv
<1>12. \A i \in DOMAIN parked : parked[i] \in AtWork' /\ parked[i] # Nobody
  BY <1>6, <1>10 DEF Turns, Nobody, TypeInv
<1>13. Turns'
  BY <1>1, <1>8, <1>9, <1>11, <1>12 DEF Turns, EachOnce
<1>14. QED
  BY <1>7, <1>13

\* A step of the handler being polled, after which it goes on or waits.
LEMMA GoOnTyped ==
  ASSUME Inv, turn # Nobody, handlers[Polled].steps # <<>>, NEW steps \in Seq(Steps), Continue(steps),
         UNCHANGED <<ready, started>>,
         \/ UNCHANGED <<turn, parked>>
         \/ turn' = Nobody /\ parked' = Append(parked, turn)
  PROVE  /\ Turns'
         /\ handlers' \in Seq(Handlers) /\ Len(handlers') = Len(handlers)
         /\ turn' \in Nat /\ parked' \in Seq(Nat)
<1> USE DEF Inv
<1>1. /\ handlers' \in Seq(Handlers) /\ Len(handlers') = Len(handlers)
      /\ \A i \in DOMAIN handlers : handlers'[i].n = handlers[i].n
  BY ContinueProperties
<1>2. DOMAIN handlers' = DOMAIN handlers
  BY <1>1, LenProperties DEF TypeInv
<1>3. AtWork' = AtWork
  BY <1>1, <1>2 DEF AtWork
<1>4. AtWork \subseteq 1 .. started
  BY DEF Turns, AtWork
<1>5. CASE UNCHANGED <<turn, parked>>
  BY <1>1, <1>2, <1>3, <1>5 DEF Turns, TypeInv, EachOnce
<1>6. CASE turn' = Nobody /\ parked' = Append(parked, turn)
  <2>1. /\ turn' \in Nat /\ parked' \in Seq(Nat)
        /\ \A i \in DOMAIN parked' : i \in DOMAIN parked \/ i = Len(parked) + 1
        /\ \A i \in DOMAIN parked : parked'[i] = parked[i]
        /\ parked'[Len(parked) + 1] = turn
    BY <1>6, AppendProperties, LenProperties DEF TypeInv, Nobody
  <2>2. \A i \in DOMAIN parked' : parked'[i] \in AtWork' /\ parked'[i] # turn'
    BY <1>3, <1>4, <1>6, <2>1 DEF Turns, Nobody, TypeInv
  <2>3. \A i \in DOMAIN ready' : ready'[i] \in AtWork' /\ ready'[i] # turn'
    BY <1>3, <1>4, <1>6 DEF Turns, Nobody, TypeInv
  <2>4. EachOnce(parked)'
    BY <2>1 DEF Turns, EachOnce
  <2>5. \A i \in DOMAIN ready', j \in DOMAIN parked' : ready'[i] # parked'[j]
    BY <2>1 DEF Turns
  <2>6. QED
    BY <1>1, <1>2, <1>3, <1>6, <2>1, <2>2, <2>3, <2>4, <2>5 DEF Turns, EachOnce
<1>7. QED
  BY <1>5, <1>6

\* What is to be done next is a step.
LEMMA ThisIsAStep ==
  ASSUME Inv, turn # Nobody, handlers[Polled].steps # <<>>
  PROVE  /\ This \in Steps
         /\ This.do \notin {"addRoot", "removeRoot"} => This.doc \in Docs /\ This.text \in Text
         /\ This.do \in {"addRoot", "removeRoot"} => This.root \in Roots
<1>1. handlers[Polled].steps \in Seq(Steps)
  BY PolledIsAtWork DEF Handlers
<1>2. This \in Steps
  BY <1>1, HeadTailProperties DEF This
<1>3. QED
  BY <1>2 DEF Steps

\* Sending to the client keeps types, and the sender goes on or waits.
LEMMA SendToClientTyped ==
  ASSUME Inv, NEW doc \in Docs \cup {"log"}, NEW text \in Text, SendToClient([doc |-> doc, text |-> text])
  PROVE  /\ outbox' \in Seq([doc : Docs \cup {"log"}, text : Text])
         /\ \/ UNCHANGED <<turn, parked>>
            \/ turn' = Nobody /\ parked' = Append(parked, turn)
<1>1. [doc |-> doc, text |-> text] \in [doc : Docs \cup {"log"}, text : Text]
  OBVIOUS
<1>2. QED
  BY <1>1, AppendProperties DEF SendToClient, Inv, TypeInv

LEMMA LogMessageTyped ==
  ASSUME Inv, LogMessage
  PROVE  Inv'
<1>1. /\ turn # Nobody /\ handlers[Polled].steps # <<>> /\ Continue(<<>>) /\ SendToClient(Log)
      /\ UNCHANGED <<editor, disk, events, changed, inbox, documents, roots, ready, shown, started>>
  BY DEF LogMessage, At, editorVars
<1>2. NoText \in Text /\ "log" \in Docs \cup {"log"}
  BY DEF Text
<1>3. /\ outbox' \in Seq([doc : Docs \cup {"log"}, text : Text])
      /\ \/ UNCHANGED <<turn, parked>>
         \/ turn' = Nobody /\ parked' = Append(parked, turn)
  BY <1>1, <1>2, SendToClientTyped DEF Log
<1>4. <<>> \in Seq(Steps)
  BY EmptySeq
<1>5. /\ Turns'
      /\ handlers' \in Seq(Handlers) /\ Len(handlers') = Len(handlers)
      /\ turn' \in Nat /\ parked' \in Seq(Nat)
  BY <1>1, <1>3, <1>4, GoOnTyped
<1>6. QED
  BY <1>1, <1>3, <1>5 DEF Inv, TypeInv

LEMMA PublishTyped ==
  ASSUME Inv, PublishDiagnostics
  PROVE  Inv'
<1>1. /\ turn # Nobody /\ handlers[Polled].steps # <<>> /\ Continue(<<>>)
      /\ SendToClient([doc |-> This.doc, text |-> This.text]) /\ This.do = "publish"
      /\ UNCHANGED <<editor, disk, events, changed, inbox, documents, roots, ready, shown, started>>
  BY DEF PublishDiagnostics, At, This, editorVars
<1>2. This.doc \in Docs /\ This.text \in Text
  BY <1>1, ThisIsAStep
<1>3. /\ outbox' \in Seq([doc : Docs \cup {"log"}, text : Text])
      /\ \/ UNCHANGED <<turn, parked>>
         \/ turn' = Nobody /\ parked' = Append(parked, turn)
  BY <1>1, <1>2, SendToClientTyped
<1>4. <<>> \in Seq(Steps)
  BY EmptySeq
<1>5. /\ Turns'
      /\ handlers' \in Seq(Handlers) /\ Len(handlers') = Len(handlers)
      /\ turn' \in Nat /\ parked' \in Seq(Nat)
  BY <1>1, <1>3, <1>4, GoOnTyped
<1>6. QED
  BY <1>1, <1>3, <1>5 DEF Inv, TypeInv

\* A step that writes the map, after which the handler goes on.
LEMMA WriteTyped ==
  ASSUME Inv, upsert_document \/ remove_document \/ ReadChangedFile
  PROVE  Inv'
<1>1. /\ turn # Nobody /\ handlers[Polled].steps # <<>>
      /\ UNCHANGED <<editor, disk, events, changed, inbox, roots, turn, ready, parked, outbox, shown, started>>
  BY DEF upsert_document, remove_document, ReadChangedFile, At, editorVars, clientVars
<1>2. This.do \in {"store", "remove", "read"}
  BY DEF upsert_document, remove_document, ReadChangedFile, At, This
<1>3. This.doc \in Docs /\ This.text \in Text /\ NoText \in Text
  BY <1>1, <1>2, ThisIsAStep DEF Text
<1>4. disk[This.doc] \in Text
  BY <1>3 DEF Inv, TypeInv
<1>5. <<>> \in Seq(Steps) /\ <<Step("publish", This.doc, disk[This.doc])>> \in Seq(Steps)
  <2>1. Step("publish", This.doc, disk[This.doc]) \in Steps
    BY <1>3, <1>4 DEF Step, Steps
  <2>2. QED
    BY <2>1
<1>6. \E text \in Text : documents' = documents \/ documents' = [documents EXCEPT ![This.doc] = text]
  BY <1>3, <1>4 DEF upsert_document, remove_document, ReadChangedFile, Write
<1>7. documents' \in [Docs -> Text]
  BY <1>6 DEF Inv, TypeInv
<1>8. \E steps \in Seq(Steps) : Continue(steps)
  BY <1>5 DEF upsert_document, remove_document, ReadChangedFile
<1>9. /\ Turns'
      /\ handlers' \in Seq(Handlers) /\ Len(handlers') = Len(handlers)
      /\ turn' \in Nat /\ parked' \in Seq(Nat)
  BY <1>1, <1>8, GoOnTyped
<1>10. QED
  BY <1>1, <1>7, <1>9 DEF Inv, TypeInv

LEMMA FoldersTyped ==
  ASSUME Inv, did_change_workspace_folders
  PROVE  Inv'
<1>1. /\ turn # Nobody /\ handlers[Polled].steps # <<>> /\ Continue(<<>>)
      /\ roots' = (IF This.do = "addRoot" THEN roots \cup {This.root} ELSE roots \ {This.root})
      /\ This.do \in {"addRoot", "removeRoot"}
      /\ UNCHANGED <<editor, disk, events, changed, inbox, documents, turn, ready, parked, outbox, shown, started>>
  BY DEF did_change_workspace_folders, At, This, editorVars, clientVars
<1>2. This.root \in Roots
  BY <1>1, ThisIsAStep
<1>3. <<>> \in Seq(Steps)
  BY EmptySeq
<1>4. /\ Turns'
      /\ handlers' \in Seq(Handlers) /\ Len(handlers') = Len(handlers)
      /\ turn' \in Nat /\ parked' \in Seq(Nat)
  BY <1>1, <1>3, GoOnTyped
<1>5. QED
  BY <1>1, <1>2, <1>4 DEF Inv, TypeInv

LEMMA NextInv == Inv /\ [Next]_vars => Inv'
<1> SUFFICES ASSUME Inv, [Next]_vars PROVE Inv'
  OBVIOUS
<1>1. CASE UNCHANGED vars
  BY <1>1 DEF vars, editorVars, clientVars, Inv, TypeInv, Turns, AtWork, EachOnce
<1>2. CASE Server
  BY <1>2, TakeUpTyped, ResumeTyped, FinishTyped, LogMessageTyped, PublishTyped, WriteTyped, FoldersTyped
     DEF Server
<1>3. QED
  BY <1>1, <1>2, EnvironmentTyped, WriteOutTyped DEF Next

\* What is kept has its type, and a handler at work is polled, to be polled or waiting for
\* the client's channel, one of these and once: no handler is ever woken twice.
THEOREM TurnsAreTaken == Spec => [](TypeInv /\ Turns)
<1>1. QED
  BY InitInv, NextInv, PTL DEF Spec, Inv

-----------------------------------------------------------------------------
(* What is shown in the end *)

Publishes(s) == s # <<>> /\ s[1].do = "publish"

\* A text is published right after the map got it, and a text stored is published.
Ordered(s) ==
  \A i \in DOMAIN s :
    /\ \A j \in DOMAIN s : j = i + 1 /\ s[j].do = "publish" =>
         s[i].do \in {"store", "remove"} /\ s[i].doc = s[j].doc /\ s[i].text = s[j].text
    /\ s[i].do = "store"  => \E j \in DOMAIN s : j = i + 1 /\ s[j].do = "publish"
    /\ s[i].do = "remove" => s[i].text = NoText

\* Once what is sent is shown, d shows the text.
ShownLast(sent, seen, d, text) ==
  \/ /\ \A i \in DOMAIN sent : sent[i].doc # d
     /\ seen[d] = text
  \/ \E i \in DOMAIN sent :
       /\ sent[i].doc = d /\ sent[i].text = text
       /\ \A j \in DOMAIN sent : j > i => sent[j].doc # d

\* Only the handler being polled is about to publish, and what it publishes is what the
\* map has; what the map has is published last or about to be.
PublishedInTurn ==
  /\ \A i \in DOMAIN inbox : Ordered(inbox[i].steps) /\ ~ Publishes(inbox[i].steps)
  /\ \A i \in DOMAIN handlers :
       /\ Ordered(handlers[i].steps)
       /\ Publishes(handlers[i].steps) =>
            handlers[i].n = turn /\ documents[handlers[i].steps[1].doc] = handlers[i].steps[1].text
  /\ \A d \in Docs :
       \/ documents[d] = NoText
       \/ ShownLast(outbox, shown, d, documents[d])
       \/ \E i \in DOMAIN handlers : Publishes(handlers[i].steps) /\ handlers[i].steps[1].doc = d

\* Orders of steps survive going on.
LEMMA OrderedTail ==
  ASSUME NEW s \in Seq(Steps), s # <<>>, Ordered(s)
  PROVE  /\ Ordered(Tail(s))
         /\ Publishes(Tail(s)) =>
              /\ s[1].do \in {"store", "remove"}
              /\ Tail(s)[1].doc = s[1].doc /\ Tail(s)[1].text = s[1].text
         /\ s[1].do = "store" => Publishes(Tail(s))
         /\ s[1].do = "remove" => s[1].text = NoText
<1>1. /\ Tail(s) \in Seq(Steps) /\ Len(s) \in Nat /\ Len(s) >= 1 /\ Len(Tail(s)) = Len(s) - 1
      /\ DOMAIN s = 1 .. Len(s) /\ DOMAIN Tail(s) = 1 .. Len(s) - 1
      /\ \A i \in 1 .. Len(s) - 1 : Tail(s)[i] = s[i + 1]
  BY HeadTailProperties, LenProperties, EmptySeq
<1> DEFINE t == Tail(s)
<1> HIDE DEF t
<1>2. ASSUME NEW i \in DOMAIN t, NEW j \in DOMAIN t, j = i + 1, t[j].do = "publish"
      PROVE  t[i].do \in {"store", "remove"} /\ t[i].doc = t[j].doc /\ t[i].text = t[j].text
  <2>1. i + 1 \in DOMAIN s /\ j + 1 \in DOMAIN s /\ j + 1 = (i + 1) + 1 /\ t[i] = s[i + 1] /\ t[j] = s[j + 1]
    BY <1>1, <1>2 DEF t
  <2>2. QED
    BY <1>2, <2>1 DEF Ordered
<1>9. ASSUME NEW i \in DOMAIN t
      PROVE  /\ t[i].do = "store"  => \E j \in DOMAIN t : j = i + 1 /\ t[j].do = "publish"
             /\ t[i].do = "remove" => t[i].text = NoText
  <2>1. i \in Int /\ i >= 1 /\ i + 1 \in DOMAIN s /\ t[i] = s[i + 1]
    BY <1>1 DEF t
  <2>2. \A k \in DOMAIN s : k = (i + 1) + 1 => i + 1 \in DOMAIN t /\ t[i + 1] = s[k]
    BY <1>1, <2>1 DEF t
  <2>3. QED
    BY <2>1, <2>2 DEF Ordered
<1>3. Ordered(t)
  BY <1>2, <1>9 DEF Ordered
<1>4. Publishes(t) => 1 \in DOMAIN t /\ t[1] = s[2] /\ 2 \in DOMAIN s
  BY <1>1 DEF Publishes, t
<1>5. 2 \in DOMAIN s /\ s[2].do = "publish" =>
        s[1].do \in {"store", "remove"} /\ s[1].doc = s[2].doc /\ s[1].text = s[2].text
  <2>1. \A i, j \in DOMAIN s : j = i + 1 /\ s[j].do = "publish" =>
          s[i].do \in {"store", "remove"} /\ s[i].doc = s[j].doc /\ s[i].text = s[j].text
    BY DEF Ordered
  <2>2. 1 \in DOMAIN s /\ 2 = 1 + 1
    BY <1>1
  <2>3. QED
    BY <2>1, <2>2
<1>6. 1 \in DOMAIN s /\ (s[1].do = "store" => 2 \in DOMAIN s /\ s[2].do = "publish")
      /\ (s[1].do = "remove" => s[1].text = NoText)
  <2>1. \A i \in DOMAIN s :
          /\ s[i].do = "store"  => \E j \in DOMAIN s : j = i + 1 /\ s[j].do = "publish"
          /\ s[i].do = "remove" => s[i].text = NoText
    BY DEF Ordered
  <2>2. 1 \in DOMAIN s
    BY <1>1
  <2>3. s[1].do = "store" => \E j \in DOMAIN s : j = 1 + 1 /\ s[j].do = "publish"
    BY <2>1, <2>2
  <2>4. \A j \in DOMAIN s : j = 1 + 1 => j = 2
    BY <1>1
  <2>5. QED
    BY <2>1, <2>2, <2>3, <2>4
<1>7. s[1].do = "store" => Publishes(t)
  <2>1. 2 \in DOMAIN s => t # <<>> /\ t[1] = s[2]
    <3>1. 2 \in DOMAIN s => Len(s) >= 2
      BY <1>1
    <3>2. 2 \in DOMAIN s => 1 \in 1 .. Len(s) - 1 /\ 1 + 1 = 2
      BY <1>1, <3>1
    <3>3. 2 \in DOMAIN s => t[1] = s[2]
      BY <1>1, <3>2 DEF t
    <3>4. 2 \in DOMAIN s => Len(t) # 0
      BY <1>1, <3>1 DEF t
    <3>5. QED
      BY <3>3, <3>4, EmptySeq
  <2>2. QED
    BY <1>6, <2>1 DEF Publishes
<1>8. QED
  BY <1>3, <1>4, <1>5, <1>6, <1>7 DEF Publishes, t

\* A file that is read is published in place of the step that reads it.
LEMMA OrderedRead ==
  ASSUME NEW s \in Seq(Steps), s # <<>>, Ordered(s), s[1].do = "read", NEW d \in Docs, NEW text \in Text
  PROVE  LET t == <<Step("publish", d, text)>> \o Tail(s)
         IN Ordered(t) /\ t # <<>> /\ t[1] = Step("publish", d, text)
<1> DEFINE first == Step("publish", d, text)
           t == <<first>> \o Tail(s)
<1>1. first \in Steps /\ first.do = "publish"
  BY DEF Step, Steps
<1> HIDE DEF first
<1>2. /\ Len(s) \in Nat /\ Len(s) >= 1
      /\ t \in Seq(Steps) /\ DOMAIN t = 1 .. Len(s) /\ DOMAIN s = 1 .. Len(s)
      /\ t[1] = first /\ \A i \in 2 .. Len(s) : t[i] = s[i]
  <2>1. /\ Tail(s) \in Seq(Steps) /\ Len(s) \in Nat /\ Len(s) >= 1 /\ Len(Tail(s)) = Len(s) - 1
        /\ \A i \in 1 .. Len(s) - 1 : Tail(s)[i] = s[i + 1]
    BY HeadTailProperties, LenProperties, EmptySeq
  <2>2. <<first>> \in Seq(Steps) /\ Len(<<first>>) = 1 /\ <<first>>[1] = first
    BY <1>1
  <2>3. /\ t \in Seq(Steps) /\ Len(t) = Len(s)
        /\ \A i \in 1 .. Len(s) : t[i] = IF i <= 1 THEN <<first>>[i] ELSE Tail(s)[i - 1]
    BY <2>1, <2>2, ConcatProperties
  <2>4. \A i \in 2 .. Len(s) : i - 1 \in 1 .. Len(s) - 1 /\ (i - 1) + 1 = i
    BY <2>1
  <2>5. \A i \in 2 .. Len(s) : t[i] = s[i]
    BY <2>1, <2>3, <2>4
  <2>6. QED
    BY <2>1, <2>2, <2>3, <2>5, LenProperties
<1> HIDE DEF t
<1>3. ASSUME NEW i \in DOMAIN t, NEW j \in DOMAIN t, j = i + 1, t[j].do = "publish"
      PROVE  t[i].do \in {"store", "remove"} /\ t[i].doc = t[j].doc /\ t[i].text = t[j].text
  <2>1. i \in DOMAIN s /\ j \in DOMAIN s /\ t[j] = s[j]
    BY <1>2, <1>3
  <2>2. s[i].do \in {"store", "remove"} /\ s[i].doc = s[j].doc /\ s[i].text = s[j].text
    BY <1>3, <2>1 DEF Ordered
  <2>3. i # 1
    BY <2>2
  <2>4. t[i] = s[i]
    BY <1>2, <2>1, <2>3
  <2>5. QED
    BY <2>1, <2>2, <2>4
<1>6. ASSUME NEW i \in DOMAIN t
      PROVE  /\ t[i].do = "store"  => \E j \in DOMAIN t : j = i + 1 /\ t[j].do = "publish"
             /\ t[i].do = "remove" => t[i].text = NoText
  <2>1. CASE i = 1
    BY <1>1, <1>2, <2>1
  <2>2. CASE i # 1
    <3>1. t[i] = s[i] /\ i \in DOMAIN s
      BY <1>2, <2>2
    <3>2. \A j \in DOMAIN s : j = i + 1 => j \in DOMAIN t /\ t[j] = s[j]
      BY <1>2, <3>1
    <3>3. QED
      BY <3>1, <3>2 DEF Ordered
  <2>3. QED
    BY <2>1, <2>2
<1>4. Ordered(t)
  BY <1>3, <1>6 DEF Ordered
<1>5. QED
  BY <1>2, <1>4, EmptySeq DEF t, first

\* What is sent does not start by publishing.
LEMMA SentStepsOrdered ==
  ASSUME NEW d \in Docs, NEW text \in Text
  PROVE  \A s \in {DidOpen(d, text), DidChange(d, text), DidClose(d)} : Ordered(s) /\ ~ Publishes(s)
<1>1. Ordered(DidOpen(d, text)) /\ ~ Publishes(DidOpen(d, text))
  BY DEF Ordered, Publishes, DidOpen, Step
<1>2. Ordered(DidChange(d, text)) /\ ~ Publishes(DidChange(d, text))
  BY DEF Ordered, Publishes, DidChange, Step
<1>3. Ordered(DidClose(d)) /\ ~ Publishes(DidClose(d))
  BY DEF Ordered, Publishes, DidClose, Step
<1>4. QED
  BY <1>1, <1>2, <1>3

LEMMA WatchedStepsOrdered ==
  ASSUME Inv, NEW S \in SUBSET Docs
  PROVE  Ordered(DidChangeWatchedFiles(S)) /\ ~ Publishes(DidChangeWatchedFiles(S))
<1> DEFINE s == DidChangeWatchedFiles(S)
<1>1. s \in Seq(Steps) /\ \A i \in DOMAIN s : s[i].do \in {"remove", "read"} /\ s[i].text = NoText
  BY WatchedStepsTyped DEF DidChangeWatchedFiles, Step
<1> HIDE DEF s
<1>2. s # <<>> => 1 \in DOMAIN s
  BY <1>1, LenProperties, EmptySeq
<1>3. QED
  BY <1>1, <1>2 DEF Ordered, Publishes, s

LEMMA EnvironmentSends ==
  ASSUME Inv, Environment
  PROVE  \/ inbox' = inbox
         \/ \E m \in Sent : inbox' = Append(inbox, m) /\ Ordered(m.steps) /\ ~ Publishes(m.steps)
<1> DEFINE Sends == \/ inbox' = inbox
                    \/ \E m \in Sent : inbox' = Append(inbox, m) /\ Ordered(m.steps) /\ ~ Publishes(m.steps)
<1>1. ASSUME NEW docs \in SUBSET Docs, NEW what \in Kinds, NEW s \in Seq(Steps),
             Send(docs, what, s), Ordered(s), ~ Publishes(s)
      PROVE  Sends
  <2>1. [docs |-> docs, what |-> what, steps |-> s] \in Sent
    BY DEF Sent
  <2>2. QED
    BY <1>1, <2>1 DEF Send
<1> HIDE DEF Sends
<1>2. Event => New \in Text
  BY EventsAssumption DEF Inv, TypeInv, Event, New, Text, Texts
<1>3. ASSUME NEW d \in Docs, EditorOpens(d) PROVE Sends
  <2>1. disk[d] \in Text /\ {d} \in SUBSET Docs /\ "open" \in Kinds /\ Send({d}, "open", DidOpen(d, disk[d]))
    BY <1>3 DEF EditorOpens, Inv, TypeInv, Kinds
  <2>2. QED
    BY <1>1, <2>1, SentStepsTyped, SentStepsOrdered
<1>4. ASSUME NEW d \in Docs, EditorChanges(d) PROVE Sends
  <2>1. New \in Text /\ {d} \in SUBSET Docs /\ "change" \in Kinds /\ Send({d}, "change", DidChange(d, New))
    BY <1>2, <1>4 DEF EditorChanges, Kinds
  <2>2. QED
    BY <1>1, <2>1, SentStepsTyped, SentStepsOrdered
<1>5. ASSUME NEW d \in Docs, EditorCloses(d) PROVE Sends
  <2>1. NoText \in Text /\ {d} \in SUBSET Docs /\ "close" \in Kinds /\ Send({d}, "close", DidClose(d))
    BY <1>5 DEF EditorCloses, Kinds, Text
  <2>2. QED
    BY <1>1, <2>1, SentStepsTyped, SentStepsOrdered
<1>6. ASSUME WatcherReports PROVE Sends
  <2>1. PICK S \in SUBSET Docs : Send(S, "files", DidChangeWatchedFiles(S))
    BY <1>6 DEF WatcherReports, Inv, TypeInv
  <2>2. QED
    BY <1>1, <2>1, WatchedStepsTyped, WatchedStepsOrdered DEF Kinds
<1>7. ASSUME FoldersChange PROVE Sends
  <2>1. PICK root \in Roots, do \in {"addRoot", "removeRoot"} :
          Send({}, "folders", <<[do |-> do, root |-> root]>>)
    BY <1>7 DEF FoldersChange
  <2>2. <<[do |-> do, root |-> root]>> \in Seq(Steps)
    BY DEF Steps
  <2>3. /\ Ordered(<<[do |-> do, root |-> root]>>)
        /\ ~ Publishes(<<[do |-> do, root |-> root]>>)
    <3>1. do # "publish" /\ do # "store" /\ do # "remove"
      OBVIOUS
    <3>2. QED
      BY <3>1 DEF Ordered, Publishes
  <2>4. QED
    BY <1>1, <2>1, <2>2, <2>3 DEF Kinds
<1>8. QED
  BY <1>3, <1>4, <1>5, <1>6, <1>7 DEF Environment, EditorSaves, DiskChanges, Sends

-----------------------------------------------------------------------------
Message == [doc : Docs \cup {"log"}, text : Text]

\* A message put in the channel is the last about its document and leaves the others'.
LEMMA LastAppended ==
  ASSUME NEW sent \in Seq(Message), NEW m \in Message, NEW seen, NEW d, NEW t
  PROVE  /\ ShownLast(Append(sent, m), seen, m.doc, m.text)
         /\ d # m.doc /\ ShownLast(sent, seen, d, t) => ShownLast(Append(sent, m), seen, d, t)
<1> DEFINE more == Append(sent, m)
<1>1. /\ Len(sent) \in Nat /\ DOMAIN sent = 1 .. Len(sent) /\ DOMAIN more = 1 .. Len(sent) + 1
      /\ \A i \in DOMAIN sent : more[i] = sent[i]
      /\ more[Len(sent) + 1] = m
  BY AppendProperties, LenProperties
<1> HIDE DEF more
<1>2. ShownLast(more, seen, m.doc, m.text)
  <2>1. Len(sent) + 1 \in DOMAIN more /\ \A j \in DOMAIN more : ~ (j > Len(sent) + 1)
    BY <1>1
  <2>2. QED
    BY <1>1, <2>1 DEF ShownLast
<1>3. ASSUME d # m.doc, ShownLast(sent, seen, d, t) PROVE ShownLast(more, seen, d, t)
  <2>1. \A j \in DOMAIN more : j \in DOMAIN sent \/ j = Len(sent) + 1
    BY <1>1
  <2>2. CASE (\A i \in DOMAIN sent : sent[i].doc # d) /\ seen[d] = t
    <3>1. \A i \in DOMAIN more : more[i].doc # d
      BY <1>1, <1>3, <2>1, <2>2
    <3>2. QED
      BY <2>2, <3>1 DEF ShownLast
  <2>3. CASE \E i \in DOMAIN sent :
               /\ sent[i].doc = d /\ sent[i].text = t
               /\ \A j \in DOMAIN sent : j > i => sent[j].doc # d
    <3>1. PICK i \in DOMAIN sent :
            /\ sent[i].doc = d /\ sent[i].text = t
            /\ \A j \in DOMAIN sent : j > i => sent[j].doc # d
      BY <2>3
    <3>2. \A j \in DOMAIN more : j > i => more[j].doc # d
      BY <1>1, <1>3, <2>1, <3>1
    <3>3. i \in DOMAIN more /\ more[i] = sent[i]
      BY <1>1
    <3>4. QED
      BY <3>1, <3>2, <3>3 DEF ShownLast
  <2>4. QED
    BY <1>3, <2>2, <2>3 DEF ShownLast
<1>4. QED
  BY <1>2, <1>3 DEF more

\* Writing out the first message keeps what is shown in the end.
LEMMA LastWrittenOut ==
  ASSUME NEW sent \in Seq(Message), sent # <<>>, NEW seen, NEW seen2, NEW d \in Docs, NEW t,
         seen2 = [e \in Docs |-> IF e = Head(sent).doc THEN Head(sent).text ELSE seen[e]],
         ShownLast(sent, seen, d, t)
  PROVE  ShownLast(Tail(sent), seen2, d, t)
<1> DEFINE rest == Tail(sent)
<1>1. /\ Len(sent) \in Nat /\ Len(sent) >= 1 /\ Head(sent) = sent[1]
      /\ DOMAIN sent = 1 .. Len(sent) /\ DOMAIN rest = 1 .. Len(sent) - 1
      /\ \A i \in 1 .. Len(sent) - 1 : rest[i] = sent[i + 1]
  BY HeadTailProperties, LenProperties, EmptySeq
<1> HIDE DEF rest
<1>2. seen2[d] = IF d = sent[1].doc THEN sent[1].text ELSE seen[d]
  BY <1>1
<1>3. \A i \in DOMAIN rest : i + 1 \in DOMAIN sent /\ i + 1 > 1 /\ rest[i] = sent[i + 1]
  BY <1>1
<1>4. CASE (\A i \in DOMAIN sent : sent[i].doc # d) /\ seen[d] = t
  <2>1. \A i \in DOMAIN rest : rest[i].doc # d
    BY <1>3, <1>4
  <2>2. 1 \in DOMAIN sent
    BY <1>1
  <2>3. QED
    BY <1>2, <1>4, <2>1, <2>2 DEF ShownLast, rest
<1>5. ASSUME NEW i \in DOMAIN sent, sent[i].doc = d, sent[i].text = t,
             \A j \in DOMAIN sent : j > i => sent[j].doc # d
      PROVE  ShownLast(rest, seen2, d, t)
  <2>1. CASE i = 1
    <3>1. \A j \in DOMAIN rest : rest[j].doc # d
      BY <1>3, <1>5, <2>1
    <3>2. QED
      BY <1>2, <1>5, <2>1, <3>1 DEF ShownLast
  <2>2. CASE i # 1
    <3>1. PICK k \in DOMAIN rest : k + 1 = i /\ rest[k] = sent[i]
      <4>1. i - 1 \in DOMAIN rest /\ (i - 1) + 1 = i
        BY <1>1, <2>2
      <4>2. QED
        BY <1>3, <4>1
    <3>2. \A j \in DOMAIN rest : j > k => j + 1 > i
      BY <1>1, <3>1
    <3>3. \A j \in DOMAIN rest : j > k => rest[j].doc # d
      BY <1>3, <1>5, <3>2
    <3>4. QED
      BY <1>5, <3>1, <3>3 DEF ShownLast
  <2>3. QED
    BY <2>1, <2>2
<1>6. QED
  BY <1>4, <1>5 DEF ShownLast, rest

-----------------------------------------------------------------------------
\* The handler being polled goes on: the others stay as they are, about to do anything
\* but publish.
LEMMA GoesOn ==
  ASSUME Inv, PublishedInTurn, turn # Nobody, handlers[Polled].steps # <<>>,
         NEW steps \in Seq(Steps), Continue(steps)
  PROVE  /\ Polled \in DOMAIN handlers /\ DOMAIN handlers' = DOMAIN handlers
         /\ \A i \in DOMAIN handlers \ {Polled} :
              Ordered(handlers'[i].steps) /\ ~ Publishes(handlers[i].steps) /\ ~ Publishes(handlers'[i].steps)
         /\ handlers'[Polled].n = turn
         /\ handlers'[Polled].steps = steps \o Tail(handlers[Polled].steps)
         /\ handlers[Polled].steps \in Seq(Steps) /\ Ordered(handlers[Polled].steps)
         /\ This = handlers[Polled].steps[1]
         /\ Tail(handlers[Polled].steps) \in Seq(Steps)
<1>1. /\ Polled \in DOMAIN handlers /\ handlers[Polled].n = turn /\ handlers[Polled] \in Handlers
      /\ \A i \in DOMAIN handlers : handlers[i].n = turn => i = Polled
  BY PolledIsAtWork
<1>2. /\ handlers' \in Seq(Handlers) /\ Len(handlers') = Len(handlers)
      /\ \A i \in DOMAIN handlers :
           /\ handlers'[i].n = handlers[i].n
           /\ i # Polled => handlers'[i] = handlers[i]
      /\ handlers'[Polled].steps = steps \o Tail(handlers[Polled].steps)
  BY ContinueProperties
<1>3. DOMAIN handlers' = DOMAIN handlers
  BY <1>2, LenProperties DEF Inv, TypeInv
<1>4. \A i \in DOMAIN handlers \ {Polled} : Ordered(handlers[i].steps) /\ ~ Publishes(handlers[i].steps)
  BY <1>1 DEF PublishedInTurn
<1>5. /\ handlers[Polled].steps \in Seq(Steps) /\ Ordered(handlers[Polled].steps)
      /\ This = handlers[Polled].steps[1] /\ Tail(handlers[Polled].steps) \in Seq(Steps)
  BY <1>1, HeadTailProperties DEF Handlers, PublishedInTurn, This
<1>6. QED
  BY <1>1, <1>2, <1>3, <1>4, <1>5

\* When nothing is about to be published, what the map has is published last.
LEMMA NothingDue ==
  ASSUME Inv, PublishedInTurn, turn = Nobody \/ handlers[Polled].steps = <<>> \/ This.do # "publish"
  PROVE  /\ \A i \in DOMAIN handlers : ~ Publishes(handlers[i].steps)
         /\ \A d \in Docs : documents[d] = NoText \/ ShownLast(outbox, shown, d, documents[d])
<1>1. ASSUME NEW i \in DOMAIN handlers, Publishes(handlers[i].steps) PROVE FALSE
  <2>1. handlers[i].n = turn /\ handlers[i].steps # <<>> /\ handlers[i].steps[1].do = "publish"
    BY <1>1 DEF PublishedInTurn, Publishes
  <2>2. turn # Nobody
    BY <2>1 DEF Inv, Turns, TypeInv, Nobody
  <2>3. i = Polled
    BY <2>1, <2>2, PolledIsAtWork
  <2>4. handlers[i] \in Handlers
    BY <2>2, <2>3, PolledIsAtWork
  <2>5. This.do = "publish"
    BY <2>1, <2>3, <2>4, HeadTailProperties DEF This, Handlers
  <2>6. QED
    BY <2>1, <2>2, <2>3, <2>5
<1>2. QED
  BY <1>1 DEF PublishedInTurn

LEMMA EmptyBefore ==
  ASSUME NEW s \in Seq(Steps)
  PROVE  <<>> \in Seq(Steps) /\ <<>> \o s = s
<1>1. QED
  BY ConcatEmptySeq, EmptySeq

LEMMA LogKeepsOrder ==
  ASSUME Inv, PublishedInTurn, LogMessage
  PROVE  PublishedInTurn'
<1>1. /\ turn # Nobody /\ handlers[Polled].steps # <<>> /\ Continue(<<>>) /\ SendToClient(Log)
      /\ This.do = "log" /\ UNCHANGED <<inbox, documents, shown>>
  BY DEF LogMessage, At, This
<1> DEFINE s == handlers[Polled].steps
<1>2. <<>> \in Seq(Steps)
  BY EmptySeq
<1>3. /\ Polled \in DOMAIN handlers /\ DOMAIN handlers' = DOMAIN handlers
      /\ \A i \in DOMAIN handlers \ {Polled} : Ordered(handlers'[i].steps) /\ ~ Publishes(handlers'[i].steps)
      /\ handlers'[Polled].steps = <<>> \o Tail(s)
      /\ s \in Seq(Steps) /\ Ordered(s) /\ This = s[1] /\ Tail(s) \in Seq(Steps)
  BY <1>1, <1>2, GoesOn
<1>4. Ordered(handlers'[Polled].steps) /\ ~ Publishes(handlers'[Polled].steps)
  BY <1>1, <1>3, OrderedTail, EmptyBefore
<1>5. \A d \in Docs : documents[d] = NoText \/ ShownLast(outbox, shown, d, documents[d])
  BY <1>1, NothingDue
<1>6. outbox' = Append(outbox, Log) /\ Log \in Message /\ outbox \in Seq(Message)
  BY <1>1 DEF SendToClient, Log, Message, Text, Inv, TypeInv
<1>7. \A d \in Docs : d # Log.doc
  BY DocsAssumption DEF Log
<1>8. \A d \in Docs : documents'[d] = NoText \/ ShownLast(outbox', shown', d, documents'[d])
  BY <1>1, <1>5, <1>6, <1>7, LastAppended
<1>9. QED
  BY <1>1, <1>3, <1>4, <1>8 DEF PublishedInTurn

LEMMA FoldersKeepOrder ==
  ASSUME Inv, PublishedInTurn, did_change_workspace_folders
  PROVE  PublishedInTurn'
<1>1. /\ turn # Nobody /\ handlers[Polled].steps # <<>> /\ Continue(<<>>)
      /\ This.do \in {"addRoot", "removeRoot"} /\ UNCHANGED <<inbox, documents, shown, outbox>>
  BY DEF did_change_workspace_folders, At, This, clientVars
<1> DEFINE s == handlers[Polled].steps
<1>2. <<>> \in Seq(Steps)
  BY EmptySeq
<1>3. /\ Polled \in DOMAIN handlers /\ DOMAIN handlers' = DOMAIN handlers
      /\ \A i \in DOMAIN handlers \ {Polled} : Ordered(handlers'[i].steps) /\ ~ Publishes(handlers'[i].steps)
      /\ handlers'[Polled].steps = <<>> \o Tail(s)
      /\ s \in Seq(Steps) /\ Ordered(s) /\ This = s[1] /\ Tail(s) \in Seq(Steps)
  BY <1>1, <1>2, GoesOn
<1>4. Ordered(handlers'[Polled].steps) /\ ~ Publishes(handlers'[Polled].steps)
  BY <1>1, <1>3, OrderedTail, EmptyBefore
<1>5. \A d \in Docs : documents[d] = NoText \/ ShownLast(outbox, shown, d, documents[d])
  BY <1>1, NothingDue
<1>6. QED
  BY <1>1, <1>3, <1>4, <1>5 DEF PublishedInTurn

LEMMA PublishKeepsOrder ==
  ASSUME Inv, PublishedInTurn, PublishDiagnostics
  PROVE  PublishedInTurn'
<1> DEFINE s == handlers[Polled].steps
           m == [doc |-> This.doc, text |-> This.text]
<1>1. /\ turn # Nobody /\ s # <<>> /\ Continue(<<>>) /\ SendToClient(m)
      /\ This.do = "publish" /\ UNCHANGED <<inbox, documents, shown>>
  BY DEF PublishDiagnostics, At, This
<1>2. <<>> \in Seq(Steps)
  BY EmptySeq
<1>3. /\ Polled \in DOMAIN handlers /\ DOMAIN handlers' = DOMAIN handlers
      /\ \A i \in DOMAIN handlers \ {Polled} :
           Ordered(handlers'[i].steps) /\ ~ Publishes(handlers[i].steps) /\ ~ Publishes(handlers'[i].steps)
      /\ handlers'[Polled].steps = <<>> \o Tail(s)
      /\ s \in Seq(Steps) /\ Ordered(s) /\ This = s[1] /\ Tail(s) \in Seq(Steps)
  BY <1>1, <1>2, GoesOn
<1>4. Ordered(handlers'[Polled].steps) /\ ~ Publishes(handlers'[Polled].steps)
  BY <1>1, <1>3, OrderedTail, EmptyBefore
<1>5. This.doc \in Docs /\ This.text \in Text
  BY <1>1, ThisIsAStep
<1>6. outbox' = Append(outbox, m) /\ m \in Message /\ outbox \in Seq(Message)
  BY <1>1, <1>5 DEF SendToClient, Message, Inv, TypeInv
<1>7. documents[This.doc] = This.text
  BY <1>1, <1>3 DEF PublishedInTurn, Publishes
<1>8. ASSUME NEW d \in Docs PROVE documents[d] = NoText \/ ShownLast(outbox', shown, d, documents[d])
  <2>1. CASE d = This.doc
    BY <1>6, <1>7, <2>1, LastAppended
  <2>2. CASE d # This.doc
    <3>1. documents[d] = NoText \/ ShownLast(outbox, shown, d, documents[d])
      BY <1>3, <2>2 DEF PublishedInTurn
    <3>2. d # m.doc
      BY <2>2
    <3>3. QED
      BY <1>6, <3>1, <3>2, LastAppended
  <2>3. QED
    BY <2>1, <2>2
<1>9. QED
  BY <1>1, <1>3, <1>4, <1>8 DEF PublishedInTurn

\* A step that writes This.doc leaves what the map has of the others, which is shown last.
LEMMA OthersStay ==
  ASSUME Inv, PublishedInTurn, This.do # "publish", NEW text,
         documents' = [documents EXCEPT ![This.doc] = text], UNCHANGED <<outbox, shown>>,
         NEW d \in Docs, d # This.doc
  PROVE  documents'[d] = NoText \/ ShownLast(outbox', shown', d, documents'[d])
<1>1. documents'[d] = documents[d]
  BY DEF Inv, TypeInv
<1>2. documents[d] = NoText \/ ShownLast(outbox, shown, d, documents[d])
  BY NothingDue
<1>3. QED
  BY <1>1, <1>2

LEMMA StoreKeepsOrder ==
  ASSUME Inv, PublishedInTurn, upsert_document
  PROVE  PublishedInTurn'
<1> DEFINE s == handlers[Polled].steps
<1>1. /\ turn # Nobody /\ turn' = turn /\ s # <<>> /\ Continue(<<>>) /\ This.do = "store"
      /\ documents' = [documents EXCEPT ![This.doc] = This.text] /\ UNCHANGED <<inbox, outbox, shown>>
  BY DEF upsert_document, At, This, Write, clientVars
<1>2. <<>> \in Seq(Steps)
  BY EmptySeq
<1>3. /\ Polled \in DOMAIN handlers /\ DOMAIN handlers' = DOMAIN handlers
      /\ \A i \in DOMAIN handlers \ {Polled} : Ordered(handlers'[i].steps) /\ ~ Publishes(handlers'[i].steps)
      /\ handlers'[Polled].n = turn
      /\ handlers'[Polled].steps = <<>> \o Tail(s)
      /\ s \in Seq(Steps) /\ Ordered(s) /\ This = s[1] /\ Tail(s) \in Seq(Steps)
  BY <1>1, <1>2, GoesOn
<1>4. handlers'[Polled].steps = Tail(s)
  BY <1>3, EmptyBefore
<1>5. /\ Ordered(Tail(s)) /\ Publishes(Tail(s))
      /\ Tail(s)[1].doc = This.doc /\ Tail(s)[1].text = This.text
  BY <1>1, <1>3, OrderedTail
<1>6. This.doc \in Docs
  BY <1>1, ThisIsAStep
<1>7. documents'[This.doc] = This.text
  BY <1>1, <1>6 DEF Inv, TypeInv
<1>8. \A i \in DOMAIN handlers' :
        /\ Ordered(handlers'[i].steps)
        /\ Publishes(handlers'[i].steps) =>
             handlers'[i].n = turn' /\ documents'[handlers'[i].steps[1].doc] = handlers'[i].steps[1].text
  BY <1>1, <1>3, <1>4, <1>5, <1>7
<1>9. ASSUME NEW d \in Docs
      PROVE  \/ documents'[d] = NoText
             \/ ShownLast(outbox', shown', d, documents'[d])
             \/ \E i \in DOMAIN handlers' : Publishes(handlers'[i].steps) /\ handlers'[i].steps[1].doc = d
  <2>1. CASE d = This.doc
    BY <1>3, <1>4, <1>5, <2>1
  <2>2. CASE d # This.doc
    BY <1>1, <2>2, OthersStay
  <2>3. QED
    BY <2>1, <2>2
<1>10. QED
  BY <1>1, <1>8, <1>9 DEF PublishedInTurn

LEMMA RemoveKeepsOrder ==
  ASSUME Inv, PublishedInTurn, remove_document
  PROVE  PublishedInTurn'
<1> DEFINE s == handlers[Polled].steps
<1>1. /\ turn # Nobody /\ turn' = turn /\ s # <<>> /\ Continue(<<>>) /\ This.do = "remove"
      /\ documents' = [documents EXCEPT ![This.doc] = NoText] /\ UNCHANGED <<inbox, outbox, shown>>
  BY DEF remove_document, At, This, Write, clientVars
<1>2. <<>> \in Seq(Steps)
  BY EmptySeq
<1>3. /\ Polled \in DOMAIN handlers /\ DOMAIN handlers' = DOMAIN handlers
      /\ \A i \in DOMAIN handlers \ {Polled} : Ordered(handlers'[i].steps) /\ ~ Publishes(handlers'[i].steps)
      /\ handlers'[Polled].n = turn
      /\ handlers'[Polled].steps = <<>> \o Tail(s)
      /\ s \in Seq(Steps) /\ Ordered(s) /\ This = s[1] /\ Tail(s) \in Seq(Steps)
  BY <1>1, <1>2, GoesOn
<1>4. handlers'[Polled].steps = Tail(s)
  BY <1>3, EmptyBefore
<1>5. /\ Ordered(Tail(s))
      /\ Publishes(Tail(s)) => Tail(s)[1].doc = This.doc /\ Tail(s)[1].text = NoText
  BY <1>1, <1>3, OrderedTail
<1>6. This.doc \in Docs
  BY <1>1, ThisIsAStep
<1>7. documents'[This.doc] = NoText
  BY <1>1, <1>6 DEF Inv, TypeInv
<1>8. \A i \in DOMAIN handlers' :
        /\ Ordered(handlers'[i].steps)
        /\ Publishes(handlers'[i].steps) =>
             handlers'[i].n = turn' /\ documents'[handlers'[i].steps[1].doc] = handlers'[i].steps[1].text
  BY <1>1, <1>3, <1>4, <1>5, <1>7
<1>9. ASSUME NEW d \in Docs PROVE documents'[d] = NoText \/ ShownLast(outbox', shown', d, documents'[d])
  BY <1>1, <1>7, OthersStay
<1>10. QED
  BY <1>1, <1>8, <1>9 DEF PublishedInTurn

LEMMA ReadKeepsOrder ==
  ASSUME Inv, PublishedInTurn, ReadChangedFile
  PROVE  PublishedInTurn'
<1> DEFINE s == handlers[Polled].steps
           text == disk[This.doc]
           due == Step("publish", This.doc, text)
<1>1. /\ turn # Nobody /\ turn' = turn /\ s # <<>> /\ This.do = "read" /\ UNCHANGED <<inbox, outbox, shown>>
  BY DEF ReadChangedFile, At, This, clientVars
<1>2. This.doc \in Docs
  BY <1>1, ThisIsAStep
<1>3. text \in Text
  BY <1>2 DEF Inv, TypeInv
<1>4. <<>> \in Seq(Steps) /\ <<due>> \in Seq(Steps)
  <2>1. due \in Steps
    BY <1>2, <1>3 DEF Step, Steps
  <2>2. QED
    BY <2>1
<1>5. CASE Continue(<<>>) /\ documents' = documents
  <2>1. /\ Polled \in DOMAIN handlers /\ DOMAIN handlers' = DOMAIN handlers
        /\ \A i \in DOMAIN handlers \ {Polled} : Ordered(handlers'[i].steps) /\ ~ Publishes(handlers'[i].steps)
        /\ handlers'[Polled].steps = <<>> \o Tail(s)
        /\ s \in Seq(Steps) /\ Ordered(s) /\ This = s[1] /\ Tail(s) \in Seq(Steps)
    BY <1>1, <1>4, <1>5, GoesOn
  <2>2. Ordered(handlers'[Polled].steps) /\ ~ Publishes(handlers'[Polled].steps)
    BY <1>1, <2>1, OrderedTail, EmptyBefore
  <2>3. \A d \in Docs : documents[d] = NoText \/ ShownLast(outbox, shown, d, documents[d])
    BY <1>1, NothingDue
  <2>4. QED
    BY <1>1, <1>5, <2>1, <2>2, <2>3 DEF PublishedInTurn
<1>6. CASE Continue(<<due>>) /\ documents' = [documents EXCEPT ![This.doc] = text]
  <2>1. /\ Polled \in DOMAIN handlers /\ DOMAIN handlers' = DOMAIN handlers
        /\ \A i \in DOMAIN handlers \ {Polled} : Ordered(handlers'[i].steps) /\ ~ Publishes(handlers'[i].steps)
        /\ handlers'[Polled].n = turn
        /\ handlers'[Polled].steps = <<due>> \o Tail(s)
        /\ s \in Seq(Steps) /\ Ordered(s) /\ This = s[1]
    BY <1>1, <1>4, <1>6, GoesOn
  <2>2. /\ Ordered(handlers'[Polled].steps) /\ handlers'[Polled].steps # <<>>
        /\ handlers'[Polled].steps[1] = due
    BY <1>1, <1>2, <1>3, <2>1, OrderedRead
  <2>3. due.do = "publish" /\ due.doc = This.doc /\ due.text = text
    BY DEF Step
  <2>4. documents'[This.doc] = text
    BY <1>2, <1>6 DEF Inv, TypeInv
  <2>5. \A i \in DOMAIN handlers' :
          /\ Ordered(handlers'[i].steps)
          /\ Publishes(handlers'[i].steps) =>
               handlers'[i].n = turn' /\ documents'[handlers'[i].steps[1].doc] = handlers'[i].steps[1].text
    BY <1>1, <2>1, <2>2, <2>3, <2>4
  <2>6. ASSUME NEW d \in Docs
        PROVE  \/ documents'[d] = NoText
               \/ ShownLast(outbox', shown', d, documents'[d])
               \/ \E i \in DOMAIN handlers' : Publishes(handlers'[i].steps) /\ handlers'[i].steps[1].doc = d
    <3>1. CASE d = This.doc
      BY <2>1, <2>2, <2>3, <3>1 DEF Publishes
    <3>2. CASE d # This.doc
      BY <1>1, <1>6, <3>2, OthersStay
    <3>3. QED
      BY <3>1, <3>2
  <2>7. QED
    BY <1>1, <2>5, <2>6 DEF PublishedInTurn
<1>7. QED
  BY <1>5, <1>6 DEF ReadChangedFile, Write

LEMMA TakeUpKeepsOrder ==
  ASSUME Inv, PublishedInTurn, TakeUp
  PROVE  PublishedInTurn'
<1> DEFINE message == Head(inbox)
           h == [n |-> started + 1, what |-> message.what, steps |-> message.steps]
<1>1. /\ inbox # <<>> /\ inbox' = Tail(inbox) /\ turn = Nobody /\ turn' = turn
      /\ UNCHANGED <<documents, outbox, shown>>
      /\ handlers' = Append(handlers, h)
  BY DEF TakeUp, clientVars
<1>2. /\ inbox \in Seq(Sent) /\ message = inbox[1] /\ message \in Sent /\ 1 \in DOMAIN inbox
      /\ \A i \in DOMAIN inbox' : i + 1 \in DOMAIN inbox /\ inbox'[i] = inbox[i + 1]
  BY <1>1, HeadTailProperties, LenProperties, EmptySeq DEF Inv, TypeInv
<1>3. h \in Handlers /\ h.steps = message.steps
  BY <1>2 DEF Sent, Handlers, Inv, TypeInv
<1> HIDE DEF message, h
<1>4. /\ DOMAIN handlers' = 1 .. Len(handlers) + 1 /\ DOMAIN handlers = 1 .. Len(handlers)
      /\ Len(handlers) \in Nat
      /\ \A i \in DOMAIN handlers : handlers'[i] = handlers[i]
      /\ handlers'[Len(handlers) + 1] = h
  BY <1>1, <1>3, AppendProperties, LenProperties DEF Inv, TypeInv
<1>5. \A i \in DOMAIN handlers' : i \in DOMAIN handlers \/ i = Len(handlers) + 1
  BY <1>4
<1>6. /\ \A i \in DOMAIN handlers : ~ Publishes(handlers[i].steps)
      /\ \A d \in Docs : documents[d] = NoText \/ ShownLast(outbox, shown, d, documents[d])
  BY <1>1, NothingDue
<1>7. Ordered(h.steps) /\ ~ Publishes(h.steps)
  BY <1>2, <1>3 DEF PublishedInTurn
<1>8. \A i \in DOMAIN handlers' : Ordered(handlers'[i].steps) /\ ~ Publishes(handlers'[i].steps)
  BY <1>4, <1>5, <1>6, <1>7 DEF PublishedInTurn
<1>9. \A i \in DOMAIN inbox' : Ordered(inbox'[i].steps) /\ ~ Publishes(inbox'[i].steps)
  BY <1>2 DEF PublishedInTurn
<1>10. QED
  BY <1>1, <1>6, <1>8, <1>9 DEF PublishedInTurn

LEMMA ResumeKeepsOrder ==
  ASSUME Inv, PublishedInTurn, Resume
  PROVE  PublishedInTurn'
<1>1. turn = Nobody /\ UNCHANGED <<inbox, handlers, documents, outbox, shown>>
  BY DEF Resume, clientVars
<1>2. QED
  BY <1>1, NothingDue DEF PublishedInTurn

LEMMA FinishKeepsOrder ==
  ASSUME Inv, PublishedInTurn, Finish
  PROVE  PublishedInTurn'
<1>1. /\ turn # Nobody /\ handlers[Polled].steps = <<>> /\ handlers' = RemoveAt(handlers, Polled)
      /\ UNCHANGED <<inbox, documents, outbox, shown>>
  BY DEF Finish, clientVars
<1>2. Polled \in DOMAIN handlers
  BY <1>1, PolledIsAtWork
<1>3. \A j \in DOMAIN handlers' : \E i \in DOMAIN handlers : handlers'[j] = handlers[i]
  <2>1. /\ Len(handlers') = Len(handlers) - 1 /\ handlers' \in Seq(Handlers)
        /\ \A j \in DOMAIN handlers' : handlers'[j] = IF j < Polled THEN handlers[j] ELSE handlers[j + 1]
    BY <1>1, <1>2, RemoveAtProperties DEF Inv, TypeInv
  <2>2. /\ DOMAIN handlers = 1 .. Len(handlers) /\ DOMAIN handlers' = 1 .. Len(handlers) - 1
        /\ Len(handlers) \in Nat
    BY <2>1, LenProperties DEF Inv, TypeInv
  <2>3. \A j \in DOMAIN handlers' : j \in DOMAIN handlers /\ j + 1 \in DOMAIN handlers
    BY <2>2
  <2>4. QED
    BY <2>1, <2>3
<1>4. /\ \A i \in DOMAIN handlers : ~ Publishes(handlers[i].steps)
      /\ \A d \in Docs : documents[d] = NoText \/ ShownLast(outbox, shown, d, documents[d])
  BY <1>1, NothingDue
<1>5. \A j \in DOMAIN handlers' : Ordered(handlers'[j].steps) /\ ~ Publishes(handlers'[j].steps)
  BY <1>3, <1>4 DEF PublishedInTurn
<1>6. QED
  BY <1>1, <1>4, <1>5 DEF PublishedInTurn

LEMMA WriteOutKeepsOrder ==
  ASSUME Inv, PublishedInTurn, WriteOut
  PROVE  PublishedInTurn'
<1>1. /\ outbox # <<>> /\ outbox' = Tail(outbox)
      /\ shown' = [d \in Docs |-> IF d = Head(outbox).doc THEN Head(outbox).text ELSE shown[d]]
      /\ UNCHANGED <<inbox, handlers, turn, documents>>
  BY DEF WriteOut
<1>2. outbox \in Seq(Message)
  BY DEF Inv, TypeInv, Message
<1>3. \A d \in Docs : ShownLast(outbox, shown, d, documents[d]) => ShownLast(outbox', shown', d, documents[d])
  BY <1>1, <1>2, LastWrittenOut
<1>4. QED
  BY <1>1, <1>3 DEF PublishedInTurn

LEMMA EnvironmentKeepsOrder ==
  ASSUME Inv, PublishedInTurn, Environment
  PROVE  PublishedInTurn'
<1>1. UNCHANGED <<handlers, turn, documents, outbox, shown>>
  BY DEF Environment, clientVars
<1>2. \A i \in DOMAIN inbox' : Ordered(inbox'[i].steps) /\ ~ Publishes(inbox'[i].steps)
  <2>1. CASE inbox' = inbox
    BY <2>1 DEF PublishedInTurn
  <2>2. ASSUME NEW m \in Sent, inbox' = Append(inbox, m), Ordered(m.steps), ~ Publishes(m.steps)
        PROVE  <1>2
    <3>1. /\ \A i \in DOMAIN inbox' : i \in DOMAIN inbox \/ i = Len(inbox) + 1
          /\ \A i \in DOMAIN inbox : inbox'[i] = inbox[i]
          /\ inbox'[Len(inbox) + 1] = m
      BY <2>2, AppendProperties, LenProperties DEF Inv, TypeInv
    <3>2. QED
      BY <2>2, <3>1 DEF PublishedInTurn
  <2>3. QED
    BY <2>1, <2>2, EnvironmentSends
<1>3. QED
  BY <1>1, <1>2 DEF PublishedInTurn

LEMMA InitPublishedInTurn == Init => PublishedInTurn
<1>1. QED
  BY DEF Init, PublishedInTurn

LEMMA NextPublishedInTurn == Inv /\ PublishedInTurn /\ [Next]_vars => PublishedInTurn'
<1> SUFFICES ASSUME Inv, PublishedInTurn, [Next]_vars PROVE PublishedInTurn'
  OBVIOUS
<1>1. CASE UNCHANGED vars
  BY <1>1 DEF vars, editorVars, clientVars, PublishedInTurn
<1>2. CASE Server
  BY <1>2, TakeUpKeepsOrder, ResumeKeepsOrder, FinishKeepsOrder, LogKeepsOrder, PublishKeepsOrder,
     StoreKeepsOrder, RemoveKeepsOrder, ReadKeepsOrder, FoldersKeepOrder DEF Server
<1>3. QED
  BY <1>1, <1>2, EnvironmentKeepsOrder, WriteOutKeepsOrder DEF Next

\* When everything is handled, the diagnostics shown of a document in the map are about
\* the text in the map, whatever the order in which handlers waited and went on.
THEOREM ShownInTheEnd == Spec => []ShownIsAnalyzed
<1>1. PublishedInTurn => ShownIsAnalyzed
  <2> SUFFICES ASSUME PublishedInTurn, Quiet, NEW d \in Docs, documents[d] # NoText
               PROVE  shown[d] = documents[d]
    BY DEF ShownIsAnalyzed
  <2>1. handlers = <<>> /\ outbox = <<>>
    BY DEF Quiet
  <2>2. ShownLast(outbox, shown, d, documents[d])
    BY <2>1 DEF PublishedInTurn
  <2>3. QED
    BY <2>1, <2>2 DEF ShownLast
<1>2. QED
  BY <1>1, InitInv, NextInv, InitPublishedInTurn, NextPublishedInTurn, PTL DEF Spec

-----------------------------------------------------------------------------
(* What the server analyzes in the end is what the editor shows, or the file's text, but   *)
(* for late writes.  Handlers begin in the order of their messages, and only an open gives *)
(* way before it stores.  So of the editor's messages about a document the last that has   *)
(* not begun brings the editor's text, and an open that stores when it is the newest       *)
(* brings it too, unless a newer message arrives.  What the map has of a document is       *)
(* therefore the editor's, or is still to be written.                                      *)

\* The messages that are not yet handled to the end, by the numbers they have or will have.
Arriving(k) == [n |-> started + k, what |-> inbox[k].what, steps |-> inbox[k].steps]
Pending == {handlers[i] : i \in DOMAIN handlers} \cup {Arriving(k) : k \in DOMAIN inbox}

Editing == {"open", "change", "close"}

\* The editor's message m about d has not begun; the map is to hold the text.
Fresh(m, d, text) ==
  \/ m.what = "open" /\ text # NoText /\ m.steps = DidOpen(d, text)
  \/ m.what = "change" /\ text # NoText /\ m.steps = DidChange(d, text)
  \/ m.what = "close" /\ text = NoText /\ m.steps = DidClose(d)

\* An open that has logged and not yet stored.
Logged(m, d, text) == m.what = "open" /\ text # NoText /\ m.steps = DidChange(d, text)

Untold(m, d) == \E text \in Text : Fresh(m, d, text)
Unwritten(m, d) == \E text \in Text : Fresh(m, d, text) \/ Logged(m, d, text)

OnlyDo(s, dos) == \A i \in DOMAIN s : s[i].do \in dos

Shaped(m) ==
  /\ m.what \in Editing => (\E d \in Docs : Unwritten(m, d)) \/ OnlyDo(m.steps, {"publish"})
  /\ m.what = "files" => OnlyDo(m.steps, {"remove", "read", "publish"})
  /\ m.what = "folders" => OnlyDo(m.steps, {"addRoot", "removeRoot"})

\* What is pending is as the handlers' code has it, and names the document it is about.
Shapes ==
  /\ \A m \in Pending : Shaped(m)
  /\ \A k \in DOMAIN inbox : inbox[k].what \in Editing => \E d \in Docs : inbox[k].docs = {d} /\ Untold(Arriving(k), d)
  /\ newest \in [Docs -> Nat]

\* Handlers begin in the order of their messages.
Begun(m) == \A d \in Docs : ~ Untold(m, d)
InTurn ==
  \A m \in Pending :
    m.n <= started /\ ~ Begun(m) =>
      /\ m.n = turn \/ \E i \in DOMAIN ready : ready[i] = m.n
      /\ \A m2 \in Pending : m2.n < m.n /\ ~ Begun(m2) =>
           /\ m.n # turn
           /\ \A i, j \in DOMAIN ready : ready[i] = m2.n /\ ready[j] = m.n => i < j

\* The last message about a document that has not begun has the editor's text.
LastIsEditors ==
  \A m \in Pending, d \in Docs, text \in Text : Fresh(m, d, text) =>
    text = editor[d] \/ \E m2 \in Pending : m2.n > m.n /\ Untold(m2, d)

\* So has the newest that was taken up, unless a newer one arrives.
NewestIsEditors ==
  \A m \in Pending, d \in Docs, text \in Text :
    m.n = newest[d] /\ m.n <= started /\ (Fresh(m, d, text) \/ Logged(m, d, text)) =>
      text = editor[d] \/ \E m2 \in Pending : m2.n > started /\ Untold(m2, d)

\* What the map has of a document that no editor has is the file's, or will be.
Matches(m, d, text) ==
  m.what = "files" /\ \E i \in DOMAIN m.steps :
    m.steps[i].do # "publish" /\ m.steps[i].doc = d /\ (m.steps[i].do = "remove" \/ text # NoText)
Covered(d) == documents[d] \in {NoText, disk[d]} \/ d \in changed \/ \E m \in Pending : Matches(m, d, disk[d])
Settled(d) == IF editor[d] # NoText THEN documents[d] = editor[d] ELSE Covered(d)

CurrentFor(d) == d \in late \/ Settled(d) \/ \E m \in Pending : Unwritten(m, d)
Current == \A d \in Docs : CurrentFor(d)

InOrder == Shapes /\ InTurn /\ LastIsEditors /\ NewestIsEditors

-----------------------------------------------------------------------------
(* The pending messages *)

LEMMA PendingProperties ==
  ASSUME Inv
  PROVE  /\ \A m \in Pending : m \in Handlers /\ m.n \in Nat /\ m.n # 0 /\ m.n <= started + Len(inbox)
         /\ \A m, m2 \in Pending : m.n = m2.n => m = m2
         /\ started \in Nat /\ Len(inbox) \in Nat
         /\ \A i \in DOMAIN handlers : handlers[i] \in Pending /\ handlers[i].n <= started
         /\ \A k \in DOMAIN inbox : Arriving(k) \in Pending /\ Arriving(k).n > started
<1>1. /\ handlers \in Seq(Handlers) /\ inbox \in Seq(Sent) /\ started \in Nat
      /\ Len(inbox) \in Nat /\ DOMAIN inbox = 1 .. Len(inbox)
  BY LenProperties DEF Inv, TypeInv
<1>2. ASSUME NEW i \in DOMAIN handlers PROVE handlers[i] \in Handlers /\ handlers[i].n \in 1 .. started
  BY <1>1 DEF Inv, Turns
<1>3. ASSUME NEW k \in DOMAIN inbox
      PROVE  Arriving(k) \in Handlers /\ Arriving(k).n = started + k /\ k \in 1 .. Len(inbox)
  <2>1. inbox[k] \in Sent /\ k \in Nat
    BY <1>1
  <2> QED  BY <1>1, <2>1 DEF Arriving, Sent, Handlers
<1>4. ASSUME NEW m \in Pending PROVE m \in Handlers /\ m.n \in Nat /\ m.n # 0 /\ m.n <= started + Len(inbox)
  <2>1. CASE \E i \in DOMAIN handlers : m = handlers[i]
    BY <1>1, <1>2, <2>1
  <2>2. CASE \E k \in DOMAIN inbox : m = Arriving(k)
    BY <1>1, <1>3, <2>2
  <2> QED  BY <2>1, <2>2 DEF Pending
<1>5. ASSUME NEW m \in Pending, NEW m2 \in Pending, m.n = m2.n PROVE m = m2
  <2>1. ASSUME NEW i \in DOMAIN handlers, NEW j \in DOMAIN handlers, handlers[i].n = handlers[j].n PROVE i = j
    BY <2>1 DEF Inv, Turns
  <2>2. ASSUME NEW i \in DOMAIN inbox, NEW j \in DOMAIN inbox, Arriving(i).n = Arriving(j).n PROVE i = j
    BY <1>1, <1>3, <2>2
  <2>3. ASSUME NEW i \in DOMAIN handlers, NEW k \in DOMAIN inbox PROVE handlers[i].n # Arriving(k).n
    BY <1>1, <1>2, <1>3
  <2> QED  BY <1>5, <2>1, <2>2, <2>3 DEF Pending
<1>6. \A i \in DOMAIN handlers : handlers[i] \in Pending /\ handlers[i].n <= started
  BY <1>1, <1>2 DEF Pending
<1>7. \A k \in DOMAIN inbox : Arriving(k) \in Pending /\ Arriving(k).n > started
  BY <1>1, <1>3 DEF Pending
<1> QED  BY <1>1, <1>4, <1>5, <1>6, <1>7

\* Which of the two a pending message is, its number tells.
LEMMA TakenOrArriving ==
  ASSUME Inv, NEW m \in Pending
  PROVE  /\ m.n <= started => \E i \in DOMAIN handlers : m = handlers[i]
         /\ m.n > started => \E k \in DOMAIN inbox : m = Arriving(k) /\ m.n = started + k
<1>1. started \in Nat
  BY PendingProperties
<1>2. CASE \E i \in DOMAIN handlers : m = handlers[i]
  <2>1. m.n <= started /\ m.n \in Nat
    BY <1>2, PendingProperties
  <2> QED  BY <1>1, <1>2, <2>1
<1>3. ASSUME NEW k \in DOMAIN inbox, m = Arriving(k)
      PROVE  m.n > started /\ m.n = started + k /\ m.n \in Nat
  <2>1. m.n > started /\ m.n \in Nat
    BY <1>3, PendingProperties
  <2>2. m.n = started + k
    BY <1>3 DEF Arriving
  <2> QED  BY <2>1, <2>2
<1>4. CASE \E k \in DOMAIN inbox : m = Arriving(k)
  <2>1. PICK k \in DOMAIN inbox : m = Arriving(k)
    BY <1>4
  <2>2. m.n > started /\ m.n = started + k /\ m.n \in Nat
    BY <1>3, <2>1
  <2>3. ~ (m.n <= started)
    BY <1>1, <2>2
  <2> QED  BY <2>1, <2>2, <2>3
<1> QED  BY <1>2, <1>4 DEF Pending

\* Sending adds a message about some documents.
Adds(m, docs) ==
  /\ Pending' = Pending \cup {m}
  /\ \A k \in DOMAIN inbox : k \in DOMAIN inbox' /\ inbox'[k] = inbox[k]
  /\ \A k \in DOMAIN inbox' :
       k \in DOMAIN inbox \/ (inbox'[k].docs = docs /\ inbox'[k].what = m.what /\ Arriving(k)' = m)

LEMMA SendPending ==
  ASSUME Inv, NEW docs \in SUBSET Docs, NEW what \in Kinds, NEW steps \in Seq(Steps), Send(docs, what, steps),
         UNCHANGED <<handlers, started>>,
         NEW m, m = [n |-> started + Len(inbox) + 1, what |-> what, steps |-> steps]
  PROVE  Adds(m, docs)
<1> DEFINE sent == [docs |-> docs, what |-> what, steps |-> steps]
<1>1. sent \in Sent /\ sent.what = what /\ sent.steps = steps /\ sent.docs = docs
  BY DEF Sent
<1>2. inbox' = Append(inbox, sent)
  BY DEF Send
<1> HIDE DEF sent
<1>3. /\ Len(inbox) \in Nat /\ DOMAIN inbox = 1 .. Len(inbox) /\ DOMAIN inbox' = 1 .. Len(inbox) + 1
      /\ \A k \in DOMAIN inbox : inbox'[k] = inbox[k]
      /\ inbox'[Len(inbox) + 1] = sent
  BY <1>1, <1>2, AppendProperties, LenProperties DEF Inv, TypeInv
<1>4. started \in Nat
  BY DEF Inv, TypeInv
<1>5. \A k \in DOMAIN inbox : Arriving(k)' = Arriving(k)
  BY <1>3 DEF Arriving
<1>6. ASSUME NEW k, k = Len(inbox) + 1 PROVE Arriving(k)' = m
  <2>1. Arriving(k)' = [n |-> started + k, what |-> what, steps |-> steps]
    BY <1>1, <1>3, <1>6 DEF Arriving
  <2>2. started + k = started + Len(inbox) + 1
    BY <1>3, <1>4, <1>6
  <2> QED  BY <2>1, <2>2
<1>7. \A k \in DOMAIN inbox' : k \in DOMAIN inbox \/ k = Len(inbox) + 1
  BY <1>3
<1>8. Len(inbox) + 1 \in DOMAIN inbox' /\ DOMAIN inbox \subseteq DOMAIN inbox'
  BY <1>3
<1>9. Pending' = Pending \cup {m}
  <2>1. \A x : x \in Pending <=> (\E i \in DOMAIN handlers : x = handlers[i]) \/ (\E k \in DOMAIN inbox : x = Arriving(k))
    BY DEF Pending
  <2>2. \A x : x \in Pending' <=> (\E i \in DOMAIN handlers : x = handlers[i]) \/ (\E k \in DOMAIN inbox' : x = Arriving(k)')
    BY DEF Pending
  <2>3. \A x : (\E k \in DOMAIN inbox' : x = Arriving(k)') <=> (\E k \in DOMAIN inbox : x = Arriving(k)) \/ x = m
    BY <1>5, <1>6, <1>7, <1>8
  <2> QED  BY <2>1, <2>2, <2>3
<1>10. \A k \in DOMAIN inbox' : k \in DOMAIN inbox \/ (inbox'[k] = sent /\ Arriving(k)' = m)
  BY <1>3, <1>6, <1>7
<1> QED  BY <1>1, <1>3, <1>8, <1>9, <1>10 DEF Adds

\* Taking a message up changes what it is part of and nothing else.
LEMMA TakeUpPending ==
  ASSUME Inv, TakeUp
  PROVE  /\ Pending' = Pending
         /\ 1 \in DOMAIN inbox
         /\ newest' = [d \in Docs |-> IF d \in inbox[1].docs THEN started + 1 ELSE newest[d]]
         /\ \A k \in DOMAIN inbox' : /\ k + 1 \in DOMAIN inbox /\ inbox'[k] = inbox[k + 1]
                                     /\ Arriving(k)' = Arriving(k + 1)
<1> DEFINE h == [n |-> started + 1, what |-> inbox[1].what, steps |-> inbox[1].steps]
<1>1. inbox # <<>> /\ inbox' = Tail(inbox) /\ started' = started + 1 /\ inbox \in Seq(Sent) /\ started \in Nat
  BY DEF TakeUp, Inv, TypeInv
<1>2. /\ Head(inbox) = inbox[1] /\ inbox[1] \in Sent /\ Len(inbox) \in Nat /\ Len(inbox) >= 1
      /\ DOMAIN inbox = 1 .. Len(inbox) /\ DOMAIN inbox' = 1 .. Len(inbox) - 1
      /\ \A k \in DOMAIN inbox' : k + 1 \in DOMAIN inbox /\ inbox'[k] = inbox[k + 1]
  BY <1>1, HeadTailProperties, LenProperties, EmptySeq
<1>3. handlers' = Append(handlers, h)
  BY <1>2 DEF TakeUp
<1>4. newest' = [d \in Docs |-> IF d \in inbox[1].docs THEN started + 1 ELSE newest[d]]
  BY <1>2 DEF TakeUp
<1>5. h \in Handlers /\ h = Arriving(1)
  BY <1>1, <1>2 DEF Sent, Handlers, Arriving
<1> HIDE DEF h
<1>6. /\ DOMAIN handlers = 1 .. Len(handlers) /\ DOMAIN handlers' = 1 .. Len(handlers) + 1 /\ Len(handlers) \in Nat
      /\ \A i \in DOMAIN handlers : handlers'[i] = handlers[i]
      /\ handlers'[Len(handlers) + 1] = h
  BY <1>3, <1>5, AppendProperties, LenProperties DEF Inv, TypeInv
<1>7. ASSUME NEW k \in DOMAIN inbox' PROVE Arriving(k)' = Arriving(k + 1)
  <2>1. started + 1 + k = started + (k + 1)
    BY <1>1, <1>2
  <2> QED  BY <1>1, <1>2, <2>1 DEF Arriving
<1>8. \A k \in DOMAIN inbox : k = 1 \/ (k - 1 \in DOMAIN inbox' /\ (k - 1) + 1 = k)
  BY <1>2
<1>9. 1 \in DOMAIN inbox
  BY <1>2
<1>10. \A i \in DOMAIN handlers' : i \in DOMAIN handlers \/ i = Len(handlers) + 1
  BY <1>6
<1>11. Len(handlers) + 1 \in DOMAIN handlers' /\ DOMAIN handlers \subseteq DOMAIN handlers'
  BY <1>6
<1>12. Pending' \subseteq Pending
  <2> SUFFICES ASSUME NEW m \in Pending' PROVE m \in Pending
    OBVIOUS
  <2>1. CASE \E i \in DOMAIN handlers' : m = handlers'[i]
    BY <1>5, <1>6, <1>9, <1>10, <2>1 DEF Pending
  <2>2. CASE \E k \in DOMAIN inbox' : m = Arriving(k)'
    BY <1>2, <1>7, <2>2 DEF Pending
  <2> QED  BY <2>1, <2>2 DEF Pending
<1>13. Pending \subseteq Pending'
  <2> SUFFICES ASSUME NEW m \in Pending PROVE m \in Pending'
    OBVIOUS
  <2>1. CASE \E i \in DOMAIN handlers : m = handlers[i]
    BY <1>6, <1>11, <2>1 DEF Pending
  <2>2. ASSUME NEW k \in DOMAIN inbox, m = Arriving(k) PROVE m \in Pending'
    <3>1. CASE k = 1
      <4>1. m = handlers'[Len(handlers) + 1]
        BY <1>5, <1>6, <2>2, <3>1
      <4> QED  BY <1>11, <4>1 DEF Pending
    <3>2. CASE k # 1
      <4>1. k - 1 \in DOMAIN inbox' /\ m = Arriving(k - 1)'
        BY <1>7, <1>8, <2>2, <3>2
      <4> QED  BY <4>1 DEF Pending
    <3> QED  BY <3>1, <3>2
  <2> QED  BY <2>1, <2>2 DEF Pending
<1> QED  BY <1>2, <1>4, <1>7, <1>9, <1>12, <1>13

\* The handler being polled goes on: it has other steps to do, and the others stay.
LEMMA GoOnPending ==
  ASSUME Inv, turn # Nobody, handlers[Polled].steps # <<>>, NEW steps \in Seq(Steps), Continue(steps),
         UNCHANGED <<inbox, started>>
  PROVE  LET h  == handlers[Polled]
             h2 == handlers'[Polled]
         IN /\ h \in Pending /\ h.n = turn /\ h.n <= started
            /\ h2.n = h.n /\ h2.what = h.what /\ h2.steps = steps \o Tail(h.steps)
            /\ Pending' = (Pending \ {h}) \cup {h2}
<1>1. /\ Polled \in DOMAIN handlers /\ handlers[Polled] \in Handlers /\ handlers[Polled].n = turn
  BY PolledIsAtWork
<1>2. /\ handlers' \in Seq(Handlers) /\ Len(handlers') = Len(handlers)
      /\ \A i \in DOMAIN handlers : i # Polled => handlers'[i] = handlers[i]
      /\ handlers'[Polled].n = handlers[Polled].n
      /\ handlers'[Polled].steps = steps \o Tail(handlers[Polled].steps)
  BY <1>1, ContinueProperties
<1>3. DOMAIN handlers' = DOMAIN handlers
  BY <1>2, LenProperties DEF Inv, TypeInv
<1>4. handlers'[Polled].what = handlers[Polled].what
  <2> DEFINE rest == steps \o Tail(handlers[Polled].steps)
             next == [handlers[Polled] EXCEPT !.steps = rest]
  <2>1. handlers' = [handlers EXCEPT ![Polled] = next]
    BY DEF Continue
  <2>2. next.what = handlers[Polled].what
    BY <1>1 DEF Handlers
  <2> HIDE DEF next
  <2> QED  BY <1>1, <2>1, <2>2
<1>5. \A k \in DOMAIN inbox : Arriving(k)' = Arriving(k)
  BY DEF Arriving
<1>6. /\ \A i, j \in DOMAIN handlers : handlers[i] = handlers[j] => i = j
      /\ \A i \in DOMAIN handlers, k \in DOMAIN inbox : handlers[i] # Arriving(k)
  <2>1. \A i, j \in DOMAIN handlers : handlers[i].n = handlers[j].n => i = j
    BY DEF Inv, Turns
  <2>2. ASSUME NEW i \in DOMAIN handlers, NEW k \in DOMAIN inbox, handlers[i] = Arriving(k) PROVE FALSE
    <3>1. handlers[i].n <= started /\ Arriving(k).n > started /\ started \in Nat /\ Arriving(k).n \in Nat
      BY PendingProperties
    <3> QED  BY <2>2, <3>1
  <2> QED  BY <2>1, <2>2
<1> DEFINE p == Polled
<1>7. Pending' = (Pending \ {handlers[p]}) \cup {handlers'[p]}
  <2>1. \A x : x \in Pending <=> (\E i \in DOMAIN handlers : x = handlers[i]) \/ (\E k \in DOMAIN inbox : x = Arriving(k))
    BY DEF Pending
  <2>2. \A x : x \in Pending' <=> (\E i \in DOMAIN handlers' : x = handlers'[i]) \/ (\E k \in DOMAIN inbox : x = Arriving(k)')
    BY DEF Pending
  <2>3. p \in DOMAIN handlers /\ \A i \in DOMAIN handlers : i # p => handlers'[i] = handlers[i] /\ handlers[i] # handlers[p]
    BY <1>1, <1>2, <1>6
  <2> HIDE DEF p
  <2>4. ASSUME NEW x
        PROVE  (\E i \in DOMAIN handlers' : x = handlers'[i])
                 <=> x = handlers'[p] \/ (x # handlers[p] /\ \E i \in DOMAIN handlers : x = handlers[i])
    <3>1. ASSUME NEW i \in DOMAIN handlers', x = handlers'[i], i # p
          PROVE  x # handlers[p] /\ i \in DOMAIN handlers /\ x = handlers[i]
      BY <1>3, <2>3, <3>1
    <3>2. ASSUME NEW i \in DOMAIN handlers, x = handlers[i], x # handlers[p]
          PROVE  i \in DOMAIN handlers' /\ x = handlers'[i]
      BY <1>3, <2>3, <3>2
    <3>3. p \in DOMAIN handlers'
      BY <1>3, <2>3
    <3> QED  BY <3>1, <3>2, <3>3, Zenon
  <2>5. \A x : (\E k \in DOMAIN inbox : x = Arriving(k)') <=> x # handlers[p] /\ \E k \in DOMAIN inbox : x = Arriving(k)
    <3>1. \A k \in DOMAIN inbox : Arriving(k)' = Arriving(k) /\ Arriving(k) # handlers[p]
      BY <1>5, <1>6, <2>3
    <3> QED  BY <3>1, Zenon
  <2>6. \A x : x \in Pending' <=> x = handlers'[p] \/ (x \in Pending /\ x # handlers[p])
    BY <2>1, <2>2, <2>4, <2>5, Zenon
  <2> QED  BY <2>6
<1> QED  BY <1>1, <1>2, <1>4, <1>7, PendingProperties

\* A handler that is done is gone.
LEMMA FinishPending ==
  ASSUME Inv, Finish
  PROVE  /\ handlers[Polled] \in Pending /\ handlers[Polled].n = turn
         /\ Pending' = Pending \ {handlers[Polled]}
<1>1. /\ turn # Nobody /\ handlers' = RemoveAt(handlers, Polled) /\ UNCHANGED <<inbox, started>>
      /\ handlers \in Seq(Handlers)
  BY DEF Finish, Inv, TypeInv
<1>2. Polled \in DOMAIN handlers /\ handlers[Polled].n = turn
  BY <1>1, PolledIsAtWork
<1>3. /\ DOMAIN handlers = 1 .. Len(handlers) /\ Len(handlers) \in Nat /\ DOMAIN handlers' = 1 .. Len(handlers) - 1
      /\ \A j \in DOMAIN handlers' : handlers'[j] = IF j < Polled THEN handlers[j] ELSE handlers[j + 1]
  BY <1>1, <1>2, RemoveAtProperties, LenProperties
<1>4. \A j \in DOMAIN handlers' : \E i \in DOMAIN handlers \ {Polled} : handlers'[j] = handlers[i]
  <2> SUFFICES ASSUME NEW j \in DOMAIN handlers' PROVE \E i \in DOMAIN handlers \ {Polled} : handlers'[j] = handlers[i]
    OBVIOUS
  <2>1. CASE j < Polled
    <3>1. j \in DOMAIN handlers \ {Polled}
      BY <1>2, <1>3, <2>1
    <3> QED  BY <1>3, <2>1, <3>1
  <2>2. CASE ~ (j < Polled)
    <3>1. j + 1 \in DOMAIN handlers \ {Polled}
      BY <1>2, <1>3, <2>2
    <3> QED  BY <1>3, <2>2, <3>1
  <2> QED  BY <2>1, <2>2
<1>5. \A i \in DOMAIN handlers \ {Polled} : \E j \in DOMAIN handlers' : handlers'[j] = handlers[i]
  <2> SUFFICES ASSUME NEW i \in DOMAIN handlers \ {Polled} PROVE \E j \in DOMAIN handlers' : handlers'[j] = handlers[i]
    OBVIOUS
  <2>1. CASE i < Polled
    <3>1. i \in DOMAIN handlers'
      BY <1>2, <1>3, <2>1
    <3> QED  BY <1>3, <2>1, <3>1
  <2>2. CASE ~ (i < Polled)
    <3>1. i - 1 \in DOMAIN handlers' /\ ~ (i - 1 < Polled) /\ (i - 1) + 1 = i
      BY <1>2, <1>3, <2>2
    <3> QED  BY <1>3, <3>1
  <2> QED  BY <2>1, <2>2
<1>6. \A k \in DOMAIN inbox : Arriving(k)' = Arriving(k)
  BY <1>1 DEF Arriving
<1>7. /\ \A i, j \in DOMAIN handlers : handlers[i] = handlers[j] => i = j
      /\ \A i \in DOMAIN handlers, k \in DOMAIN inbox : handlers[i] # Arriving(k)
  <2>1. \A i, j \in DOMAIN handlers : handlers[i].n = handlers[j].n => i = j
    BY DEF Inv, Turns
  <2>2. ASSUME NEW i \in DOMAIN handlers, NEW k \in DOMAIN inbox, handlers[i] = Arriving(k) PROVE FALSE
    <3>1. handlers[i].n <= started /\ Arriving(k).n > started /\ started \in Nat /\ Arriving(k).n \in Nat
      BY PendingProperties
    <3> QED  BY <2>2, <3>1
  <2> QED  BY <2>1, <2>2
<1>8. Pending' = Pending \ {handlers[Polled]}
  BY <1>1, <1>2, <1>4, <1>5, <1>6, <1>7 DEF Pending
<1> QED  BY <1>2, <1>8, PendingProperties

-----------------------------------------------------------------------------
(* The editor's messages *)

\* What each of the editor's messages does, first and afterwards.
LEMMA EditorSteps ==
  ASSUME NEW d, NEW text
  PROVE  /\ DidOpen(d, text) # <<>> /\ DidChange(d, text) # <<>> /\ DidClose(d) # <<>>
         /\ DidOpen(d, text)[1].do = "log" /\ DidOpen(d, text)[1].doc = d
         /\ DidOpen(d, text)[2].text = text
         /\ DidChange(d, text)[1].do = "store" /\ DidChange(d, text)[1].doc = d /\ DidChange(d, text)[1].text = text
         /\ DidClose(d)[1].do = "remove" /\ DidClose(d)[1].doc = d
         /\ DOMAIN DidOpen(d, text) = {1, 2, 3} /\ DOMAIN DidChange(d, text) = {1, 2} /\ DOMAIN DidClose(d) = {1, 2}
         /\ Tail(DidOpen(d, text)) = DidChange(d, text)
         /\ OnlyDo(Tail(DidChange(d, text)), {"publish"}) /\ OnlyDo(Tail(DidClose(d)), {"publish"})
<1>1. /\ DOMAIN DidOpen(d, text) = {1, 2, 3} /\ DOMAIN DidChange(d, text) = {1, 2} /\ DOMAIN DidClose(d) = {1, 2}
      /\ DidOpen(d, text) # <<>> /\ DidChange(d, text) # <<>> /\ DidClose(d) # <<>>
  BY DEF DidOpen, DidChange, DidClose
<1>2. /\ DidOpen(d, text)[1].do = "log" /\ DidOpen(d, text)[1].doc = d
      /\ DidOpen(d, text)[2].text = text
      /\ DidChange(d, text)[1].do = "store" /\ DidChange(d, text)[1].doc = d /\ DidChange(d, text)[1].text = text
      /\ DidClose(d)[1].do = "remove" /\ DidClose(d)[1].doc = d
  BY DEF DidOpen, DidChange, DidClose, Step
<1>3. \A a, b, c : Tail(<<a, b, c>>) = <<b, c>>
  OBVIOUS
<1>4. \A a, b : Tail(<<a, b>>) = <<b>>
  OBVIOUS
<1>5. Tail(DidOpen(d, text)) = DidChange(d, text)
  BY <1>3 DEF DidOpen, DidChange
<1>6. \A a : a.do = "publish" => OnlyDo(<<a>>, {"publish"})
  BY DEF OnlyDo
<1>7. Step("publish", d, text).do = "publish" /\ Step("publish", d, NoText).do = "publish"
  BY DEF Step
<1>8. OnlyDo(Tail(DidChange(d, text)), {"publish"}) /\ OnlyDo(Tail(DidClose(d)), {"publish"})
  BY <1>4, <1>6, <1>7 DEF DidChange, DidClose
<1> QED  BY <1>1, <1>2, <1>5, <1>8

\* A message that has a step to write is about one document and one text, and begins with
\* that step or by logging.
LEMMA AboutOne ==
  ASSUME NEW m, NEW d, NEW text, Fresh(m, d, text) \/ Logged(m, d, text)
  PROVE  /\ m.what \in Editing /\ m.steps # <<>> /\ m.steps[1].doc = d
         /\ m.steps[1].do \in {"log", "store", "remove"}
         /\ m.steps[1].do = "log" => m.what = "open" /\ Fresh(m, d, text) /\ m.steps = DidOpen(d, text)
         /\ m.steps[1].do = "store" => /\ m.what \in {"open", "change"} /\ m.steps = DidChange(d, text)
                                       /\ m.steps[1].text = text /\ text # NoText
                                       /\ m.what = "open" => Logged(m, d, text) /\ ~ Fresh(m, d, text)
                                       /\ m.what = "change" => Fresh(m, d, text)
         /\ m.steps[1].do = "remove" => m.what = "close" /\ Fresh(m, d, text) /\ m.steps = DidClose(d) /\ text = NoText
<1>1. m.what \in Editing
  BY DEF Fresh, Logged, Editing
<1>2. /\ DidOpen(d, text) # <<>> /\ DidChange(d, text) # <<>> /\ DidClose(d) # <<>>
      /\ DidOpen(d, text)[1].do = "log" /\ DidOpen(d, text)[1].doc = d
      /\ DidChange(d, text)[1].do = "store" /\ DidChange(d, text)[1].doc = d /\ DidChange(d, text)[1].text = text
      /\ DidClose(d)[1].do = "remove" /\ DidClose(d)[1].doc = d
  BY EditorSteps
<1> QED  BY <1>1, <1>2 DEF Fresh, Logged

\* So of two the document is the same.
LEMMA SameDocument ==
  ASSUME NEW m, NEW d, NEW e, Unwritten(m, d), Unwritten(m, e)
  PROVE  d = e
<1>1. PICK text : Fresh(m, d, text) \/ Logged(m, d, text)
  BY DEF Unwritten
<1>2. PICK text2 : Fresh(m, e, text2) \/ Logged(m, e, text2)
  BY DEF Unwritten
<1>3. m.steps[1].doc = d /\ m.steps[1].doc = e
  BY <1>1, <1>2, AboutOne
<1> QED  BY <1>3

\* One that only publishes has nothing more to write.
LEMMA PublishersAreDone ==
  ASSUME NEW m, m.steps \in Seq(Steps), OnlyDo(m.steps, {"publish"})
  PROVE  \A d, text : ~ Fresh(m, d, text) /\ ~ Logged(m, d, text)
<1> SUFFICES ASSUME NEW d, NEW text, Fresh(m, d, text) \/ Logged(m, d, text) PROVE FALSE
  OBVIOUS
<1>1. m.steps # <<>> /\ m.steps[1].do \in {"log", "store", "remove"}
  BY AboutOne
<1>2. 1 \in DOMAIN m.steps
  BY <1>1, LenProperties, EmptySeq
<1> QED  BY <1>1, <1>2 DEF OnlyDo

\* Only the editor's messages have a text of the editor's to write.
LEMMA OthersWriteNone ==
  ASSUME NEW m, m.what \notin Editing
  PROVE  \A d, text : ~ Fresh(m, d, text) /\ ~ Logged(m, d, text)
  BY DEF Fresh, Logged, Editing

-----------------------------------------------------------------------------
(* The order of messages *)

\* What remains to be done of the handler that is polled: some of its steps, or nothing.
GoesOnAs(h) ==
  /\ h \in Pending /\ h.n = turn /\ h.n <= started
  /\ \A m \in Pending : m = h \/ m \in Pending'
  /\ \A m \in Pending' :
       \/ m \in Pending /\ m # h
       \/ /\ m.n = h.n /\ m.what = h.what /\ Begun(m) /\ Shaped(m)
          /\ \A d \in Docs, text \in Text : Logged(m, d, text) => Fresh(h, d, text) \/ Logged(h, d, text)

LEMMA PolledKeepsOrder ==
  ASSUME Inv, InOrder, NEW h, GoesOnAs(h), UNCHANGED <<editor, newest, started, inbox, ready>>,
         turn' = turn \/ turn' = Nobody
  PROVE  InOrder'
<1>1. /\ \A m \in Pending : m.n \in Nat /\ m.n # 0
      /\ \A m, m2 \in Pending : m.n = m2.n => m = m2
      /\ started \in Nat
  BY PendingProperties
<1>2. \A k \in DOMAIN inbox : Arriving(k)' = Arriving(k)
  BY DEF Arriving
<1>3. Shapes'
  BY <1>2 DEF InOrder, Shapes, GoesOnAs
<1>4. ASSUME NEW m \in Pending', ~ Begun(m) PROVE m \in Pending /\ m # h /\ m.n # turn /\ m.n # Nobody
  <2>1. m \in Pending /\ m # h
    BY <1>4 DEF GoesOnAs
  <2> QED  BY <1>1, <2>1 DEF GoesOnAs, Nobody
<1>5. InTurn'
  <2> SUFFICES ASSUME NEW m \in Pending', m.n <= started, ~ Begun(m)
               PROVE  /\ m.n = turn' \/ \E i \in DOMAIN ready : ready[i] = m.n
                      /\ \A m2 \in Pending' : m2.n < m.n /\ ~ Begun(m2) =>
                           /\ m.n # turn'
                           /\ \A i, j \in DOMAIN ready : ready[i] = m2.n /\ ready[j] = m.n => i < j
    BY DEF InTurn
  <2>1. m \in Pending /\ m.n # turn /\ m.n # Nobody
    BY <1>4
  <2>2. /\ \E i \in DOMAIN ready : ready[i] = m.n
        /\ \A m2 \in Pending : m2.n < m.n /\ ~ Begun(m2) =>
             \A i, j \in DOMAIN ready : ready[i] = m2.n /\ ready[j] = m.n => i < j
    BY <2>1 DEF InOrder, InTurn
  <2> QED  BY <1>4, <2>1, <2>2
<1>6. ASSUME NEW m \in Pending', ~ Begun(m), NEW m2 \in Pending, m2.n > m.n, NEW d \in Docs, Untold(m2, d)
      PROVE  m2 # h
  <2>1. m \in Pending /\ m # h
    BY <1>4, <1>6
  <2>2. ~ Begun(m2)
    BY <1>6 DEF Begun
  <2>3. m.n < m2.n
    BY <1>1, <1>6, <2>1
  <2> QED  BY <1>6, <2>1, <2>2, <2>3 DEF InOrder, InTurn, GoesOnAs
<1>7. LastIsEditors'
  <2> SUFFICES ASSUME NEW m \in Pending', NEW d \in Docs, NEW text \in Text, Fresh(m, d, text), text # editor[d]
               PROVE  \E m2 \in Pending' : m2.n > m.n /\ Untold(m2, d)
    BY DEF LastIsEditors
  <2>1. ~ Begun(m)
    BY DEF Begun, Untold
  <2>2. m \in Pending
    BY <1>4, <2>1
  <2>3. PICK m2 \in Pending : m2.n > m.n /\ Untold(m2, d)
    BY <2>2 DEF InOrder, LastIsEditors
  <2>4. m2 # h
    BY <1>6, <2>1, <2>3
  <2> QED  BY <2>3, <2>4 DEF GoesOnAs
<1>8. NewestIsEditors'
  <2> SUFFICES ASSUME NEW m \in Pending', NEW d \in Docs, NEW text \in Text,
                      m.n = newest[d], m.n <= started, Fresh(m, d, text) \/ Logged(m, d, text), text # editor[d]
               PROVE  \E m2 \in Pending' : m2.n > started /\ Untold(m2, d)
    BY DEF NewestIsEditors
  <2>1. \E m2 \in Pending : m2.n = m.n /\ (Fresh(m2, d, text) \/ Logged(m2, d, text))
    <3>1. Fresh(m, d, text) => m \in Pending
      BY <1>4 DEF Begun, Untold
    <3> QED  BY <3>1 DEF GoesOnAs
  <2>2. PICK m2 \in Pending : m2.n > started /\ Untold(m2, d)
    BY <2>1 DEF InOrder, NewestIsEditors
  <2>3. m2 # h
    BY <1>1, <2>2 DEF GoesOnAs
  <2> QED  BY <2>2, <2>3 DEF GoesOnAs
<1> QED  BY <1>3, <1>5, <1>7, <1>8 DEF InOrder

LEMMA ResumeInOrder ==
  ASSUME Inv, InOrder, Resume
  PROVE  InOrder'
<1>1. /\ turn = Nobody /\ ready # <<>> /\ turn' = Head(ready) /\ ready' = Tail(ready)
      /\ UNCHANGED <<editor, newest, started, inbox, handlers>>
  BY DEF Resume, editorVars
<1>2. /\ turn' = ready[1] /\ 1 \in DOMAIN ready
      /\ \A i \in DOMAIN ready' : i \in Nat /\ i + 1 \in DOMAIN ready /\ ready'[i] = ready[i + 1]
      /\ \A i \in DOMAIN ready : i = 1 \/ (i - 1 \in DOMAIN ready' /\ (i - 1) + 1 = i)
      /\ \A i \in DOMAIN ready : i \in Nat /\ i >= 1
  BY <1>1, HeadTailProperties, LenProperties, EmptySeq DEF Inv, TypeInv
<1>3. Pending' = Pending
  BY <1>1 DEF Pending, Arriving
<1>4. InTurn'
  <2> SUFFICES ASSUME NEW m \in Pending, m.n <= started, ~ Begun(m)
               PROVE  /\ m.n = turn' \/ \E i \in DOMAIN ready' : ready'[i] = m.n
                      /\ \A m2 \in Pending : m2.n < m.n /\ ~ Begun(m2) =>
                           /\ m.n # turn'
                           /\ \A i, j \in DOMAIN ready' : ready'[i] = m2.n /\ ready'[j] = m.n => i < j
    BY <1>1, <1>3 DEF InTurn
  <2>1. m.n # turn
    BY <1>1, PendingProperties DEF Nobody
  <2>2. PICK k \in DOMAIN ready : ready[k] = m.n
    BY <2>1 DEF InOrder, InTurn
  <2>3. m.n = turn' \/ \E i \in DOMAIN ready' : ready'[i] = m.n
    BY <1>2, <2>2
  <2>4. ASSUME NEW m2 \in Pending, m2.n < m.n, ~ Begun(m2)
        PROVE  /\ m.n # turn'
               /\ \A i, j \in DOMAIN ready' : ready'[i] = m2.n /\ ready'[j] = m.n => i < j
    <3>1. \A i, j \in DOMAIN ready : ready[i] = m2.n /\ ready[j] = m.n => i < j
      BY <2>4 DEF InOrder, InTurn
    <3>2. m2.n <= started /\ m2.n # turn
      BY <1>1, <2>4, PendingProperties DEF Nobody
    <3>3. PICK i \in DOMAIN ready : ready[i] = m2.n
      BY <2>4, <3>2 DEF InOrder, InTurn
    <3>4. m.n # turn'
      BY <1>2, <3>1, <3>3
    <3>5. ASSUME NEW a \in DOMAIN ready', NEW b \in DOMAIN ready', ready'[a] = m2.n, ready'[b] = m.n PROVE a < b
      <4>1. a + 1 < b + 1
        BY <1>2, <3>1, <3>5
      <4> QED  BY <1>2, <4>1
    <3> QED  BY <3>4, <3>5
  <2> QED  BY <2>3, <2>4
<1>5. Shapes' /\ LastIsEditors' /\ NewestIsEditors'
  BY <1>1, <1>3 DEF InOrder, Shapes, LastIsEditors, NewestIsEditors, Arriving
<1> QED  BY <1>4, <1>5 DEF InOrder

LEMMA WriteOutInOrder ==
  ASSUME Inv, InOrder, WriteOut
  PROVE  InOrder'
<1>1. UNCHANGED <<editor, newest, started, inbox, handlers, turn>>
  BY DEF WriteOut, editorVars
<1>2. Pending' = Pending
  BY <1>1 DEF Pending, Arriving
<1>3. Shapes' /\ LastIsEditors' /\ NewestIsEditors'
  BY <1>1, <1>2 DEF InOrder, Shapes, LastIsEditors, NewestIsEditors, Arriving
<1>4. CASE parked = <<>>
  <2>1. ready' = ready
    BY <1>4 DEF WriteOut
  <2>2. InTurn'
    BY <1>1, <1>2, <2>1 DEF InOrder, InTurn
  <2> QED  BY <1>3, <2>2 DEF InOrder
<1>5. CASE parked # <<>>
  <2>1. /\ ready' = Append(ready, parked[1]) /\ 1 \in DOMAIN parked /\ parked[1] \in Nat
        /\ DOMAIN ready = 1 .. Len(ready) /\ DOMAIN ready' = 1 .. Len(ready) + 1 /\ Len(ready) \in Nat
        /\ \A i \in DOMAIN ready : ready'[i] = ready[i]
        /\ ready'[Len(ready) + 1] = parked[1]
    <3>1. Head(parked) = parked[1] /\ 1 \in DOMAIN parked /\ parked[1] \in Nat
      BY <1>5, HeadTailProperties, LenProperties, EmptySeq DEF Inv, TypeInv
    <3>2. ready' = Append(ready, parked[1])
      BY <1>5, <3>1 DEF WriteOut
    <3> QED  BY <3>1, <3>2, AppendProperties, LenProperties DEF Inv, TypeInv
  <2>2. ASSUME NEW m \in Pending, m.n <= started, ~ Begun(m) PROVE m.n # parked[1]
    <3>1. m.n = turn \/ \E i \in DOMAIN ready : ready[i] = m.n
      BY <2>2 DEF InOrder, InTurn
    <3> QED  BY <2>1, <3>1 DEF Inv, Turns
  <2>3. InTurn'
    <3> SUFFICES ASSUME NEW m \in Pending, m.n <= started, ~ Begun(m)
                 PROVE  /\ m.n = turn \/ \E i \in DOMAIN ready' : ready'[i] = m.n
                        /\ \A m2 \in Pending : m2.n < m.n /\ ~ Begun(m2) =>
                             /\ m.n # turn
                             /\ \A i, j \in DOMAIN ready' : ready'[i] = m2.n /\ ready'[j] = m.n => i < j
      BY <1>1, <1>2 DEF InTurn
    <3>1. /\ m.n = turn \/ \E i \in DOMAIN ready : ready[i] = m.n
          /\ \A m2 \in Pending : m2.n < m.n /\ ~ Begun(m2) =>
               /\ m.n # turn
               /\ \A i, j \in DOMAIN ready : ready[i] = m2.n /\ ready[j] = m.n => i < j
      BY DEF InOrder, InTurn
    <3>2. DOMAIN ready \subseteq DOMAIN ready' /\ \A i \in DOMAIN ready' : i \in DOMAIN ready \/ i = Len(ready) + 1
      BY <2>1
    <3>3. ASSUME NEW m2 \in Pending, m2.n < m.n, ~ Begun(m2), NEW i \in DOMAIN ready', NEW j \in DOMAIN ready',
                 ready'[i] = m2.n, ready'[j] = m.n
          PROVE  i < j
      <4>1. m2.n <= started
        BY <3>3, PendingProperties
      <4>2. m2.n # parked[1] /\ m.n # parked[1]
        BY <2>2, <3>3, <4>1
      <4>3. i \in DOMAIN ready /\ j \in DOMAIN ready
        BY <2>1, <3>2, <3>3, <4>2
      <4> QED  BY <2>1, <3>1, <3>3, <4>3
    <3> QED  BY <2>1, <3>1, <3>2, <3>3
  <2> QED  BY <1>3, <2>3 DEF InOrder
<1> QED  BY <1>4, <1>5

-----------------------------------------------------------------------------
(* What the handler being polled does *)

LEMMA OnlyDoRest ==
  ASSUME NEW s \in Seq(Steps), NEW t \in Seq(Steps), NEW dos, s # <<>>, OnlyDo(s, dos), OnlyDo(t, dos)
  PROVE  OnlyDo(Tail(s), dos) /\ OnlyDo(t \o Tail(s), dos)
<1> DEFINE rest == Tail(s)
           both == t \o rest
<1>1. /\ rest \in Seq(Steps) /\ DOMAIN rest = 1 .. Len(s) - 1 /\ Len(s) \in Nat /\ DOMAIN s = 1 .. Len(s)
      /\ \A i \in 1 .. Len(s) - 1 : rest[i] = s[i + 1]
  BY HeadTailProperties, LenProperties
<1>2. OnlyDo(rest, dos)
  <2>1. \A i \in 1 .. Len(s) - 1 : i + 1 \in 1 .. Len(s)
    BY <1>1
  <2> QED  BY <1>1, <2>1 DEF OnlyDo
<1> HIDE DEF rest
<1>3. /\ DOMAIN both = 1 .. Len(t) + Len(rest) /\ Len(t) \in Nat /\ Len(rest) \in Nat
      /\ DOMAIN t = 1 .. Len(t) /\ DOMAIN rest = 1 .. Len(rest)
      /\ \A i \in 1 .. Len(t) + Len(rest) : both[i] = IF i <= Len(t) THEN t[i] ELSE rest[i - Len(t)]
  <2>1. /\ both \in Seq(Steps) /\ Len(both) = Len(t) + Len(rest)
        /\ \A i \in 1 .. Len(t) + Len(rest) : both[i] = IF i <= Len(t) THEN t[i] ELSE rest[i - Len(t)]
    BY <1>1, ConcatProperties
  <2> HIDE DEF both
  <2>2. /\ DOMAIN both = 1 .. Len(both) /\ Len(t) \in Nat /\ Len(rest) \in Nat
        /\ DOMAIN t = 1 .. Len(t) /\ DOMAIN rest = 1 .. Len(rest)
    BY <1>1, <2>1, LenProperties
  <2> QED  BY <2>1, <2>2
<1> HIDE DEF both
<1>4. \A i \in DOMAIN both : (i \in DOMAIN t /\ both[i] = t[i]) \/ (i - Len(t) \in DOMAIN rest /\ both[i] = rest[i - Len(t)])
  BY <1>3
<1>5. OnlyDo(both, dos)
  BY <1>2, <1>4 DEF OnlyDo
<1> QED  BY <1>2, <1>5 DEF rest, both

LEMMA PolledDoes ==
  ASSUME Inv, Shapes, turn # Nobody, handlers[Polled].steps # <<>>, NEW h, h = handlers[Polled]
  PROVE  /\ h \in Pending /\ Shaped(h) /\ h.what \in Kinds /\ h.n = turn /\ h.n <= started
         /\ h.steps \in Seq(Steps) /\ 1 \in DOMAIN h.steps /\ This = h.steps[1]
         /\ This.do = "log" => h.what = "open"
         /\ This.do = "store" => /\ This.doc \in Docs /\ This.text \in Text /\ This.text # NoText
                                 /\ \/ h.what = "open" /\ Logged(h, This.doc, This.text)
                                    \/ h.what = "change" /\ Fresh(h, This.doc, This.text)
         /\ This.do = "remove" => /\ This.doc \in Docs
                                  /\ h.what = "files" \/ (h.what = "close" /\ Fresh(h, This.doc, NoText))
         /\ This.do = "read" => h.what = "files" /\ This.doc \in Docs
         /\ This.do \in {"addRoot", "removeRoot"} => h.what = "folders"
<1>1. Polled \in DOMAIN handlers /\ h \in Handlers /\ h.n = turn
  BY PolledIsAtWork
<1>2. h \in Pending /\ h.n <= started /\ Shaped(h)
  BY <1>1, PendingProperties DEF Shapes
<1>3. h.what \in Kinds /\ h.steps \in Seq(Steps) /\ 1 \in DOMAIN h.steps /\ This = h.steps[1]
  BY <1>1, HeadTailProperties, LenProperties, EmptySeq DEF Handlers, This
<1>4. This.do \in {"log", "store", "remove", "read"} => This.doc \in Docs /\ This.text \in Text
  BY ThisIsAStep
<1>5. ASSUME h.what \in Editing, This.do # "publish"
      PROVE  \E d \in Docs, text \in Text : Fresh(h, d, text) \/ Logged(h, d, text)
  BY <1>2, <1>3, <1>5 DEF Shaped, OnlyDo, Unwritten
<1>6. CASE h.what \in Editing /\ This.do # "publish"
  <2>1. PICK d \in Docs, text \in Text : Fresh(h, d, text) \/ Logged(h, d, text)
    BY <1>5, <1>6
  <2> QED  BY <1>1, <1>2, <1>3, <1>4, <2>1, AboutOne
<1>7. CASE h.what = "files"
  BY <1>1, <1>2, <1>3, <1>4, <1>7 DEF Shaped, OnlyDo
<1>8. CASE h.what = "folders"
  BY <1>1, <1>2, <1>3, <1>4, <1>8 DEF Shaped, OnlyDo
<1> QED  BY <1>1, <1>2, <1>3, <1>6, <1>7, <1>8 DEF Kinds, Editing

\* One that goes on has begun, and has what its handler still has to do.
LEMMA RestIsShaped ==
  ASSUME NEW h, NEW m, Shaped(h), h.what \in Kinds, h.steps \in Seq(Steps), h.steps # <<>>, m.what = h.what,
         NEW steps \in Seq(Steps), m.steps = steps \o Tail(h.steps),
         steps = <<>> \/ (h.what = "files" /\ OnlyDo(steps, {"publish"}))
  PROVE  /\ Begun(m) /\ Shaped(m)
         /\ \A d \in Docs, text \in Text : Logged(m, d, text) => Fresh(h, d, text) \/ Logged(h, d, text)
<1>1. Tail(h.steps) \in Seq(Steps)
  BY HeadTailProperties
<1>2. m.steps \in Seq(Steps)
  BY <1>1, ConcatProperties
<1>3. CASE h.what \notin Editing
  <2>1. /\ \A d, text : ~ Fresh(m, d, text) /\ ~ Logged(m, d, text)
    BY <1>3, OthersWriteNone
  <2>2. OnlyDo(<<>>, {"publish"})
    BY DEF OnlyDo
  <2>3. h.what = "files" => OnlyDo(m.steps, {"remove", "read", "publish"})
    <3>1. OnlyDo(steps, {"publish"}) => OnlyDo(steps, {"remove", "read", "publish"})
      BY DEF OnlyDo
    <3>2. OnlyDo(steps, {"publish"})
      BY <2>2
    <3> QED  BY <3>1, <3>2, OnlyDoRest DEF Shaped
  <2>4. h.what = "folders" => OnlyDo(m.steps, {"addRoot", "removeRoot"})
    <3>1. h.what = "folders" => m.steps = <<>> \o Tail(h.steps)
      OBVIOUS
    <3>2. OnlyDo(<<>>, {"addRoot", "removeRoot"}) /\ <<>> \in Seq(Steps)
      BY EmptySeq DEF OnlyDo
    <3> QED  BY <3>1, <3>2, OnlyDoRest DEF Shaped
  <2> QED  BY <1>3, <2>1, <2>3, <2>4 DEF Begun, Untold, Shaped
<1>4. CASE h.what \in Editing
  <2>1. m.steps = Tail(h.steps)
    <3>1. steps = <<>>
      BY <1>4 DEF Editing
    <3> QED  BY <1>1, <3>1, EmptyBefore
  <2>2. ASSUME OnlyDo(m.steps, {"publish"})
        PROVE  /\ Begun(m) /\ Shaped(m) /\ \A d \in Docs, text \in Text : ~ Logged(m, d, text)
    <3>1. \A d, text : ~ Fresh(m, d, text) /\ ~ Logged(m, d, text)
      BY <1>2, <2>2, PublishersAreDone
    <3>2. Shaped(m)
      BY <1>4, <2>2 DEF Shaped, Editing
    <3> QED  BY <3>1, <3>2 DEF Begun, Untold
  <2>3. CASE OnlyDo(h.steps, {"publish"})
    <3>1. <<>> \in Seq(Steps) /\ OnlyDo(<<>>, {"publish"})
      BY EmptySeq DEF OnlyDo
    <3>2. OnlyDo(m.steps, {"publish"})
      BY <2>1, <2>3, <3>1, OnlyDoRest
    <3> QED  BY <2>2, <3>2
  <2>4. ASSUME NEW d \in Docs, NEW text \in Text, Fresh(h, d, text) \/ Logged(h, d, text)
        PROVE  /\ Begun(m) /\ Shaped(m)
               /\ \A e \in Docs, t \in Text : Logged(m, e, t) => Fresh(h, e, t) \/ Logged(h, e, t)
    <3>1. CASE h.steps[1].do = "log"
      <4>1. h.what = "open" /\ Fresh(h, d, text) /\ h.steps = DidOpen(d, text) /\ text # NoText
        <5>1. h.what = "open" /\ Fresh(h, d, text) /\ h.steps = DidOpen(d, text)
          BY <2>4, <3>1, AboutOne
        <5> QED  BY <5>1 DEF Fresh
      <4>2. m.steps = DidChange(d, text)
        BY <2>1, <4>1, EditorSteps
      <4>3. Logged(m, d, text) /\ m.steps[1].do = "store" /\ m.steps[1].doc = d /\ m.steps[1].text = text
        BY <4>1, <4>2, EditorSteps DEF Logged
      <4>4. Shaped(m)
        BY <1>4, <4>3 DEF Shaped, Unwritten, Editing
      <4>5. \A e, t : ~ Fresh(m, e, t)
        BY <4>1, <4>3, AboutOne
      <4>6. ASSUME NEW e, NEW t, Logged(m, e, t) PROVE e = d /\ t = text
        <5>1. m.steps[1].doc = e /\ m.steps[1].text = t
          BY <4>3, <4>6, AboutOne
        <5> QED  BY <4>3, <5>1
      <4> QED  BY <4>1, <4>4, <4>5, <4>6 DEF Begun, Untold
    <3>2. CASE h.steps[1].do # "log"
      <4>1. h.steps = DidChange(d, text) \/ h.steps = DidClose(d)
        BY <2>4, <3>2, AboutOne
      <4>2. OnlyDo(Tail(DidChange(d, text)), {"publish"}) /\ OnlyDo(Tail(DidClose(d)), {"publish"})
        BY EditorSteps
      <4>3. OnlyDo(m.steps, {"publish"})
        BY <2>1, <4>1, <4>2, Zenon
      <4> QED  BY <2>2, <4>3
    <3> QED  BY <3>1, <3>2
  <2> QED  BY <1>4, <2>3, <2>4, <2>2 DEF Shaped, Unwritten
<1> QED  BY <1>3, <1>4

LEMMA HandlerGoesOn ==
  ASSUME Inv, Shapes, turn # Nobody, handlers[Polled].steps # <<>>, NEW steps \in Seq(Steps), Continue(steps),
         UNCHANGED <<inbox, started>>,
         steps = <<>> \/ (handlers[Polled].what = "files" /\ OnlyDo(steps, {"publish"})), NEW h, h = handlers[Polled]
  PROVE  GoesOnAs(h)
<1>1. /\ h \in Pending /\ Shaped(h) /\ h.what \in Kinds /\ h.n = turn /\ h.n <= started /\ h.steps \in Seq(Steps)
  BY PolledDoes
<1>2. PICK m : /\ m.n = h.n /\ m.what = h.what /\ m.steps = steps \o Tail(h.steps)
               /\ Pending' = (Pending \ {h}) \cup {m}
  BY GoOnPending
<1>3. /\ Begun(m) /\ Shaped(m)
      /\ \A d \in Docs, text \in Text : Logged(m, d, text) => Fresh(h, d, text) \/ Logged(h, d, text)
  BY <1>1, <1>2, RestIsShaped
<1> QED  BY <1>1, <1>2, <1>3 DEF GoesOnAs

LEMMA PolledInOrder ==
  ASSUME Inv, InOrder,
         \/ LogMessage \/ PublishDiagnostics \/ upsert_document \/ remove_document
         \/ ReadChangedFile \/ did_change_workspace_folders
  PROVE  InOrder' /\ GoesOnAs(handlers[Polled])
<1> DEFINE h == handlers[Polled]
<1>1. /\ turn # Nobody /\ h.steps # <<>> /\ UNCHANGED <<editor, newest, started, inbox, ready>>
      /\ turn' = turn \/ turn' = Nobody
  BY DEF LogMessage, PublishDiagnostics, upsert_document, remove_document, ReadChangedFile,
         did_change_workspace_folders, At, SendToClient, editorVars
<1>2. Shapes
  BY DEF InOrder
<1>3. /\ This.do = "read" => h.what = "files" /\ This.doc \in Docs
  BY <1>1, <1>2, PolledDoes
<1>4. \E steps \in Seq(Steps) : Continue(steps) /\ (steps = <<>> \/ (h.what = "files" /\ OnlyDo(steps, {"publish"})))
  <2>1. CASE ReadChangedFile
    <3>1. This.do = "read"
      BY <2>1 DEF ReadChangedFile, At, This
    <3>2. CASE disk[This.doc] = NoText
      <4>1. Continue(<<>>)
        BY <2>1, <3>2 DEF ReadChangedFile
      <4> QED  BY <4>1, EmptySeq
    <3>3. CASE disk[This.doc] # NoText
      <4> DEFINE publish == Step("publish", This.doc, disk[This.doc])
      <4>1. Continue(<<publish>>)
        BY <2>1, <3>3 DEF ReadChangedFile
      <4>2. publish \in Steps /\ publish.do = "publish"
        BY <1>3, <3>1 DEF Step, Steps, Inv, TypeInv
      <4> HIDE DEF publish
      <4>3. <<publish>> \in Seq(Steps) /\ OnlyDo(<<publish>>, {"publish"})
        BY <4>2 DEF OnlyDo
      <4> QED  BY <1>3, <3>1, <4>1, <4>3
    <3> QED  BY <3>2, <3>3
  <2>2. CASE ~ ReadChangedFile
    <3>1. Continue(<<>>)
      BY <2>2 DEF LogMessage, PublishDiagnostics, upsert_document, remove_document, did_change_workspace_folders
    <3> QED  BY <3>1, EmptySeq
  <2> QED  BY <2>1, <2>2
<1>5. GoesOnAs(h)
  BY <1>1, <1>2, <1>4, HandlerGoesOn
<1>6. InOrder'
  BY <1>1, <1>5, PolledKeepsOrder
<1> QED  BY <1>5, <1>6

LEMMA FinishInOrder ==
  ASSUME Inv, InOrder, Finish
  PROVE  InOrder'
<1>1. /\ UNCHANGED <<editor, newest, started, inbox, ready>> /\ turn' = Nobody
  BY DEF Finish, editorVars
<1>2. /\ handlers[Polled] \in Pending /\ handlers[Polled].n = turn
      /\ Pending' = Pending \ {handlers[Polled]}
  BY FinishPending
<1>3. handlers[Polled].n <= started
  <2>1. turn # Nobody
    BY DEF Finish
  <2> QED  BY <2>1, PolledIsAtWork, PendingProperties
<1>4. GoesOnAs(handlers[Polled])
  BY <1>2, <1>3 DEF GoesOnAs
<1> QED  BY <1>1, <1>4, PolledKeepsOrder

\* The message taken up becomes the last in turn, and the newest of its documents.
LEMMA TakeUpInOrder ==
  ASSUME Inv, InOrder, TakeUp
  PROVE  InOrder'
<1>1. /\ Pending' = Pending
      /\ 1 \in DOMAIN inbox
      /\ newest' = [d \in Docs |-> IF d \in inbox[1].docs THEN started + 1 ELSE newest[d]]
      /\ \A k \in DOMAIN inbox' : /\ k + 1 \in DOMAIN inbox /\ inbox'[k] = inbox[k + 1]
                                  /\ Arriving(k)' = Arriving(k + 1)
  BY TakeUpPending
<1>2. /\ turn = Nobody /\ started' = started + 1 /\ UNCHANGED <<turn, editor>>
      /\ ready' = Append(ready, started + 1)
  BY DEF TakeUp, editorVars
<1>3. /\ \A m \in Pending : m.n \in Nat /\ m.n # 0
      /\ \A m, m2 \in Pending : m.n = m2.n => m = m2
      /\ started \in Nat
  BY PendingProperties
<1>4. Arriving(1) \in Pending /\ Arriving(1).n = started + 1
  BY <1>1, PendingProperties DEF Arriving
<1>5. Shapes'
  <2>1. newest' \in [Docs -> Nat]
    BY <1>1, <1>3 DEF InOrder, Shapes
  <2> QED  BY <1>1, <2>1 DEF InOrder, Shapes
<1>6. /\ DOMAIN ready = 1 .. Len(ready) /\ DOMAIN ready' = 1 .. Len(ready) + 1 /\ Len(ready) \in Nat
      /\ \A i \in DOMAIN ready : ready'[i] = ready[i]
      /\ ready'[Len(ready) + 1] = started + 1
  BY <1>2, <1>3, AppendProperties, LenProperties DEF Inv, TypeInv
<1>7. \A i \in DOMAIN ready : ready[i] \in Nat /\ ready[i] <= started
  <2>1. \A i \in DOMAIN ready : ready[i] \in AtWork
    BY DEF Inv, Turns
  <2>2. \A n \in AtWork : n \in 1 .. started
    BY DEF Inv, Turns, AtWork
  <2> QED  BY <1>3, <2>1, <2>2
<1>8. InTurn'
  <2> SUFFICES ASSUME NEW m \in Pending, m.n <= started + 1, ~ Begun(m)
               PROVE  /\ m.n = turn \/ \E i \in DOMAIN ready' : ready'[i] = m.n
                      /\ \A m2 \in Pending : m2.n < m.n /\ ~ Begun(m2) =>
                           /\ m.n # turn
                           /\ \A i, j \in DOMAIN ready' : ready'[i] = m2.n /\ ready'[j] = m.n => i < j
    BY <1>1, <1>2 DEF InTurn
  <2>1. m.n # turn
    BY <1>2, <1>3 DEF Nobody
  <2>2. Len(ready) + 1 \in DOMAIN ready' /\ DOMAIN ready \subseteq DOMAIN ready'
        /\ \A i \in DOMAIN ready' : i \in DOMAIN ready \/ i = Len(ready) + 1
    BY <1>6
  <2>3. CASE m.n = started + 1
    <3>1. ASSUME NEW m2 \in Pending, m2.n < m.n, NEW i \in DOMAIN ready', NEW j \in DOMAIN ready',
                 ready'[i] = m2.n, ready'[j] = m.n
          PROVE  i < j
      <4>1. m2.n # started + 1
        BY <1>3, <2>3, <3>1
      <4>2. i \in DOMAIN ready
        BY <1>6, <2>2, <3>1, <4>1
      <4>3. j = Len(ready) + 1
        <5>1. \A k \in DOMAIN ready : ready[k] # started + 1
          BY <1>3, <1>7
        <5> QED  BY <1>6, <2>2, <2>3, <3>1, <5>1
      <4> QED  BY <1>6, <4>2, <4>3
    <3> QED  BY <1>6, <2>1, <2>2, <2>3, <3>1
  <2>4. CASE m.n # started + 1
    <3>1. m.n <= started
      BY <1>3, <2>4
    <3>2. /\ \E i \in DOMAIN ready : ready[i] = m.n
          /\ \A m2 \in Pending : m2.n < m.n /\ ~ Begun(m2) =>
               \A i, j \in DOMAIN ready : ready[i] = m2.n /\ ready[j] = m.n => i < j
      BY <2>1, <3>1 DEF InOrder, InTurn
    <3>3. ASSUME NEW m2 \in Pending, m2.n < m.n, ~ Begun(m2), NEW i \in DOMAIN ready', NEW j \in DOMAIN ready',
                 ready'[i] = m2.n, ready'[j] = m.n
          PROVE  i < j
      <4>1. m2.n # started + 1
        BY <1>3, <3>1, <3>3
      <4>2. i \in DOMAIN ready /\ j \in DOMAIN ready
        BY <1>6, <2>2, <2>4, <3>3, <4>1
      <4> QED  BY <1>6, <3>2, <3>3, <4>2
    <3> QED  BY <1>6, <2>1, <2>2, <3>2, <3>3
  <2> QED  BY <2>3, <2>4
<1>9. LastIsEditors'
  BY <1>1, <1>2 DEF InOrder, LastIsEditors
<1>10. NewestIsEditors'
  <2> SUFFICES ASSUME NEW m \in Pending, NEW d \in Docs, NEW text \in Text,
                      m.n = newest'[d], m.n <= started + 1, Fresh(m, d, text) \/ Logged(m, d, text), text # editor[d]
               PROVE  \E m2 \in Pending : m2.n > started + 1 /\ Untold(m2, d)
    BY <1>1, <1>2 DEF NewestIsEditors
  <2>1. CASE d \in inbox[1].docs
    <3>1. m = Arriving(1)
      BY <1>1, <1>3, <1>4, <2>1
    <3>2. m.what = inbox[1].what /\ m.what \in Editing
      BY <3>1, AboutOne DEF Arriving
    <3>3. PICK e \in Docs : inbox[1].docs = {e} /\ Untold(m, e)
      BY <1>1, <3>1, <3>2 DEF InOrder, Shapes
    <3>4. d = e
      BY <2>1, <3>3
    <3>5. ~ Logged(m, d, text)
      <4>1. PICK t \in Text : Fresh(m, d, t)
        BY <3>3, <3>4 DEF Untold
      <4>2. Logged(m, d, text) => m.what = "open" /\ m.steps[1].do = "store"
        BY EditorSteps DEF Logged
      <4> QED  BY <4>1, <4>2, AboutOne
    <3>6. PICK m2 \in Pending : m2.n > m.n /\ Untold(m2, d)
      BY <3>5 DEF InOrder, LastIsEditors
    <3> QED  BY <1>4, <3>1, <3>6
  <2>2. CASE d \notin inbox[1].docs
    <3>1. m.n = newest[d]
      BY <1>1, <2>2
    <3>2. m.n <= started
      <4>1. ASSUME m.n = started + 1 PROVE FALSE
        <5>1. m = Arriving(1)
          BY <1>3, <1>4, <4>1
        <5>2. m.what = inbox[1].what /\ m.what \in Editing
          BY <5>1, AboutOne DEF Arriving
        <5>3. PICK e \in Docs : inbox[1].docs = {e} /\ Untold(m, e)
          BY <1>1, <5>1, <5>2 DEF InOrder, Shapes
        <5>4. d = e
          BY <5>3, SameDocument DEF Untold, Unwritten
        <5> QED  BY <2>2, <5>3, <5>4
      <4> QED  BY <1>3, <4>1
    <3>3. PICK m2 \in Pending : m2.n > started /\ Untold(m2, d)
      BY <3>1, <3>2 DEF InOrder, NewestIsEditors
    <3>4. ASSUME m2.n = started + 1 PROVE FALSE
      <4>1. m2 = Arriving(1)
        BY <1>3, <1>4, <3>3, <3>4
      <4>2. m2.what = inbox[1].what /\ m2.what \in Editing
        BY <3>3, <4>1, AboutOne DEF Arriving, Untold
      <4>3. PICK e \in Docs : inbox[1].docs = {e} /\ Untold(m2, e)
        BY <1>1, <4>1, <4>2 DEF InOrder, Shapes
      <4>4. d = e
        BY <3>3, <4>3, SameDocument DEF Untold, Unwritten
      <4> QED  BY <2>2, <4>3, <4>4
    <3> QED  BY <1>3, <3>3, <3>4
  <2> QED  BY <2>1, <2>2
<1> QED  BY <1>5, <1>8, <1>9, <1>10 DEF InOrder

\* A message is as the editor has it: when it is the editor's, it is about one document and
\* has the text shown of it, and there is one for every document that shows another text.
AsEdited(m, docs) ==
  /\ Shaped(m)
  /\ m.what \in Editing => \E d \in Docs : docs = {d} /\ Untold(m, d)
  /\ \A d \in Docs, text \in Text : Fresh(m, d, text) => text = editor'[d]
  /\ \A d \in Docs : editor'[d] # editor[d] => Untold(m, d)

\* A message that is sent is the newest.
LEMMA SendsInOrder ==
  ASSUME Inv, InOrder, NEW docs \in SUBSET Docs, NEW what \in Kinds, NEW steps \in Seq(Steps),
         Send(docs, what, steps), UNCHANGED <<handlers, started, newest, turn, ready>>,
         NEW m, m = [n |-> started + Len(inbox) + 1, what |-> what, steps |-> steps], AsEdited(m, docs)
  PROVE  InOrder'
<1>1. /\ Pending' = Pending \cup {m}
      /\ \A k \in DOMAIN inbox : k \in DOMAIN inbox' /\ inbox'[k] = inbox[k] /\ Arriving(k)' = Arriving(k)
      /\ \A k \in DOMAIN inbox' :
           k \in DOMAIN inbox \/ (inbox'[k].docs = docs /\ inbox'[k].what = what /\ Arriving(k)' = m)
  <2>1. UNCHANGED <<handlers, started>>
    OBVIOUS
  <2>2. Adds(m, docs)
    BY <2>1, SendPending
  <2>3. ASSUME NEW k \in DOMAIN inbox PROVE Arriving(k)' = Arriving(k)
    <3>1. inbox'[k] = inbox[k]
      BY <2>2 DEF Adds
    <3> QED  BY <2>1, <3>1 DEF Arriving
  <2> QED  BY <2>2, <2>3 DEF Adds
<1>2. /\ \A x \in Pending : x.n \in Nat /\ x.n <= started + Len(inbox)
      /\ started \in Nat /\ Len(inbox) \in Nat
  BY PendingProperties
<1>3. m.n = started + Len(inbox) + 1 /\ m.what = what /\ m.n > started /\ \A x \in Pending : m.n > x.n
  BY <1>2
<1>4. Shapes'
  <2>1. \A x \in Pending' : Shaped(x)
    BY <1>1 DEF InOrder, Shapes, AsEdited
  <2>2. ASSUME NEW k \in DOMAIN inbox', inbox'[k].what \in Editing
        PROVE  \E d \in Docs : inbox'[k].docs = {d} /\ Untold(Arriving(k)', d)
    <3>1. CASE k \in DOMAIN inbox
      BY <1>1, <2>2, <3>1 DEF InOrder, Shapes
    <3>2. CASE k \notin DOMAIN inbox
      <4>1. inbox'[k].docs = docs /\ inbox'[k].what = what /\ Arriving(k)' = m
        BY <1>1, <3>2
      <4> QED  BY <1>3, <2>2, <4>1 DEF AsEdited
    <3> QED  BY <3>1, <3>2
  <2> QED  BY <2>1, <2>2 DEF InOrder, Shapes, Untold
<1>5. InTurn'
  <2>1. \A x \in Pending' : x.n <= started => x \in Pending
    BY <1>1, <1>2, <1>3
  <2>2. \A x \in Pending', x2 \in Pending' : x.n <= started /\ x2.n < x.n => x2 \in Pending
    BY <1>1, <1>2, <1>3
  <2> QED  BY <2>1, <2>2 DEF InOrder, InTurn
<1>6. LastIsEditors'
  <2> SUFFICES ASSUME NEW x \in Pending', NEW d \in Docs, NEW text \in Text, Fresh(x, d, text), text # editor'[d]
               PROVE  \E m2 \in Pending' : m2.n > x.n /\ Untold(m2, d)
    BY DEF LastIsEditors
  <2>1. x \in Pending
    BY <1>1 DEF AsEdited
  <2>2. CASE editor'[d] # editor[d]
    BY <1>1, <1>3, <2>1, <2>2 DEF AsEdited
  <2>3. CASE editor'[d] = editor[d]
    BY <1>1, <2>1, <2>3 DEF InOrder, LastIsEditors
  <2> QED  BY <2>2, <2>3
<1>7. NewestIsEditors'
  <2> SUFFICES ASSUME NEW x \in Pending', NEW d \in Docs, NEW text \in Text,
                      x.n = newest[d], x.n <= started, Fresh(x, d, text) \/ Logged(x, d, text), text # editor'[d]
               PROVE  \E m2 \in Pending' : m2.n > started /\ Untold(m2, d)
    BY DEF NewestIsEditors
  <2>1. x \in Pending
    BY <1>1, <1>2, <1>3
  <2>2. CASE editor'[d] # editor[d]
    BY <1>1, <1>3, <2>2 DEF AsEdited
  <2>3. CASE editor'[d] = editor[d]
    BY <1>1, <2>1, <2>3 DEF InOrder, NewestIsEditors
  <2> QED  BY <2>2, <2>3
<1> QED  BY <1>4, <1>5, <1>6, <1>7 DEF InOrder

\* The editor's message about d, and what it shows of d afterwards.
LEMMA EditorSends ==
  ASSUME Inv, InOrder, NEW d \in Docs, NEW text \in Text, NEW what \in Editing, NEW steps \in Seq(Steps),
         Send({d}, what, steps), UNCHANGED <<handlers, started, newest, turn, ready>>,
         NEW m, m = [n |-> started + Len(inbox) + 1, what |-> what, steps |-> steps], Fresh(m, d, text),
         editor' = [editor EXCEPT ![d] = text]
  PROVE  InOrder' /\ Pending' = Pending \cup {m} /\ Untold(m, d)
<1>1. Untold(m, d) /\ Unwritten(m, d)
  BY DEF Untold, Unwritten
<1>2. m.what = what /\ m.steps = steps /\ what \in Kinds
  BY DEF Editing, Kinds
<1>3. Shaped(m)
  BY <1>1, <1>2 DEF Shaped, Editing
<1>4. ASSUME NEW e \in Docs, NEW t \in Text, Fresh(m, e, t) PROVE t = editor'[e]
  <2>1. e = d
    BY <1>4, SameDocument DEF Unwritten
  <2>2. t = text
    BY <1>4, <2>1, EditorSteps DEF Fresh
  <2> QED  BY <2>1, <2>2 DEF Inv, TypeInv
<1>5. \A e \in Docs : editor'[e] # editor[e] => Untold(m, e)
  BY <1>1 DEF Inv, TypeInv
<1>6. AsEdited(m, {d})
  BY <1>1, <1>3, <1>4, <1>5 DEF AsEdited
<1>7. {d} \in SUBSET Docs /\ UNCHANGED <<handlers, started>>
  OBVIOUS
<1>8. Pending' = Pending \cup {m}
  BY <1>2, <1>7, SendPending DEF Adds
<1>9. InOrder'
  BY <1>2, <1>6, <1>7, SendsInOrder
<1> QED  BY <1>1, <1>8, <1>9

-----------------------------------------------------------------------------
(* What the watcher reports *)

\* Every changed document has its place in the sequence.
LEMMA SetToSeqCovers ==
  ASSUME NEW S \in SUBSET Docs, NEW d \in S
  PROVE  \E i \in 1 .. Cardinality(S) : SetToSeq(S)[i] = d
<1> DEFINE n == Cardinality(S)
<1>1. IsFiniteSet(S)
  BY DocsAssumption, FS_Subset
<1>2. \E f \in [1 .. n -> S] : IsInjective(f)
  BY <1>1, FS_CardinalityType DEF ExistsBijection, Bijection, Injection, Surjection, IsInjective
<1>3. SetToSeq(S) \in [1 .. n -> S] /\ IsInjective(SetToSeq(S))
  BY <1>2 DEF SetToSeq
<1> DEFINE s == SetToSeq(S)
<1> HIDE DEF s
<1>4. s \in Injection(1 .. n, S)
  BY <1>3 DEF Injection, IsInjective, s
<1>5. n \in Nat /\ IsFiniteSet(1 .. n) /\ Cardinality(1 .. n) = n
  BY <1>1, FS_CardinalityType, FS_Interval
<1>6. s \in Surjection(1 .. n, S)
  BY <1>1, <1>4, <1>5, FS_Injection
<1>7. \E i \in 1 .. n : s[i] = d
  BY <1>6 DEF Surjection
<1> QED  BY <1>7 DEF s

\* The report of changed files only removes and reads, and has a step for every one of them.
LEMMA ReportMatches ==
  ASSUME Inv, NEW S \in SUBSET Docs, NEW m, m.what = "files", m.steps = DidChangeWatchedFiles(S)
  PROVE  /\ Shaped(m)
         /\ \A d \in S : Matches(m, d, disk[d])
<1>1. DOMAIN m.steps = 1 .. Cardinality(S)
  BY DEF DidChangeWatchedFiles
<1>2. ASSUME NEW i \in DOMAIN m.steps
      PROVE  /\ m.steps[i].doc = SetToSeq(S)[i] /\ m.steps[i].do \in {"remove", "read"}
             /\ disk[SetToSeq(S)[i]] = NoText => m.steps[i].do = "remove"
  BY <1>2 DEF DidChangeWatchedFiles, Step
<1>3. Shaped(m)
  BY <1>2 DEF Shaped, OnlyDo, Editing
<1>4. ASSUME NEW d \in S PROVE Matches(m, d, disk[d])
  <2>1. PICK i \in 1 .. Cardinality(S) : SetToSeq(S)[i] = d
    BY SetToSeqCovers
  <2> QED  BY <1>1, <1>2, <2>1 DEF Matches
<1> QED  BY <1>3, <1>4

-----------------------------------------------------------------------------
(* What the map has *)

\* What makes a document current is still there: its texts, and a message for it if one was
\* needed.
LEMMA StaysCurrent ==
  ASSUME NEW d \in Docs, CurrentFor(d),
         documents'[d] = documents[d], editor'[d] = editor[d], d \in late => d \in late',
         \A m \in Pending : Unwritten(m, d) => \E m2 \in Pending' : Unwritten(m2, d),
         editor[d] = NoText =>
           \/ d \in changed'
           \/ /\ disk'[d] = disk[d]
              /\ d \in changed => \E m2 \in Pending' : Matches(m2, d, disk[d])
              /\ \A m \in Pending : Matches(m, d, disk[d]) => \E m2 \in Pending' : Matches(m2, d, disk[d])
  PROVE  CurrentFor(d)'
<1>1. CASE d \in late
  BY <1>1 DEF CurrentFor
<1>2. CASE \E m \in Pending : Unwritten(m, d)
  BY <1>2 DEF CurrentFor
<1>3. CASE Settled(d)
  <2>1. CASE editor[d] # NoText
    BY <1>3, <2>1 DEF CurrentFor, Settled
  <2>2. CASE editor[d] = NoText /\ d \in changed'
    BY <2>2 DEF CurrentFor, Settled, Covered
  <2>3. CASE editor[d] = NoText /\ d \notin changed'
    <3>1. Covered(d)
      BY <1>3, <2>3 DEF Settled
    <3>2. Covered(d)'
      BY <2>3, <3>1 DEF Covered
    <3> QED  BY <2>3, <3>2 DEF CurrentFor, Settled
  <2> QED  BY <2>1, <2>2, <2>3
<1> QED  BY <1>1, <1>2, <1>3 DEF CurrentFor

\* Steps of a file event that are still to be done are still there when another is done.
LEMMA RestMatches ==
  ASSUME NEW h, NEW m, h.steps \in Seq(Steps), h.steps # <<>>, NEW steps \in Seq(Steps),
         m.what = h.what, m.steps = steps \o Tail(h.steps), NEW d, NEW text, Matches(h, d, text),
         h.steps[1].do # "publish" /\ h.steps[1].doc = d => h.steps[1].do # "remove" /\ text = NoText
  PROVE  Matches(m, d, text)
<1> DEFINE rest == Tail(h.steps)
           both == steps \o rest
<1>1. PICK i \in DOMAIN h.steps :
        h.steps[i].do # "publish" /\ h.steps[i].doc = d /\ (h.steps[i].do = "remove" \/ text # NoText)
  BY DEF Matches
<1>2. i # 1
  BY <1>1
<1>3. /\ rest \in Seq(Steps) /\ Len(rest) = Len(h.steps) - 1 /\ i \in 2 .. Len(h.steps) /\ Len(h.steps) \in Nat
      /\ \A j \in 1 .. Len(h.steps) - 1 : rest[j] = h.steps[j + 1]
  BY <1>2, HeadTailProperties, LenProperties
<1>4. rest[i - 1] = h.steps[i] /\ i - 1 \in 1 .. Len(rest)
  <2>1. i - 1 \in 1 .. Len(h.steps) - 1 /\ (i - 1) + 1 = i
    BY <1>3
  <2> QED  BY <1>3, <2>1
<1> HIDE DEF rest
<1>5. /\ both \in Seq(Steps) /\ Len(both) = Len(steps) + Len(rest)
      /\ \A j \in 1 .. Len(steps) + Len(rest) : both[j] = IF j <= Len(steps) THEN steps[j] ELSE rest[j - Len(steps)]
  BY <1>3, ConcatProperties
<1> HIDE DEF both
<1>6. Len(steps) \in Nat /\ Len(rest) \in Nat /\ DOMAIN both = 1 .. Len(steps) + Len(rest)
  BY <1>3, <1>5, LenProperties
<1>7. \A k \in 1 .. Len(rest) :
        /\ Len(steps) + k \in 1 .. Len(steps) + Len(rest) /\ ~ (Len(steps) + k <= Len(steps))
        /\ (Len(steps) + k) - Len(steps) = k
  BY <1>6
<1>8. both[Len(steps) + (i - 1)] = rest[i - 1] /\ Len(steps) + (i - 1) \in DOMAIN both
  BY <1>4, <1>5, <1>6, <1>7
<1>9. m.what = "files" /\ m.steps = both
  BY DEF Matches, both, rest
<1> QED  BY <1>1, <1>4, <1>8, <1>9 DEF Matches

-----------------------------------------------------------------------------
(* The environment *)

\* The editor sends a message about d that has begun nothing and is to make the map hold text.
Edits(d, text, what, steps) ==
  /\ Send({d}, what, steps) /\ editor' = [editor EXCEPT ![d] = text]
  /\ \A m : m.what = what /\ m.steps = steps => Fresh(m, d, text)

LEMMA EditorMoves ==
  ASSUME Inv, InOrder, Current, NEW d \in Docs, EditorOpens(d) \/ EditorChanges(d) \/ EditorCloses(d),
         UNCHANGED <<documents, handlers, started, newest, turn, ready, late>>
  PROVE  InOrder' /\ Current'
<1>1. disk' = disk /\ changed' = changed
  BY DEF EditorOpens, EditorChanges, EditorCloses
<1>2. PICK text \in Text, what \in Editing, steps \in Seq(Steps) : Edits(d, text, what, steps)
  <2>1. CASE EditorOpens(d)
    <3>1. disk[d] \in Text /\ disk[d] # NoText /\ "open" \in Editing
      BY <2>1 DEF EditorOpens, Inv, TypeInv, Editing
    <3>2. DidOpen(d, disk[d]) \in Seq(Steps)
      BY <3>1, SentStepsTyped
    <3>3. Send({d}, "open", DidOpen(d, disk[d])) /\ editor' = [editor EXCEPT ![d] = disk[d]]
      BY <2>1 DEF EditorOpens
    <3>4. \A m : m.what = "open" /\ m.steps = DidOpen(d, disk[d]) => Fresh(m, d, disk[d])
      BY <3>1 DEF Fresh
    <3>5. Edits(d, disk[d], "open", DidOpen(d, disk[d]))
      BY <3>3, <3>4 DEF Edits
    <3> QED  BY <3>1, <3>2, <3>5
  <2>2. CASE EditorChanges(d)
    <3>1. New \in Text /\ New # NoText /\ "change" \in Editing
      BY <2>2, EventsAssumption DEF EditorChanges, Inv, TypeInv, Event, New, Text, Texts, NoText, Editing
    <3>2. DidChange(d, New) \in Seq(Steps)
      BY <3>1, SentStepsTyped
    <3>3. Send({d}, "change", DidChange(d, New)) /\ editor' = [editor EXCEPT ![d] = New]
      BY <2>2 DEF EditorChanges
    <3>4. \A m : m.what = "change" /\ m.steps = DidChange(d, New) => Fresh(m, d, New)
      BY <3>1 DEF Fresh
    <3>5. Edits(d, New, "change", DidChange(d, New))
      BY <3>3, <3>4 DEF Edits
    <3> QED  BY <3>1, <3>2, <3>5
  <2>3. CASE EditorCloses(d)
    <3>1. NoText \in Text /\ "close" \in Editing
      BY DEF Text, Editing
    <3>2. DidClose(d) \in Seq(Steps)
      BY <3>1, SentStepsTyped
    <3>3. Send({d}, "close", DidClose(d)) /\ editor' = [editor EXCEPT ![d] = NoText]
      BY <2>3 DEF EditorCloses
    <3>4. \A m : m.what = "close" /\ m.steps = DidClose(d) => Fresh(m, d, NoText)
      BY DEF Fresh
    <3>5. Edits(d, NoText, "close", DidClose(d))
      BY <3>3, <3>4 DEF Edits
    <3> QED  BY <3>1, <3>2, <3>5
  <2> QED  BY <2>1, <2>2, <2>3
<1>3. PICK m : m = [n |-> started + Len(inbox) + 1, what |-> what, steps |-> steps]
  OBVIOUS
<1>4. m.what = what /\ m.steps = steps
  BY <1>3
<1>5. Fresh(m, d, text)
  BY <1>2, <1>4 DEF Edits
<1>6. InOrder' /\ Pending' = Pending \cup {m} /\ Untold(m, d)
  <2>1. Send({d}, what, steps) /\ editor' = [editor EXCEPT ![d] = text]
    BY <1>2 DEF Edits
  <2> QED  BY <1>3, <1>5, <2>1, EditorSends
<1>7. ASSUME NEW e \in Docs PROVE CurrentFor(e)'
  <2>1. CASE e = d
    <3>1. m \in Pending' /\ Unwritten(m, e)
      BY <1>6, <2>1 DEF Untold, Unwritten
    <3> QED  BY <3>1 DEF CurrentFor
  <2>2. CASE e # d
    <3>1. editor'[e] = editor[e]
      BY <1>2, <2>2 DEF Edits, Inv, TypeInv
    <3>2. CurrentFor(e)
      BY DEF Current
    <3>3. e \in changed => e \in changed'
      BY <1>1
    <3> QED  BY <1>1, <1>6, <3>1, <3>2, <3>3, StaysCurrent
  <2> QED  BY <2>1, <2>2
<1> QED  BY <1>6, <1>7 DEF Current

LEMMA FilesMove ==
  ASSUME Inv, InOrder, Current, NEW d \in Docs, EditorSaves(d) \/ DiskChanges(d),
         UNCHANGED <<documents, handlers, started, newest, turn, ready, late>>
  PROVE  InOrder' /\ Current'
<1>1. UNCHANGED <<editor, inbox>> /\ changed' = changed \cup {d} /\ \A e \in Docs \ {d} : disk'[e] = disk[e]
  BY DEF EditorSaves, DiskChanges, Inv, TypeInv
<1>2. Pending' = Pending
  BY <1>1 DEF Pending, Arriving
<1>3. InOrder'
  <2>1. Shapes'
    BY <1>1, <1>2 DEF InOrder, Shapes, Arriving
  <2>2. InTurn' /\ LastIsEditors' /\ NewestIsEditors'
    BY <1>1, <1>2 DEF InOrder, InTurn, LastIsEditors, NewestIsEditors
  <2> QED  BY <2>1, <2>2 DEF InOrder
<1>4. ASSUME NEW e \in Docs PROVE CurrentFor(e)'
  <2>1. CurrentFor(e)
    BY DEF Current
  <2>2. e = d => e \in changed'
    BY <1>1
  <2>3. e \in changed => e \in changed'
    BY <1>1
  <2> QED  BY <1>1, <1>2, <2>1, <2>2, <2>3, StaysCurrent
<1> QED  BY <1>3, <1>4 DEF Current

LEMMA WatcherMoves ==
  ASSUME Inv, InOrder, Current, WatcherReports,
         UNCHANGED <<documents, handlers, started, newest, turn, ready, late>>
  PROVE  InOrder' /\ Current'
<1>1. PICK S \in SUBSET changed : Send(S, "files", DidChangeWatchedFiles(S)) /\ changed' = changed \ S
  BY DEF WatcherReports
<1>2. UNCHANGED <<editor, disk>> /\ S \in SUBSET Docs /\ "files" \in Kinds /\ "files" \notin Editing
  BY DEF WatcherReports, Inv, TypeInv, Kinds, Editing
<1> DEFINE steps == DidChangeWatchedFiles(S)
<1>3. steps \in Seq(Steps)
  BY <1>2, WatchedStepsTyped
<1>4. PICK m : m = [n |-> started + Len(inbox) + 1, what |-> "files", steps |-> steps]
  OBVIOUS
<1>5. m.what = "files" /\ m.steps = steps
  BY <1>4
<1>6. Shaped(m) /\ \A d \in S : Matches(m, d, disk[d])
  BY <1>2, <1>5, ReportMatches
<1> HIDE DEF steps
<1>7. AsEdited(m, S)
  BY <1>2, <1>5, <1>6, OthersWriteNone DEF AsEdited
<1>8. InOrder'
  BY <1>1, <1>2, <1>3, <1>4, <1>7, SendsInOrder DEF steps
<1>9. Pending' = Pending \cup {m}
  BY <1>1, <1>2, <1>3, <1>4, SendPending DEF Adds, steps
<1>10. ASSUME NEW e \in Docs PROVE CurrentFor(e)'
  <2>1. CurrentFor(e)
    BY DEF Current
  <2>2. e \in changed => e \in changed' \/ Matches(m, e, disk[e])
    BY <1>1, <1>6
  <2> QED  BY <1>2, <1>9, <2>1, <2>2, StaysCurrent
<1> QED  BY <1>8, <1>10 DEF Current

LEMMA FoldersMove ==
  ASSUME Inv, InOrder, Current, FoldersChange,
         UNCHANGED <<documents, handlers, started, newest, turn, ready, late>>
  PROVE  InOrder' /\ Current'
<1>1. PICK root \in Roots, do \in {"addRoot", "removeRoot"} : Send({}, "folders", <<[do |-> do, root |-> root]>>)
  BY DEF FoldersChange
<1>2. UNCHANGED <<editor, disk, changed>> /\ {} \in SUBSET Docs /\ "folders" \in Kinds /\ "folders" \notin Editing
  BY DEF FoldersChange, Kinds, Editing
<1> DEFINE step  == [do |-> do, root |-> root]
           steps == <<step>>
<1>3. step \in Steps /\ step.do \in {"addRoot", "removeRoot"}
  BY DEF Steps
<1> HIDE DEF step
<1>4. steps \in Seq(Steps) /\ OnlyDo(steps, {"addRoot", "removeRoot"})
  BY <1>3 DEF OnlyDo
<1> HIDE DEF steps
<1>5. Send({}, "folders", steps)
  BY <1>1 DEF steps, step
<1>6. PICK m : m = [n |-> started + Len(inbox) + 1, what |-> "folders", steps |-> steps]
  OBVIOUS
<1>7. m.what = "folders" /\ m.steps = steps
  BY <1>6
<1>8. Shaped(m)
  BY <1>2, <1>4, <1>7 DEF Shaped
<1>9. AsEdited(m, {})
  BY <1>2, <1>7, <1>8, OthersWriteNone DEF AsEdited
<1>10. InOrder'
  BY <1>2, <1>4, <1>5, <1>6, <1>9, SendsInOrder
<1>11. Pending' = Pending \cup {m}
  BY <1>2, <1>4, <1>5, <1>6, SendPending DEF Adds
<1>12. ASSUME NEW e \in Docs PROVE CurrentFor(e)'
  <2>1. CurrentFor(e)
    BY DEF Current
  <2> QED  BY <1>2, <1>11, <2>1, StaysCurrent
<1> QED  BY <1>10, <1>12 DEF Current

-----------------------------------------------------------------------------
(* The server *)

\* The messages that make d current, or will, are still there.
Keeps(d) ==
  /\ \A m \in Pending : Unwritten(m, d) => \E m2 \in Pending' : Unwritten(m2, d)
  /\ \A m \in Pending : Matches(m, d, disk[d]) => \E m2 \in Pending' : Matches(m2, d, disk[d])

\* A step that writes nothing to the map.
LEMMA WritesNothing ==
  ASSUME Current, UNCHANGED <<documents, editor, disk, changed, late>>, \A d \in Docs : Keeps(d)
  PROVE  Current'
<1> SUFFICES ASSUME NEW d \in Docs PROVE CurrentFor(d)'
  BY DEF Current
<1>1. CurrentFor(d)
  BY DEF Current
<1>2. d \in changed => d \in changed'
  OBVIOUS
<1> QED  BY <1>1, <1>2, StaysCurrent DEF Keeps

LEMMA FinishKeepsCurrent ==
  ASSUME Inv, Current, Finish
  PROVE  Current'
<1> DEFINE h == handlers[Polled]
<1>1. Pending' = Pending \ {h} /\ h.steps = <<>> /\ UNCHANGED <<documents, editor, disk, changed, late>>
  BY FinishPending DEF Finish, editorVars
<1>2. \A d, text : ~ Unwritten(h, d) /\ ~ Matches(h, d, text)
  BY <1>1, AboutOne DEF Unwritten, Matches
<1> HIDE DEF h
<1>3. \A d \in Docs : Keeps(d)
  BY <1>1, <1>2 DEF Keeps
<1> QED  BY <1>1, <1>3, WritesNothing

\* Going on keeps what is to be done for d, unless the step done was that.
LEMMA GoingOnKeeps ==
  ASSUME Inv, Shapes, turn # Nobody, handlers[Polled].steps # <<>>, NEW steps \in Seq(Steps), Continue(steps),
         UNCHANGED <<inbox, started>>,
         steps = <<>> \/ handlers[Polled].what = "files", NEW d \in Docs,
         This.do \in {"store", "remove", "read"} /\ This.doc = d => This.do = "read" /\ disk[d] = NoText
  PROVE  Keeps(d)
<1> DEFINE h == handlers[Polled]
<1>1. /\ h \in Pending /\ Shaped(h) /\ h.what \in Kinds /\ h.steps \in Seq(Steps) /\ h.steps # <<>>
      /\ This = h.steps[1]
      /\ This.do = "read" => h.what = "files"
      /\ This.do \in {"addRoot", "removeRoot"} => h.what = "folders"
      /\ This.do = "log" => h.what = "open"
  BY PolledDoes
<1>2. PICK m : /\ m.n = h.n /\ m.what = h.what /\ m.steps = steps \o Tail(h.steps)
               /\ Pending' = (Pending \ {h}) \cup {m}
  BY GoOnPending
<1>3. This.do \in {"log", "store", "publish", "remove", "read", "addRoot", "removeRoot"}
  BY ThisIsAStep DEF Steps
<1> HIDE DEF h
<1>4. ASSUME Unwritten(h, d) PROVE Unwritten(m, d)
  <2>1. PICK text \in Text : Fresh(h, d, text) \/ Logged(h, d, text)
    BY <1>4 DEF Unwritten
  <2>2. h.what = "open" /\ Fresh(h, d, text) /\ h.steps = DidOpen(d, text)
    BY <1>1, <2>1, AboutOne
  <2>3. steps = <<>>
    BY <2>2 DEF h
  <2>4. Tail(h.steps) \in Seq(Steps)
    BY <1>1, HeadTailProperties
  <2>5. m.steps = DidChange(d, text)
    BY <1>2, <2>2, <2>3, <2>4, EmptyBefore, EditorSteps
  <2>6. Logged(m, d, text)
    BY <1>2, <2>2, <2>5 DEF Logged, Fresh
  <2> QED  BY <2>6 DEF Unwritten
<1>5. ASSUME Matches(h, d, disk[d]) PROVE Matches(m, d, disk[d])
  <2>1. h.what = "files"
    BY <1>5 DEF Matches
  <2>2. This.do # "publish" /\ This.doc = d => This.do # "remove" /\ disk[d] = NoText
    BY <1>1, <1>3, <2>1
  <2> QED  BY <1>1, <1>2, <1>5, <2>2, RestMatches
<1> QED  BY <1>1, <1>2, <1>4, <1>5 DEF Keeps

LEMMA SendsKeepCurrent ==
  ASSUME Inv, InOrder, Current, LogMessage \/ PublishDiagnostics \/ did_change_workspace_folders
  PROVE  Current'
<1>1. /\ turn # Nobody /\ handlers[Polled].steps # <<>> /\ Continue(<<>>)
      /\ UNCHANGED <<inbox, started, documents, editor, disk, changed, late>>
      /\ This.do \notin {"store", "remove", "read"}
  BY DEF LogMessage, PublishDiagnostics, did_change_workspace_folders, At, This, editorVars
<1>2. <<>> \in Seq(Steps) /\ Shapes
  BY EmptySeq DEF InOrder
<1>3. \A d \in Docs : Keeps(d)
  BY <1>1, <1>2, GoingOnKeeps
<1> QED  BY <1>1, <1>3, WritesNothing

\* A step that writes what the map has of a document leaves the others as they were.
LEMMA OthersStayCurrent ==
  ASSUME Inv, Current, NEW text, NEW isLate \in BOOLEAN, Write(text, isLate), UNCHANGED <<editor, disk, changed>>,
         NEW d \in Docs, d # This.doc, Keeps(d)
  PROVE  CurrentFor(d)'
<1>1. documents'[d] = documents[d] /\ (d \in late => d \in late')
  BY DEF Write, Inv, TypeInv
<1>2. CurrentFor(d)
  BY DEF Current
<1>3. d \in changed => d \in changed'
  OBVIOUS
<1> QED  BY <1>1, <1>2, <1>3, StaysCurrent DEF Keeps

\* The editor's text is written, or a newer message will write it.
LEMMA EditorsWrite ==
  ASSUME Inv, InOrder, NEW h, GoesOnAs(h), NEW d \in Docs, NEW text \in Text,
         Fresh(h, d, text) \/ (Logged(h, d, text) /\ newest[d] = h.n),
         documents'[d] = text, editor' = editor
  PROVE  CurrentFor(d)'
<1>1. h \in Pending /\ h.n <= started /\ h.n \in Nat /\ started \in Nat
  BY PendingProperties DEF GoesOnAs
<1>2. text = editor[d] \/ \E m2 \in Pending : m2.n > h.n /\ Untold(m2, d)
  <2>1. CASE Fresh(h, d, text)
    BY <1>1, <2>1 DEF InOrder, LastIsEditors
  <2>2. CASE Logged(h, d, text) /\ newest[d] = h.n
    <3>1. text = editor[d] \/ \E m2 \in Pending : m2.n > started /\ Untold(m2, d)
      BY <1>1, <2>2 DEF InOrder, NewestIsEditors
    <3>2. \A m2 \in Pending : m2.n > started => m2.n > h.n
      BY <1>1, PendingProperties
    <3> QED  BY <3>1, <3>2
  <2> QED  BY <2>1, <2>2
<1>3. CASE text = editor[d]
  BY <1>3 DEF CurrentFor, Settled, Covered
<1>4. ASSUME NEW m2 \in Pending, m2.n > h.n, Untold(m2, d) PROVE CurrentFor(d)'
  <2>1. m2 # h
    BY <1>1, <1>4
  <2>2. m2 \in Pending' /\ Unwritten(m2, d)
    BY <1>4, <2>1 DEF GoesOnAs, Untold, Unwritten
  <2> QED  BY <2>2 DEF CurrentFor
<1> QED  BY <1>2, <1>3, <1>4

LEMMA StoreKeepsCurrent ==
  ASSUME Inv, InOrder, Current, upsert_document
  PROVE  Current'
<1> DEFINE h == handlers[Polled]
           isLate == Overtaken /\ h.what = "open"
<1>1. /\ turn # Nobody /\ h.steps # <<>> /\ Continue(<<>>) /\ This.do = "store" /\ Write(This.text, isLate)
      /\ UNCHANGED <<inbox, started, editor, disk, changed, newest>>
  BY DEF upsert_document, At, This, editorVars
<1>2. <<>> \in Seq(Steps) /\ Shapes
  BY EmptySeq DEF InOrder
<1>3. /\ h.n = turn /\ This.doc \in Docs /\ This.text \in Text
      /\ \/ h.what = "open" /\ Logged(h, This.doc, This.text)
         \/ h.what = "change" /\ Fresh(h, This.doc, This.text)
  BY <1>1, <1>2, PolledDoes
<1>4. GoesOnAs(h)
  BY PolledInOrder
<1>5. isLate \in BOOLEAN
  OBVIOUS
<1>6. ASSUME NEW d \in Docs, d # This.doc PROVE CurrentFor(d)'
  <2>1. Keeps(d)
    BY <1>1, <1>2, <1>6, GoingOnKeeps
  <2> HIDE DEF isLate
  <2> QED  BY <1>1, <1>5, <1>6, <2>1, OthersStayCurrent
<1>7. ASSUME NEW d \in Docs, d = This.doc PROVE CurrentFor(d)'
  <2>1. documents'[d] = This.text
    BY <1>1, <1>3, <1>7 DEF Write, Inv, TypeInv
  <2>2. CASE isLate
    <3>1. d \in late'
      BY <1>1, <1>7, <2>2 DEF Write
    <3> QED  BY <3>1 DEF CurrentFor
  <2>3. CASE ~ isLate
    <3>1. Fresh(h, d, This.text) \/ (Logged(h, d, This.text) /\ newest[d] = h.n)
      BY <1>3, <1>7, <2>3 DEF Overtaken
    <3> HIDE DEF h
    <3> QED  BY <1>1, <1>3, <1>4, <2>1, <3>1, EditorsWrite
  <2> QED  BY <2>2, <2>3
<1> QED  BY <1>6, <1>7 DEF Current

LEMMA RemoveKeepsCurrent ==
  ASSUME Inv, InOrder, Current, remove_document
  PROVE  Current'
<1> DEFINE h == handlers[Polled]
           isLate == h.what = "files" /\ (Overtaken \/ editor[This.doc] # NoText)
<1>1. /\ turn # Nobody /\ h.steps # <<>> /\ Continue(<<>>) /\ This.do = "remove" /\ Write(NoText, isLate)
      /\ UNCHANGED <<inbox, started, editor, disk, changed, newest>>
  BY DEF remove_document, At, This, editorVars
<1>2. <<>> \in Seq(Steps) /\ Shapes
  BY EmptySeq DEF InOrder
<1>3. /\ This.doc \in Docs /\ NoText \in Text
      /\ h.what = "files" \/ (h.what = "close" /\ Fresh(h, This.doc, NoText))
  BY <1>1, <1>2, PolledDoes DEF Text
<1>4. GoesOnAs(h)
  BY PolledInOrder
<1>5. isLate \in BOOLEAN
  OBVIOUS
<1>6. ASSUME NEW d \in Docs, d # This.doc PROVE CurrentFor(d)'
  <2>1. Keeps(d)
    BY <1>1, <1>2, <1>6, GoingOnKeeps
  <2> HIDE DEF isLate
  <2> QED  BY <1>1, <1>5, <1>6, <2>1, OthersStayCurrent
<1>7. ASSUME NEW d \in Docs, d = This.doc PROVE CurrentFor(d)'
  <2>1. documents'[d] = NoText
    BY <1>1, <1>3, <1>7 DEF Write, Inv, TypeInv
  <2>2. CASE isLate
    <3>1. d \in late'
      BY <1>1, <1>7, <2>2 DEF Write
    <3> QED  BY <3>1 DEF CurrentFor
  <2>3. CASE h.what = "files" /\ ~ isLate
    <3>1. editor'[d] = NoText
      BY <1>1, <1>7, <2>3
    <3> QED  BY <2>1, <3>1 DEF CurrentFor, Settled, Covered
  <2>4. CASE Fresh(h, d, NoText)
    <3> HIDE DEF h
    <3> QED  BY <1>1, <1>3, <1>4, <2>1, <2>4, EditorsWrite
  <2> QED  BY <1>3, <1>7, <2>2, <2>3, <2>4
<1> QED  BY <1>6, <1>7 DEF Current

LEMMA ReadKeepsCurrent ==
  ASSUME Inv, InOrder, Current, ReadChangedFile
  PROVE  Current'
<1> DEFINE h == handlers[Polled]
           text == disk[This.doc]
           isLate == Overtaken \/ editor[This.doc] \notin {NoText, text}
           publish == Step("publish", This.doc, text)
<1>1. /\ turn # Nobody /\ h.steps # <<>> /\ This.do = "read"
      /\ UNCHANGED <<inbox, started, editor, disk, changed, newest>>
  BY DEF ReadChangedFile, At, This, editorVars
<1>2. <<>> \in Seq(Steps) /\ Shapes
  BY EmptySeq DEF InOrder
<1>3. This.doc \in Docs /\ h.what = "files" /\ text \in Text
  BY <1>1, <1>2, PolledDoes DEF Inv, TypeInv
<1>4. CASE text = NoText
  <2>1. Continue(<<>>) /\ UNCHANGED <<documents, late>>
    BY <1>4 DEF ReadChangedFile
  <2>2. \A d \in Docs : Keeps(d)
    BY <1>1, <1>2, <1>4, <2>1, GoingOnKeeps
  <2> QED  BY <1>1, <2>1, <2>2, WritesNothing
<1>5. CASE text # NoText
  <2>1. Continue(<<publish>>) /\ Write(text, isLate)
    BY <1>5 DEF ReadChangedFile
  <2>2. publish \in Steps
    BY <1>3 DEF Step, Steps
  <2>3. isLate \in BOOLEAN
    OBVIOUS
  <2> HIDE DEF publish
  <2>4. <<publish>> \in Seq(Steps)
    BY <2>2
  <2>5. ASSUME NEW d \in Docs, d # This.doc PROVE CurrentFor(d)'
    <3>1. Keeps(d)
      <4> DEFINE steps == <<publish>>
      <4> HIDE DEF steps
      <4>1. steps \in Seq(Steps) /\ Continue(steps)
        BY <2>1, <2>4 DEF steps
      <4> QED  BY <1>1, <1>2, <1>3, <2>5, <4>1, GoingOnKeeps
    <3> HIDE DEF isLate, text
    <3> QED  BY <1>1, <2>1, <2>3, <2>5, <3>1, OthersStayCurrent
  <2>6. ASSUME NEW d \in Docs, d = This.doc PROVE CurrentFor(d)'
    <3>1. documents'[d] = disk[d]
      BY <1>3, <2>1, <2>6 DEF Write, Inv, TypeInv
    <3>2. CASE isLate
      <4>1. d \in late'
        BY <2>1, <2>6, <3>2 DEF Write
      <4> QED  BY <4>1 DEF CurrentFor
    <3>3. CASE ~ isLate
      <4>1. editor[d] \in {NoText, disk[d]} /\ disk[d] # NoText
        BY <1>5, <2>6, <3>3
      <4> QED  BY <1>1, <3>1, <4>1 DEF CurrentFor, Settled, Covered
    <3> QED  BY <3>2, <3>3
  <2> QED  BY <2>5, <2>6 DEF Current
<1> QED  BY <1>4, <1>5

-----------------------------------------------------------------------------
LEMMA InitInOrder ==
  ASSUME Init
  PROVE  InOrder /\ Current
<1>1. Pending = {} /\ inbox = <<>> /\ newest \in [Docs -> Nat]
  BY DEF Init, Pending
<1>2. InOrder
  BY <1>1 DEF InOrder, Shapes, InTurn, LastIsEditors, NewestIsEditors
<1>3. Current
  BY DEF Init, Current, CurrentFor, Settled, Covered
<1> QED  BY <1>2, <1>3

LEMMA EnvironmentInOrder ==
  ASSUME Inv, InOrder, Current, Environment
  PROVE  InOrder' /\ Current'
<1>1. UNCHANGED <<documents, handlers, started, newest, turn, ready, late>>
  BY DEF Environment
<1>2. ASSUME NEW d \in Docs, EditorOpens(d) \/ EditorChanges(d) \/ EditorCloses(d) PROVE InOrder' /\ Current'
  BY <1>1, <1>2, EditorMoves
<1>3. ASSUME NEW d \in Docs, EditorSaves(d) \/ DiskChanges(d) PROVE InOrder' /\ Current'
  BY <1>1, <1>3, FilesMove
<1>4. CASE WatcherReports
  BY <1>1, <1>4, WatcherMoves
<1>5. CASE FoldersChange
  BY <1>1, <1>5, FoldersMove
<1> QED  BY <1>2, <1>3, <1>4, <1>5 DEF Environment

LEMMA StutterInOrder ==
  ASSUME InOrder, Current, UNCHANGED vars
  PROVE  InOrder' /\ Current'
<1>1. UNCHANGED <<editor, disk, changed, inbox, documents, handlers, turn, ready, started, newest, late>>
  BY DEF vars, editorVars
<1>2. Pending' = Pending
  BY <1>1 DEF Pending, Arriving
<1>3. Shapes'
  BY <1>1, <1>2 DEF InOrder, Shapes, Arriving
<1>4. InTurn' /\ LastIsEditors' /\ NewestIsEditors'
  BY <1>1, <1>2 DEF InOrder, InTurn, LastIsEditors, NewestIsEditors
<1>5. \A d \in Docs : Keeps(d)
  BY <1>2 DEF Keeps
<1>6. Current'
  BY <1>1, <1>5, WritesNothing
<1> QED  BY <1>3, <1>4, <1>6 DEF InOrder

LEMMA QuietStepsKeepCurrent ==
  ASSUME Inv, Current, TakeUp \/ Resume \/ WriteOut
  PROVE  Current'
<1>1. UNCHANGED <<documents, editor, disk, changed, late>>
  BY DEF TakeUp, Resume, WriteOut, editorVars
<1>2. Pending' = Pending
  <2>1. CASE TakeUp
    BY <2>1, TakeUpPending
  <2>2. CASE Resume \/ WriteOut
    <3>1. UNCHANGED <<inbox, handlers, started>>
      BY <2>2 DEF Resume, WriteOut
    <3> QED  BY <3>1 DEF Pending, Arriving
  <2> QED  BY <2>1, <2>2
<1>3. \A d \in Docs : Keeps(d)
  BY <1>2 DEF Keeps
<1> QED  BY <1>1, <1>3, WritesNothing

LEMMA NextInOrder == Inv /\ InOrder /\ Current /\ [Next]_vars => InOrder' /\ Current'
<1> SUFFICES ASSUME Inv, InOrder, Current, [Next]_vars PROVE InOrder' /\ Current'
  OBVIOUS
<1>1. CASE UNCHANGED vars
  BY <1>1, StutterInOrder
<1>2. CASE Environment
  BY <1>2, EnvironmentInOrder
<1>3. CASE TakeUp \/ Resume \/ WriteOut
  BY <1>3, TakeUpInOrder, ResumeInOrder, WriteOutInOrder, QuietStepsKeepCurrent
<1>4. CASE Finish
  BY <1>4, FinishInOrder, FinishKeepsCurrent
<1>5. CASE LogMessage \/ PublishDiagnostics \/ did_change_workspace_folders
  BY <1>5, PolledInOrder, SendsKeepCurrent
<1>6. CASE upsert_document
  BY <1>6, PolledInOrder, StoreKeepsCurrent
<1>7. CASE remove_document
  BY <1>7, PolledInOrder, RemoveKeepsCurrent
<1>8. CASE ReadChangedFile
  BY <1>8, PolledInOrder, ReadKeepsCurrent
<1> QED  BY <1>1, <1>2, <1>3, <1>4, <1>5, <1>6, <1>7, <1>8 DEF Next, Server

\* When every message is handled and every file reported, what the server analyzes of a
\* document is what the editor shows, or the file's text when no editor has it, except
\* where a late write is to blame: upsert_document after a logged open, or a file event.
THEOREM AnalyzedInTheEnd == Spec => []AnalyzedIsCurrent
<1>1. Inv /\ Current => AnalyzedIsCurrent
  <2> SUFFICES ASSUME Inv, Current, Quiet, NEW d \in Docs \ late
               PROVE  /\ editor[d] # NoText => collect_all_documents[d] = editor[d]
                      /\ editor[d] = NoText => collect_all_documents[d] \in {disk[d], NoText}
    BY DEF AnalyzedIsCurrent
  <2>1. Pending = {} /\ changed = {}
    BY DEF Pending, Quiet
  <2>2. Settled(d)
    BY <2>1 DEF Current, CurrentFor
  <2>3. editor[d] # NoText => documents[d] = editor[d]
    BY <2>2 DEF Settled
  <2>4. editor[d] = NoText => documents[d] \in {NoText, disk[d]}
    BY <2>1, <2>2 DEF Settled, Covered
  <2> QED  BY <2>3, <2>4 DEF collect_all_documents
<1>2. Inv /\ InOrder /\ Current /\ [Next]_vars => (Inv /\ InOrder /\ Current)'
  BY NextInv, NextInOrder
<1>3. Init => Inv /\ InOrder /\ Current
  BY InitInv, InitInOrder
<1> QED  BY <1>1, <1>2, <1>3, PTL DEF Spec

=============================================================================
