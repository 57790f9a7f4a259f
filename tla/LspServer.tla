------------------------------ MODULE LspServer ------------------------------
(***************************************************************************)
(* The language server's handlers (izel_lsp, Backend) and what they share: *)
(* the map of documents and the list of workspace roots.  tower-lsp (not   *)
(* under src) starts a handler per message, in order, at most Concurrency  *)
(* at a time in one task, polled in the order they can go on; a handler    *)
(* gives way only where it sends to the client and a message is already    *)
(* waiting to be written out.                                              *)
(*                                                                         *)
(* A text is a number: each edit of a document makes a new one.  What the  *)
(* front end finds in a text is determined by the text, so a publication   *)
(* carries the text it is about.                                           *)
(***************************************************************************)
EXTENDS Integers, SequencesExt, FiniteSetsExt

CONSTANTS
  Docs,         \* the documents
  Roots,        \* the workspace folders there are, as sets of documents
  Concurrency,  \* messages handled at once
  MaxEvents     \* bound: what the editor and other programs do

ASSUME ConcurrencyAssumption == Concurrency \in Nat \ {0}
ASSUME DocsAssumption == IsFiniteSet(Docs) /\ "log" \notin Docs
ASSUME EventsAssumption == MaxEvents \in Nat

VARIABLES
  editor,     \* the text the editor shows of a document, or NoText
  disk,       \* the text of its file, or NoText
  events,     \* how many events there were, which is also the newest text
  changed,    \* files the watcher has still to report
  inbox,      \* messages sent to the server and not yet taken up
  documents,  \* the server's map
  roots,      \* workspace_roots
  handlers,   \* the handlers at work, oldest first: [n, what, steps]
  turn,       \* the handler being polled, or Nobody
  ready,      \* handlers to poll, in the order they were started or woken
  parked,     \* handlers waiting for the client's channel, in order
  outbox,     \* messages to the client not yet written out
  shown,      \* the text the diagnostics the client shows are about, or NoText
  started,    \* how many messages were taken up
  newest,     \* the number of the newest message taken up about a document
  late        \* documents last written by an open that newer messages have overtaken, or
              \* from a file when newer messages or the editor had something else

editorVars == <<editor, disk, events, changed>>
clientVars == <<outbox, shown>>
vars == <<editorVars, inbox, documents, roots, handlers, turn, ready, parked, clientVars, started, newest, late>>

NoText == -1
Nobody == 0
Log    == [doc |-> "log", text |-> NoText]  \* a message that shows nothing

Texts == 0 .. MaxEvents

Step(do, doc, text) == [do |-> do, doc |-> doc, text |-> text]

-----------------------------------------------------------------------------
(* The editor, the disk, and what they report *)

Event == events < MaxEvents /\ events' = events + 1
New   == events + 1

Send(docs, what, steps) == inbox' = Append(inbox, [docs |-> docs, what |-> what, steps |-> steps])

\* did_open logs before it stores.
DidOpen(d, text)   == <<Step("log", d, text), Step("store", d, text), Step("publish", d, text)>>

\* Mutants: a change that logs first, and one that publishes before it stores.
DidChangeLogged(d, text)  == <<Step("log", d, text), Step("store", d, text), Step("publish", d, text)>>
DidChangeChecked(d, text) == <<Step("publish", d, text), Step("store", d, text)>>
DidChange(d, text) == <<Step("store", d, text), Step("publish", d, text)>>

DidClose(d) == <<Step("remove", d, NoText), Step("publish", d, NoText)>>

\* did_change_watched_files: whether a file is gone is what the message says, what was
\* written is read when the message is handled.
DidChangeWatchedFiles(S) ==
  [i \in 1 .. Cardinality(S) |->
     LET d == SetToSeq(S)[i] IN Step(IF disk[d] = NoText THEN "remove" ELSE "read", d, NoText)]

EditorOpens(d) ==
  /\ Event /\ editor[d] = NoText /\ disk[d] /= NoText
  /\ editor' = [editor EXCEPT ![d] = disk[d]]
  /\ Send({d}, "open", DidOpen(d, disk[d]))
  /\ UNCHANGED <<disk, changed>>

EditorChanges(d) ==
  /\ Event /\ editor[d] /= NoText
  /\ editor' = [editor EXCEPT ![d] = New]
  /\ Send({d}, "change", DidChange(d, New))
  /\ UNCHANGED <<disk, changed>>

EditorCloses(d) ==
  /\ Event /\ editor[d] /= NoText
  /\ editor' = [editor EXCEPT ![d] = NoText]
  /\ Send({d}, "close", DidClose(d))
  /\ UNCHANGED <<disk, changed>>

EditorSaves(d) ==
  /\ Event /\ editor[d] /= NoText /\ disk[d] /= editor[d]
  /\ disk' = [disk EXCEPT ![d] = editor[d]]
  /\ changed' = changed \cup {d}
  /\ UNCHANGED <<editor, inbox>>

\* Another program writes the file, or removes it.
DiskChanges(d) ==
  /\ Event
  /\ \E text \in {New, NoText} : disk[d] /= text /\ disk' = [disk EXCEPT ![d] = text]
  /\ changed' = changed \cup {d}
  /\ UNCHANGED <<editor, inbox>>

WatcherReports ==
  /\ \E S \in SUBSET changed \ {{}} :
       /\ Send(S, "files", DidChangeWatchedFiles(S))
       /\ changed' = changed \ S
  /\ UNCHANGED <<editor, disk, events>>

FoldersChange ==
  /\ Event
  /\ \E root \in Roots, do \in {"addRoot", "removeRoot"} :
       Send({}, "folders", <<[do |-> do, root |-> root]>>)
  /\ UNCHANGED <<editor, disk, changed>>

Environment ==
  /\ \/ \E d \in Docs : EditorOpens(d) \/ EditorChanges(d) \/ EditorCloses(d) \/ EditorSaves(d) \/ DiskChanges(d)
     \/ WatcherReports \/ FoldersChange
  /\ UNCHANGED <<documents, roots, handlers, turn, ready, parked, clientVars, started, newest, late>>

-----------------------------------------------------------------------------
(* tower-lsp: one task *)

TakeUp ==
  /\ inbox /= <<>> /\ Len(handlers) < Concurrency
  /\ turn = Nobody
  /\ LET message == Head(inbox)
     IN /\ handlers' = Append(handlers, [n |-> started + 1, what |-> message.what, steps |-> message.steps])
        /\ newest' = [d \in Docs |-> IF d \in message.docs THEN started + 1 ELSE newest[d]]
  /\ started' = started + 1
  /\ ready' = Append(ready, started + 1)
  /\ inbox' = Tail(inbox)
  /\ UNCHANGED <<editorVars, documents, roots, turn, parked, clientVars, late>>

Resume ==
  /\ turn = Nobody /\ ready /= <<>>
  /\ turn' = Head(ready) /\ ready' = Tail(ready)
  /\ UNCHANGED <<editorVars, inbox, documents, roots, handlers, parked, clientVars, started, newest, late>>

\* Mutant: nobody is woken.
WriteOutSilently ==
  /\ outbox /= <<>>
  /\ outbox' = Tail(outbox)
  /\ shown' = [d \in Docs |-> IF d = Head(outbox).doc THEN Head(outbox).text ELSE shown[d]]
  /\ UNCHANGED <<editorVars, inbox, documents, roots, handlers, turn, ready, parked, started, newest, late>>

\* A message is written out, and the longest waiting sender goes on.
WriteOut ==
  /\ outbox /= <<>>
  /\ outbox' = Tail(outbox)
  /\ shown' = [d \in Docs |-> IF d = Head(outbox).doc THEN Head(outbox).text ELSE shown[d]]
  /\ IF parked = <<>> THEN UNCHANGED <<parked, ready>>
     ELSE parked' = Tail(parked) /\ ready' = Append(ready, Head(parked))
  /\ UNCHANGED <<editorVars, inbox, documents, roots, handlers, turn, started, newest, late>>

-----------------------------------------------------------------------------
(* Steps of the handler being polled *)

Polled == CHOOSE i \in DOMAIN handlers : handlers[i].n = turn
At(do) == turn /= Nobody /\ handlers[Polled].steps /= <<>> /\ Head(handlers[Polled].steps).do = do
This   == Head(handlers[Polled].steps)
Continue(steps) == handlers' = [handlers EXCEPT ![Polled].steps = steps \o Tail(@)]

\* The message is enqueued in any case; the sender waits if it was not the only one.
SendToClient(message) ==
  /\ outbox' = Append(outbox, message)
  /\ IF outbox = <<>> THEN UNCHANGED <<turn, parked>>
     ELSE turn' = Nobody /\ parked' = Append(parked, turn)

LogMessage ==
  /\ At("log")
  /\ SendToClient(Log)
  /\ Continue(<<>>)
  /\ UNCHANGED <<editorVars, inbox, documents, roots, ready, shown, started, newest, late>>

\* validate_document: diagnostics of the text just stored, or none for a closed document.
PublishDiagnostics ==
  /\ At("publish")
  /\ SendToClient([doc |-> This.doc, text |-> This.text])
  /\ Continue(<<>>)
  /\ UNCHANGED <<editorVars, inbox, documents, roots, ready, shown, started, newest, late>>

Write(text, isLate) ==
  /\ documents' = [documents EXCEPT ![This.doc] = text]
  /\ late' = IF isLate THEN late \cup {This.doc} ELSE late \ {This.doc}

Overtaken == newest[This.doc] /= turn

upsert_document ==
  /\ At("store")
  /\ Write(This.text, Overtaken /\ handlers[Polled].what = "open")
  /\ Continue(<<>>)
  /\ UNCHANGED <<editorVars, inbox, roots, turn, ready, parked, clientVars, started, newest>>

remove_document ==
  /\ At("remove")
  /\ Write(NoText, handlers[Polled].what = "files" /\ (Overtaken \/ editor[This.doc] /= NoText))
  /\ Continue(<<>>)
  /\ UNCHANGED <<editorVars, inbox, roots, turn, ready, parked, clientVars, started, newest>>

\* The file replaces what the editor may have sent; one that is gone is passed over.
ReadChangedFile ==
  /\ At("read")
  /\ LET text == disk[This.doc]
     IN IF text = NoText THEN Continue(<<>>) /\ UNCHANGED <<documents, late>>
        ELSE /\ Write(text, Overtaken \/ editor[This.doc] \notin {NoText, text})
             /\ Continue(<<Step("publish", This.doc, text)>>)
  /\ UNCHANGED <<editorVars, inbox, roots, turn, ready, parked, clientVars, started, newest>>

did_change_workspace_folders ==
  /\ At("addRoot") \/ At("removeRoot")
  /\ roots' = IF This.do = "addRoot" THEN roots \cup {This.root} ELSE roots \ {This.root}
  /\ Continue(<<>>)
  /\ UNCHANGED <<editorVars, inbox, documents, turn, ready, parked, clientVars, started, newest, late>>

Finish ==
  /\ turn /= Nobody /\ handlers[Polled].steps = <<>>
  /\ handlers' = RemoveAt(handlers, Polled)
  /\ turn' = Nobody
  /\ UNCHANGED <<editorVars, inbox, documents, roots, ready, parked, clientVars, started, newest, late>>

-----------------------------------------------------------------------------
\* initialize has set the roots; the first files exist.
Init ==
  /\ editor = [d \in Docs |-> NoText]
  /\ disk = [d \in Docs |-> 0]
  /\ events = 0 /\ changed = {}
  /\ inbox = <<>> /\ started = 0 /\ newest = [d \in Docs |-> 0] /\ late = {}
  /\ documents = [d \in Docs |-> NoText]
  /\ roots \in SUBSET Roots
  /\ handlers = <<>> /\ turn = Nobody /\ ready = <<>> /\ parked = <<>>
  /\ outbox = <<>> /\ shown = [d \in Docs |-> NoText]

Server ==
  \/ TakeUp \/ Resume \/ Finish
  \/ LogMessage \/ PublishDiagnostics \/ upsert_document \/ remove_document
  \/ ReadChangedFile \/ did_change_workspace_folders

Next == Environment \/ Server \/ WriteOut

\* The task is polled when it can go on, and what is sent is written out.
Spec == Init /\ [][Next]_vars /\ WF_vars(Server) /\ WF_vars(WriteOut) /\ WF_vars(WatcherReports /\ Environment)

-----------------------------------------------------------------------------
\* collect_all_documents: what is in the map, and from the disk what the roots hold.
collect_all_documents ==
  [d \in Docs |-> IF documents[d] /= NoText THEN documents[d]
                  ELSE IF \E root \in roots : d \in root THEN disk[d] ELSE NoText]

Quiet == inbox = <<>> /\ handlers = <<>> /\ outbox = <<>> /\ changed = {}

\* When everything is handled, what is analyzed of a document is the editor's text, or
\* the file's when no editor has it, except where a late write is to blame: an open that
\* logged while newer messages about the document went by, or a file event for a document
\* the editor has.  Changes, closes and file events for other documents are never applied
\* in the wrong order, although handlers run concurrently and wait for the client.
AnalyzedIsCurrent ==
  Quiet => \A d \in Docs \ late :
    /\ editor[d] /= NoText => collect_all_documents[d] = editor[d]
    /\ editor[d] = NoText => collect_all_documents[d] \in {disk[d], NoText}

\* When everything is handled, the diagnostics the client shows of a document in the map
\* are about the text in the map, late or not: storing a text and enqueuing what was found
\* in it is one step of the task, and the channel keeps the order.
ShownIsAnalyzed ==
  Quiet => \A d \in Docs : documents[d] /= NoText => shown[d] = documents[d]

\* Every message is handled and every publication shown, however many handlers wait.
EverythingIsHandled == <>[]Quiet

\* What the documents say of file events: they keep the documents that are not open.  A
\* file event does not take away the text of an open document that the server has.
FileEventsLeaveOpenTexts ==
  [][\A d \in Docs :
       turn /= Nobody /\ handlers[Polled].what = "files" /\ editor[d] /= NoText /\ documents[d] = editor[d]
         => documents'[d] = documents[d]]_vars

=============================================================================
