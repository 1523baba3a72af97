--------------------------- MODULE LanguageServer ---------------------------
(***************************************************************************)
(* The language server (message-format-lsp: server.rs, document.rs,           *)
(* analysis.rs) and the editor it serves.  The editor sends notifications and  *)
(* requests while earlier ones wait; the server takes them one at a time.      *)
(*                                                                         *)
(* A content is the text of a document, and the entries the TOML or JSON       *)
(* reader finds in it, None if it finds fault with it.  Where a problem is, and *)
(* the version the editor gives a document, which nothing reads, are left out. *)
(***************************************************************************)
EXTENDS Scanner

CONSTANTS
    Uris,
    KindOf,        \* "message" or "resource", by the extension of the uri
    Contents,      \* by kind, what a document of the kind may contain
    Places,        \* the places asked about
    Manifests,     \* what manifest.toml may say: functions, None if not valid
    MaxSent,       \* bound: the messages the editor sends
    None

ASSUME ContentsAssumption ==
    /\ None \notin Uris
    /\ KindOf \in [Uris -> DOMAIN Contents]
    /\ \A kind \in DOMAIN Contents : None \notin Contents[kind]

VARIABLES
    manifest,      \* the functions it knows of, None without a manifest
    documents,     \* its DocumentStore: of the open ones, [content, analysis]
    published,     \* what the problems it last published for a document were found in,
                   \* NoSubject where it published none, None before
    answers,       \* its answers, by the number of the request
    running,
    edited,        \* the editor: what its documents contain, None if closed
    sent,          \* what it has sent, with what the document then contained
    taken          \* how much of that the server has received

vars == <<manifest, documents, published, answers, running, edited, sent, taken>>

-----------------------------------------------------------------------------
(* Analysis. *)

\* The functions and the markup a message calls.
Functions(text) ==
    LET expressions == ExpressionsOf(Tree(text))
    IN {e.function.name : e \in {x \in expressions : HasFunction(x)}}
         \union {e.name : e \in {x \in expressions : x.node = "Markup"}}

\* compile_with_manifest: the first error of a message, None if it has none.
Problem(text, known) ==
    CASE ~Accepted(text)            -> "syntax"
      [] Accepted(text) /\ Functions(text) \ known # {} -> "unknown function"
      [] OTHER                      -> None

Problems(of, text, known) ==
    {[of |-> of, problem |-> p] : p \in {Problem(text, known)} \ {None}}

\* analyze_single: an empty manifest takes the place of none.
SingleProblems(known, text) == Problems(None, text, IF known = None THEN {} ELSE known)

\* compile_resource: every message has its own, and without a manifest functions
\* are not looked at.
ResourceProblems(known, entries) ==
    UNION {Problems(entries[n].id, entries[n].text,
                    IF known = None THEN Functions(entries[n].text) ELSE known) :
             n \in DOMAIN entries}

\* analyze: the problems of a document, told by what they are found in.
ProblemsIn(subject) ==
    CASE subject.kind = "message"       -> SingleProblems(subject.known, subject.content.text)
      [] subject.content.entries # None -> ResourceProblems(subject.known, subject.content.entries)
      [] OTHER                          -> {[of |-> None, problem |-> "container"]}

Subject(uri, content) == [known |-> manifest, kind |-> KindOf[uri], content |-> content]

\* Of no document: a list without problems.
NoSubject == [known |-> None, kind |-> None, content |-> None]

AnalysisOf(uri, content) ==
    LET bytes == Encoded(content.text)
    IN [problems     |-> Subject(uri, content),
        declarations |-> IF KindOf[uri] = "message" THEN DeclarationsIn(bytes) ELSE <<>>,
        references   |-> VarReferences(bytes),
        symbols      |-> IF KindOf[uri] = "message" \/ content.entries = None THEN <<>>
                         ELSE [n \in DOMAIN content.entries |-> content.entries[n].id],
        kind         |-> KindOf[uri]]

\* document_symbols
DocumentSymbols(analysis) ==
    IF analysis.kind = "resource" THEN analysis.symbols
    ELSE [n \in DOMAIN analysis.declarations |-> analysis.declarations[n].name]

-----------------------------------------------------------------------------
(* The editor.  A message has every field; what it has no use for is None. *)

Send(method, uri, content, place, about) ==
    /\ Len(sent) < MaxSent
    /\ sent' = Append(sent, [method |-> method, uri |-> uri, content |-> content,
                             place |-> place, about |-> about])
    /\ UNCHANGED <<manifest, documents, published, answers, running, taken>>

OpenDocument(uri, content) ==
    /\ edited' = [edited EXCEPT ![uri] = content]
    /\ Send("didOpen", uri, content, None, content)

\* Of a document that is not open, by an editor that has lost track of it, too.
ChangeDocument(uri, content) ==
    /\ edited' = [edited EXCEPT ![uri] = IF @ = None THEN None ELSE content]
    /\ Send("didChange", uri, content, None, edited'[uri])

\* The editor was asked to include the text, but need not.
SaveDocument(uri, included) ==
    /\ UNCHANGED edited
    /\ Send("didSave", uri, IF included THEN edited[uri] ELSE None, None, edited[uri])

CloseDocument(uri) ==
    /\ edited' = [edited EXCEPT ![uri] = None]
    /\ Send("didClose", uri, None, None, None)

Ask(method, uri, place) ==
    /\ UNCHANGED edited
    /\ Send(method, uri, None, place, edited[uri])

\* A request, a notification or a response the server has no use for.
SayOther == UNCHANGED edited /\ Send("other", None, None, None, None)
AskForShutdown == UNCHANGED edited /\ Send("shutdown", None, None, None, None)

PlacedMethods == {"definition", "references"}
Methods == PlacedMethods \union {"documentSymbol"}

Edit ==
    \/ \E uri \in Uris : \E content \in Contents[KindOf[uri]] :
          OpenDocument(uri, content) \/ ChangeDocument(uri, content)
    \/ \E uri \in Uris : CloseDocument(uri)
    \/ \E uri \in Uris, included \in BOOLEAN : SaveDocument(uri, included)
    \/ \E uri \in Uris, method \in PlacedMethods, place \in Places : Ask(method, uri, place)
    \/ \E uri \in Uris : Ask("documentSymbol", uri, None)
    \/ SayOther
    \/ AskForShutdown

-----------------------------------------------------------------------------
(* The server. *)

Received == sent[taken + 1]

\* recv returns: there is a message, and the loop goes round.
Receive ==
    /\ running
    /\ taken < Len(sent)
    /\ taken' = taken + 1

\* A message of this method.
Take(method) ==
    /\ Receive
    /\ Received.method = method
    /\ UNCHANGED <<manifest, edited, sent>>

OpenUris == DOMAIN documents

\* DocumentStore::open, change and close.
Fresh(content) == [content |-> content, analysis |-> None]
Opened(uri, content) ==
    [d \in OpenUris \union {uri} |-> IF d = uri THEN Fresh(content) ELSE documents[d]]
Changed(uri, content) ==
    IF uri \in OpenUris THEN [documents EXCEPT ![uri] = Fresh(content)] ELSE documents
Closed(uri) == [d \in OpenUris \ {uri} |-> documents[d]]

\* reanalyze_and_publish, of a document in the store as it now is.
ReanalyzeAndPublish(store, uri) ==
    IF uri \notin DOMAIN store THEN documents' = store /\ UNCHANGED published
    ELSE LET analysis == AnalysisOf(uri, store[uri].content)
         IN /\ documents' = [store EXCEPT ![uri].analysis = analysis]
            /\ published' = [published EXCEPT ![uri] = analysis.problems]

OnDidOpen ==
    /\ Take("didOpen")
    /\ ReanalyzeAndPublish(Opened(Received.uri, Received.content), Received.uri)
    /\ UNCHANGED <<answers, running>>

OnDidChange ==
    /\ Take("didChange")
    /\ ReanalyzeAndPublish(Changed(Received.uri, Received.content), Received.uri)
    /\ UNCHANGED <<answers, running>>

\* a mutant: what the included text says is not looked at until the next change.
OnDidSaveQuietly ==
    /\ Take("didSave")
    /\ documents' = IF Received.content = None THEN documents
                    ELSE Changed(Received.uri, Received.content)
    /\ UNCHANGED <<published, answers, running>>

OnDidSave ==
    /\ Take("didSave")
    /\ ReanalyzeAndPublish(IF Received.content = None THEN documents
                           ELSE Changed(Received.uri, Received.content),
                           Received.uri)
    /\ UNCHANGED <<answers, running>>

\* a mutant: the problems of a closed document stay.
OnDidCloseOnly ==
    /\ Take("didClose")
    /\ documents' = Closed(Received.uri)
    /\ UNCHANGED <<published, answers, running>>

OnDidClose ==
    /\ Take("didClose")
    /\ published' = [published EXCEPT ![Received.uri] = NoSubject]
    /\ documents' = Closed(Received.uri)
    /\ UNCHANGED <<answers, running>>

Answer(answer) ==
    /\ answers' = [answers EXCEPT ![taken + 1] = answer]
    /\ UNCHANGED <<documents, published, running>>

\* What a request about a place is answered: nothing, if the document is not open.
Navigated(Navigate(_, _, _)) ==
    IF Received.uri \notin OpenUris THEN {}
    ELSE LET doc == documents[Received.uri]
         IN Navigate(Encoded(doc.content.text), doc.analysis, Received.place)

HandleDefinition == Take("definition") /\ Answer(Navigated(GotoDefinition))
HandleReferences == Take("references") /\ Answer(Navigated(FindReferences))

\* a mutant: no answer when the document is not open.
HandleDocumentSymbolIfOpen ==
    /\ Take("documentSymbol")
    /\ IF Received.uri \notin OpenUris THEN UNCHANGED <<documents, published, answers, running>>
       ELSE Answer(DocumentSymbols(documents[Received.uri].analysis))

HandleDocumentSymbol ==
    /\ Take("documentSymbol")
    /\ Answer(IF Received.uri \notin OpenUris THEN <<>>
              ELSE DocumentSymbols(documents[Received.uri].analysis))

\* Unknown methods and malformed parameters are not answered.
Ignore == Take("other") /\ UNCHANGED <<documents, published, answers, running>>

Shutdown ==
    /\ Take("shutdown")
    /\ running' = FALSE
    /\ UNCHANGED <<documents, published, answers>>

Serve ==
    \/ OnDidOpen \/ OnDidChange \/ OnDidSave \/ OnDidClose
    \/ HandleDefinition \/ HandleReferences \/ HandleDocumentSymbol
    \/ Ignore \/ Shutdown

Init ==
    /\ manifest \in Manifests \union {None}
    /\ documents = <<>>
    /\ published = [uri \in Uris |-> None]
    /\ answers = [n \in 1..MaxSent |-> None]
    /\ running = TRUE
    /\ edited = [uri \in Uris |-> None]
    /\ sent = <<>>
    /\ taken = 0

Next == Edit \/ Serve

\* The loop goes on receiving; every message received is served in the same step.
Spec == Init /\ [][Next]_vars /\ WF_taken(Receive)
-----------------------------------------------------------------------------
\* DocumentState.analysis: whatever order contents arrive in, a request finds
\* what was found in the text that is in the store.
AnalysisIsOfTheText ==
    \A uri \in OpenUris : documents[uri].analysis = AnalysisOf(uri, documents[uri].content)

\* handle_request: a request of a method the server offers is answered, known
\* document or not, unless the editor has asked it to shut down before.
RequestsAreAnswered ==
    \A n \in 1..MaxSent :
        /\ Len(sent) >= n
        /\ sent[n].method \in Methods
        /\ \A k \in 1..n : sent[k].method # "shutdown"
        ~> answers[n] # None

-----------------------------------------------------------------------------
(* What rests on the parser is tabulated: it depends on the texts alone. *)

MessageTexts == {content.text : content \in Contents["message"]}
IsPlainText  == [text \in MessageTexts |-> IsPlain(text)]
DeclaredIn   == [text \in MessageTexts |-> DeclaredRanges(text)]
NamesIn      == [text \in MessageTexts |-> DeclaredNames(text)]
NamedBy      == [text \in MessageTexts, place \in Places |-> NameAt(text, place)]
UsedIn       == [text \in MessageTexts |-> IF IsPlain(text) THEN UsedRanges(text) ELSE {}]

Subjects ==
    UNION {[known : Manifests \union {None}, kind : {kind}, content : Contents[kind]] :
             kind \in DOMAIN Contents}
ProblemsFound == [subject \in Subjects |-> ProblemsIn(subject)]

\* reanalyze_and_publish, on_did_close: once the server has caught up, the editor
\* shows the problems of what its documents contain, and none of a closed one.
ShowsPresentProblems ==
    running /\ taken = Len(sent) =>
        \A uri \in Uris :
            IF edited[uri] = None THEN published[uri] \in {None, NoSubject}
            ELSE /\ published[uri] \in Subjects
                 /\ ProblemsFound[published[uri]] = ProblemsFound[Subject(uri, edited[uri])]
PublishedIsForTheText == ShowsPresentProblems /\ [][ShowsPresentProblems']_vars

\* Requests of a message answered, with the text it contained when they were sent.
Answered(method) ==
    {n \in 1..taken : /\ sent[n].method = method
                      /\ sent[n].about # None
                      /\ KindOf[sent[n].uri] = "message"
                      /\ IsPlainText[sent[n].about.text]}

\* goto_definition and document_symbols, from lines and bytes, find what the
\* parser reads as the declaration of the variable that is there.
FindsDeclarations ==
    /\ \A n \in Answered("definition") :
         LET text == sent[n].about.text
         IN answers[n] = {d.range : d \in {e \in DeclaredIn[text] :
                             e.name = NamedBy[text, sent[n].place]}}
    /\ \A n \in Answered("documentSymbol") : answers[n] = NamesIn[sent[n].about.text]
DefinitionsAreDeclared == FindsDeclarations /\ [][FindsDeclarations']_vars

\* find_references: the places are those where writing another name renames the
\* variable in the message, all of them and no others.
FindsUses ==
    \A n \in Answered("references") :
        LET text == sent[n].about.text
        IN answers[n] = UNION {used.ranges : used \in {u \in UsedIn[text] :
                                  u.name = NamedBy[text, sent[n].place]}}
ReferencesAreTheUses == FindsUses /\ [][FindsUses']_vars
=============================================================================
