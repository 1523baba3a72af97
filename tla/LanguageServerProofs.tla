------------------------ MODULE LanguageServerProofs ------------------------
(***************************************************************************)
(* What the server keeps and shows of a document, for any number of messages  *)
(* under way: the proofs for LanguageServer.                                  *)
(*                                                                         *)
(* What the editor's documents contained after each of its messages is a       *)
(* history that is nowhere in the state.  The server, some messages behind,    *)
(* repeats it: what its store contains is what the editor's documents          *)
(* contained when it sent the last message taken.                              *)
(***************************************************************************)
EXTENDS LanguageServer, TLAPS

\* What the editor's documents may contain.
MayContain == {None} \union UNION {Contents[kind] : kind \in DOMAIN Contents}

Sayable == Methods \union {"didOpen", "didChange", "didSave", "didClose", "other", "shutdown"}

\* What they contain after a message, if before did before it.
After(before, message) ==
    [uri \in Uris |->
        IF uri # message.uri THEN before[uri]
        ELSE CASE message.method = "didOpen"   -> message.content
               [] message.method = "didChange" ->
                      IF before[uri] = None THEN None ELSE message.content
               [] message.method = "didClose"  -> None
               [] OTHER                        -> before[uri]]

\* What the editor may say then: of one of its documents, what it may contain, and
\* when it is saved, what it does contain.
MaySend(before, message) ==
    /\ message.method \in {"didOpen", "didChange", "didSave"} => message.uri \in Uris
    /\ message.method \in {"didOpen", "didChange"} =>
          message.content \in Contents[KindOf[message.uri]]
    /\ message.method = "didSave" => message.content \in {None, before[message.uri]}

\* The texts of the documents in the store.
Stored ==
    [uri \in Uris |-> IF uri \in OpenUris THEN documents[uri].content ELSE None]

\* A history of the editor's documents, number by number of its messages.
History(h) ==
    /\ h[0] = [uri \in Uris |-> None]
    /\ h[Len(sent)] = edited
    /\ h[taken] = Stored
    /\ \A n \in 1..Len(sent) : /\ h[n] = After(h[n - 1], sent[n])
                               /\ MaySend(h[n - 1], sent[n])

EditorInv ==
    /\ sent \in Seq([method : Sayable, uri : Uris \union {None}, content : MayContain,
                     place : Places \union {None}, about : MayContain])
    /\ taken \in 0..Len(sent)
    /\ edited \in [Uris -> MayContain]
    /\ \A uri \in Uris : edited[uri] \in Contents[KindOf[uri]] \union {None}

\* Every document in the store has been analysed, as it is.
StoreInv ==
    /\ manifest \in Manifests \union {None}
    /\ documents = [uri \in OpenUris |-> [content  |-> documents[uri].content,
                                          analysis |-> AnalysisOf(uri, documents[uri].content)]]
    /\ OpenUris \subseteq Uris
    /\ \A uri \in OpenUris : documents[uri].content # None

ShownInv ==
    /\ DOMAIN published = Uris
    /\ \A uri \in Uris : IF uri \in OpenUris
                         THEN published[uri] = Subject(uri, documents[uri].content)
                         ELSE published[uri] \in {None, NoSubject}

ServerInv == EditorInv /\ StoreInv /\ ShownInv /\ \E h : History(h)

-----------------------------------------------------------------------------
(* What follows of it. *)

LEMMA Upheld == ASSUME ServerInv PROVE AnalysisIsOfTheText /\ ShowsPresentProblems
<1>1. AnalysisIsOfTheText
  BY DEF ServerInv, StoreInv, AnalysisIsOfTheText
<1>2. ASSUME taken = Len(sent), NEW uri \in Uris
      PROVE  IF edited[uri] = None THEN published[uri] \in {None, NoSubject}
             ELSE /\ published[uri] \in Subjects
                  /\ ProblemsFound[published[uri]] = ProblemsFound[Subject(uri, edited[uri])]
  <2>1. edited = Stored
    BY <1>2 DEF ServerInv, History
  <2>2. CASE uri \in OpenUris
    <3>1. edited[uri] = documents[uri].content /\ edited[uri] # None
      BY <2>1, <2>2 DEF Stored, ServerInv, StoreInv
    <3>2. published[uri] = Subject(uri, edited[uri])
      BY <2>2, <3>1 DEF ServerInv, ShownInv
    <3>3. edited[uri] \in Contents[KindOf[uri]] /\ KindOf[uri] \in DOMAIN Contents
      BY <3>1, ContentsAssumption DEF ServerInv, EditorInv
    <3>4. Subject(uri, edited[uri])
             \in [known : Manifests \union {None}, kind : {KindOf[uri]},
                  content : Contents[KindOf[uri]]]
      BY <3>3 DEF Subject, ServerInv, StoreInv
    <3>5. Subject(uri, edited[uri]) \in Subjects
      BY <3>3, <3>4 DEF Subjects
    <3> QED BY <3>1, <3>2, <3>5
  <2>3. CASE uri \notin OpenUris
    BY <2>1, <2>3 DEF Stored, ServerInv, ShownInv
  <2> QED BY <2>2, <2>3
<1>3. ShowsPresentProblems
  BY <1>2 DEF ShowsPresentProblems
<1> QED BY <1>1, <1>3

LEMMA ServerInit == Init => ServerInv
<1> SUFFICES ASSUME Init PROVE ServerInv
  OBVIOUS
<1>1. EditorInv
  BY DEF Init, EditorInv, MayContain
<1>2. OpenUris = {} /\ documents = [uri \in {} |-> None]
  BY DEF Init, OpenUris
<1>3. StoreInv
  BY <1>2 DEF Init, StoreInv
<1>4. ShownInv
  BY <1>2 DEF Init, ShownInv
<1> DEFINE h == [n \in {0} |-> [uri \in Uris |-> None]]
<1>5. Stored = [uri \in Uris |-> None]
  BY <1>2 DEF Stored
<1>6. h[0] = [uri \in Uris |-> None]
  OBVIOUS
<1> HIDE DEF h
<1>7. History(h)
  BY <1>5, <1>6 DEF Init, History
<1> QED BY <1>1, <1>3, <1>4, <1>7 DEF ServerInv

-----------------------------------------------------------------------------
(* The editor goes on: its history gets longer. *)

LEMMA Continued ==
    ASSUME ServerInv, NEW method, NEW uri, NEW content, NEW place, NEW about,
           Send(method, uri, content, place, about),
           EditorInv',
           NEW message,
           message = [method |-> method, uri |-> uri, content |-> content,
                      place |-> place, about |-> about],
           edited' = After(edited, message),
           MaySend(edited, message)
    PROVE  ServerInv'
<1>1. UNCHANGED <<manifest, documents, published, answers, running, taken>>
      /\ sent' = Append(sent, message)
  BY DEF Send
<1>2. StoreInv' /\ ShownInv' /\ Stored' = Stored
  BY <1>1 DEF ServerInv, StoreInv, ShownInv, Stored, OpenUris, Subject, AnalysisOf
<1>3. PICK h : History(h)
  BY DEF ServerInv
<1>4. Len(sent) \in Nat /\ Len(sent') = Len(sent) + 1 /\ taken \in 0..Len(sent)
      /\ sent'[Len(sent) + 1] = message /\ \A n \in 1..Len(sent) : sent'[n] = sent[n]
  BY <1>1 DEF ServerInv, EditorInv
<1>5. PICK g : g = [n \in 0..Len(sent) + 1 |-> IF n <= Len(sent) THEN h[n] ELSE edited']
  OBVIOUS
<1>6. \A n \in 0..Len(sent) : g[n] = h[n]
  BY <1>4, <1>5
<1>7. g[Len(sent) + 1] = edited'
  BY <1>4, <1>5
<1>8. g[0] = [uri_ \in Uris |-> None] /\ g[Len(sent')] = edited' /\ g[taken'] = Stored'
  BY <1>1, <1>2, <1>3, <1>4, <1>6, <1>7 DEF History
<1>9. ASSUME NEW n \in 1..Len(sent')
      PROVE  g[n] = After(g[n - 1], sent'[n]) /\ MaySend(g[n - 1], sent'[n])
  <2>1. CASE n = Len(sent) + 1
    <3>1. g[n - 1] = edited
      BY <1>3, <1>4, <1>6, <2>1 DEF History
    <3> QED BY <1>4, <1>7, <2>1, <3>1
  <2>2. CASE n \in 1..Len(sent)
    <3>1. n - 1 \in 0..Len(sent) /\ n \in 0..Len(sent)
      BY <1>4, <2>2
    <3> QED BY <1>3, <1>4, <1>6, <2>2, <3>1 DEF History
  <2> QED BY <1>4, <2>1, <2>2
<1>10. History(g)'
  BY <1>8, <1>9 DEF History, After, MaySend
<1> QED BY <1>2, <1>10 DEF ServerInv

\* One message more leaves the editor's part typed.
LEMMA Said ==
    ASSUME EditorInv, NEW method \in Sayable, NEW uri \in Uris \union {None},
           NEW content \in MayContain, NEW place \in Places \union {None},
           NEW about \in MayContain, Send(method, uri, content, place, about),
           edited' \in [Uris -> MayContain],
           \A u \in Uris : edited'[u] \in Contents[KindOf[u]] \union {None}
    PROVE  EditorInv'
<1>1. [method |-> method, uri |-> uri, content |-> content, place |-> place, about |-> about]
         \in [method : Sayable, uri : Uris \union {None}, content : MayContain,
              place : Places \union {None}, about : MayContain]
  OBVIOUS
<1>2. sent' \in Seq([method : Sayable, uri : Uris \union {None}, content : MayContain,
                     place : Places \union {None}, about : MayContain])
      /\ Len(sent') = Len(sent) + 1 /\ taken' = taken
  BY <1>1 DEF Send, EditorInv
<1> QED BY <1>2 DEF EditorInv

\* A message that leaves the documents alone.
LEMMA SaidOnly ==
    ASSUME ServerInv, NEW method \in Sayable, NEW uri \in Uris \union {None},
           NEW content \in MayContain, NEW place \in Places \union {None},
           NEW about \in MayContain, Send(method, uri, content, place, about),
           UNCHANGED edited, method \notin {"didOpen", "didChange", "didClose"},
           method = "didSave" => uri \in Uris /\ content \in {None, edited[uri]}
    PROVE  ServerInv'
<1>1. PICK message : message = [method |-> method, uri |-> uri, content |-> content,
                                place |-> place, about |-> about]
  OBVIOUS
<1>2. EditorInv'
  BY Said DEF ServerInv, EditorInv
<1>3. edited' = After(edited, message)
  BY <1>1 DEF After, ServerInv, EditorInv
<1>4. MaySend(edited, message)
  BY <1>1 DEF MaySend
<1> QED BY <1>1, <1>2, <1>3, <1>4, Continued

LEMMA Texts ==
    ASSUME NEW uri \in Uris, NEW content \in Contents[KindOf[uri]]
    PROVE  content \in MayContain /\ content # None
BY ContentsAssumption DEF MayContain

LEMMA ServerEdit == ServerInv /\ Edit => ServerInv'
<1> SUFFICES ASSUME ServerInv, Edit PROVE ServerInv'
  OBVIOUS
<1>1. EditorInv /\ None \in MayContain /\ \A u \in Uris : edited[u] \in MayContain
      /\ {"didOpen", "didChange", "didSave", "didClose", "other", "shutdown"} \subseteq Sayable
  BY DEF ServerInv, EditorInv, MayContain, Sayable
<1>2. ASSUME NEW uri \in Uris, NEW content \in Contents[KindOf[uri]],
             OpenDocument(uri, content)
      PROVE  ServerInv'
  <2>1. PICK message : message = [method |-> "didOpen", uri |-> uri, content |-> content,
                                  place |-> None, about |-> content]
    OBVIOUS
  <2>2. content \in MayContain
    BY Texts
  <2>3. edited' \in [Uris -> MayContain]
        /\ \A u \in Uris : edited'[u] \in Contents[KindOf[u]] \union {None}
    BY <1>1, <1>2, <2>2 DEF OpenDocument, EditorInv
  <2>4. Send("didOpen", uri, content, None, content)
    BY <1>2 DEF OpenDocument
  <2>5. EditorInv'
    BY <1>1, <2>2, <2>3, <2>4, Said
  <2>6. edited' = After(edited, message) /\ MaySend(edited, message)
    BY <1>1, <1>2, <2>1 DEF OpenDocument, EditorInv, After, MaySend
  <2> QED BY <1>2, <2>1, <2>5, <2>6, Continued DEF OpenDocument
<1>3. ASSUME NEW uri \in Uris, NEW content \in Contents[KindOf[uri]],
             ChangeDocument(uri, content)
      PROVE  ServerInv'
  <2>1. PICK message : message = [method |-> "didChange", uri |-> uri, content |-> content,
                                  place |-> None, about |-> edited'[uri]]
    OBVIOUS
  <2>2. content \in MayContain
    BY Texts
  <2>3. edited' = [edited EXCEPT ![uri] = IF @ = None THEN None ELSE content]
    BY <1>3 DEF ChangeDocument
  <2>4. edited'[uri] \in MayContain /\ edited' \in [Uris -> MayContain]
        /\ \A u \in Uris : edited'[u] \in Contents[KindOf[u]] \union {None}
    BY <1>1, <2>2, <2>3 DEF EditorInv
  <2>5. Send("didChange", uri, content, None, edited'[uri])
    BY <1>3 DEF ChangeDocument
  <2>6. EditorInv'
    BY <1>1, <2>2, <2>4, <2>5, Said
  <2>7. edited' = After(edited, message) /\ MaySend(edited, message)
    BY <1>1, <2>1, <2>3 DEF EditorInv, After, MaySend
  <2> QED BY <1>3, <2>1, <2>6, <2>7, Continued DEF ChangeDocument
<1>4. ASSUME NEW uri \in Uris, CloseDocument(uri) PROVE ServerInv'
  <2>1. PICK message : message = [method |-> "didClose", uri |-> uri, content |-> None,
                                  place |-> None, about |-> None]
    OBVIOUS
  <2>2. edited' \in [Uris -> MayContain]
        /\ \A u \in Uris : edited'[u] \in Contents[KindOf[u]] \union {None}
    BY <1>1, <1>4 DEF CloseDocument, EditorInv
  <2>3. Send("didClose", uri, None, None, None)
    BY <1>4 DEF CloseDocument
  <2>4. EditorInv'
    BY <1>1, <2>2, <2>3, Said
  <2>5. edited' = After(edited, message) /\ MaySend(edited, message)
    BY <1>1, <1>4, <2>1 DEF CloseDocument, EditorInv, After, MaySend
  <2> QED BY <1>4, <2>1, <2>4, <2>5, Continued DEF CloseDocument
<1>5. ASSUME NEW uri \in Uris, NEW included \in BOOLEAN, SaveDocument(uri, included)
      PROVE  ServerInv'
  <2>1. PICK content : content = IF included THEN edited[uri] ELSE None
    OBVIOUS
  <2>2. Send("didSave", uri, content, None, edited[uri]) /\ UNCHANGED edited
    BY <1>5, <2>1 DEF SaveDocument
  <2>3. content \in MayContain /\ content \in {None, edited[uri]}
    BY <1>1, <2>1
  <2> QED BY <1>1, <2>2, <2>3, SaidOnly
<1>6. ASSUME NEW uri \in Uris, NEW method \in Methods, NEW place \in Places \union {None},
             Ask(method, uri, place)
      PROVE  ServerInv'
  <2>1. Send(method, uri, None, place, edited[uri]) /\ UNCHANGED edited
    BY <1>6 DEF Ask
  <2>2. method \in Sayable /\ method \notin {"didOpen", "didChange", "didSave", "didClose"}
    BY DEF Sayable, Methods, PlacedMethods
  <2> QED BY <1>1, <2>1, <2>2, SaidOnly
<1>7. CASE SayOther
  <2>1. Send("other", None, None, None, None) /\ UNCHANGED edited
    BY <1>7 DEF SayOther
  <2>2. None \in Uris \union {None} /\ None \in Places \union {None}
    OBVIOUS
  <2>3. "other" \in Sayable /\ "shutdown" \in Sayable
    BY DEF Sayable
  <2> QED BY <1>1, <2>1, <2>2, <2>3, SaidOnly
<1>8. CASE AskForShutdown
  <2>1. Send("shutdown", None, None, None, None) /\ UNCHANGED edited
    BY <1>8 DEF AskForShutdown
  <2>2. None \in Uris \union {None} /\ None \in Places \union {None}
    OBVIOUS
  <2>3. "other" \in Sayable /\ "shutdown" \in Sayable
    BY DEF Sayable
  <2> QED BY <1>1, <2>1, <2>2, <2>3, SaidOnly
<1> QED BY <1>2, <1>3, <1>4, <1>5, <1>6, <1>7, <1>8 DEF Edit, Methods

-----------------------------------------------------------------------------
(* The server takes the next message: its store becomes what the history says. *)

\* Of the next message and of what the store contains, when it is taken.
LEMMA TheNext ==
    ASSUME ServerInv, Receive, UNCHANGED <<manifest, edited, sent>>,
           Stored' = After(Stored, Received), StoreInv', ShownInv'
    PROVE  ServerInv'
<1>1. taken' = taken + 1 /\ taken + 1 \in 1..Len(sent) /\ Len(sent) \in Nat
  BY DEF Receive, ServerInv, EditorInv
<1>2. EditorInv'
  BY <1>1 DEF ServerInv, EditorInv
<1>3. PICK h : History(h)
  BY DEF ServerInv
<1>4. h[taken'] = Stored'
  BY <1>1, <1>3 DEF History, Received, ServerInv, EditorInv
<1>5. History(h)'
  BY <1>3, <1>4 DEF History, After, MaySend
<1> QED BY <1>2, <1>5 DEF ServerInv

LEMMA MayTake ==
    ASSUME ServerInv, Receive
    PROVE  MaySend(Stored, Received)
<1>1. taken + 1 \in 1..Len(sent) /\ (taken + 1) - 1 = taken
  BY DEF Receive, ServerInv, EditorInv
<1>2. PICK h : History(h)
  BY DEF ServerInv
<1> QED BY <1>1, <1>2 DEF History, Received

\* reanalyze_and_publish, of a store that differs in one document only: all it
\* assumes of that one is that it has a text.
LEMMA Reanalyzed ==
    ASSUME StoreInv, ShownInv, UNCHANGED manifest, NEW store, NEW uri \in Uris,
           ReanalyzeAndPublish(store, uri),
           store = [d \in DOMAIN store |-> store[d]],
           DOMAIN store \ {uri} = OpenUris \ {uri},
           uri \in OpenUris => uri \in DOMAIN store,
           \A d \in DOMAIN store \ {uri} : store[d] = documents[d],
           NEW content, NEW analysis, content # None,
           uri \in DOMAIN store => store[uri] = [content |-> content, analysis |-> analysis]
    PROVE  /\ StoreInv' /\ ShownInv'
           /\ Stored' = [d \in Uris |-> IF d # uri THEN Stored[d]
                                        ELSE IF uri \in DOMAIN store THEN content ELSE None]
<1>1. \A d, c : AnalysisOf(d, c)' = AnalysisOf(d, c) /\ Subject(d, c)' = Subject(d, c)
  BY DEF AnalysisOf, Subject
<1>2. CASE uri \notin DOMAIN store
  <2>1. documents' = documents /\ published' = published /\ OpenUris' = OpenUris
    BY <1>2 DEF ReanalyzeAndPublish, StoreInv, OpenUris
  <2>2. StoreInv' /\ ShownInv'
    BY <1>1, <2>1 DEF StoreInv, ShownInv
  <2> QED BY <1>2, <2>1, <2>2 DEF Stored
<1>3. CASE uri \in DOMAIN store
  <2>1. PICK found : found = AnalysisOf(uri, content)
    OBVIOUS
  <2>2. found.problems = Subject(uri, content)
    BY <2>1 DEF AnalysisOf
  <2>3. /\ documents' = [store EXCEPT ![uri].analysis = found]
        /\ published' = [published EXCEPT ![uri] = found.problems]
    BY <1>3, <2>1 DEF ReanalyzeAndPublish
  <2>4. documents' = [d \in DOMAIN store |->
                         IF d = uri THEN [content |-> content, analysis |-> found]
                         ELSE documents[d]]
    <3>1. [store[uri] EXCEPT !.analysis = found] = [content |-> content, analysis |-> found]
      BY <1>3
    <3>2. documents' = [store EXCEPT ![uri] = [store[uri] EXCEPT !.analysis = found]]
      BY <2>3
    <3>3. documents' = [store EXCEPT ![uri] = [content |-> content, analysis |-> found]]
      BY <3>1, <3>2
    <3> QED BY <1>3, <3>3
  <2>5. OpenUris' = DOMAIN store /\ OpenUris' \subseteq Uris
    BY <2>4 DEF OpenUris, StoreInv
  <2>6. documents'[uri] = [content |-> content, analysis |-> AnalysisOf(uri, content)]
        /\ \A d \in OpenUris' \ {uri} : d \in OpenUris /\ documents'[d] = documents[d]
    BY <1>3, <2>1, <2>4, <2>5
  <2>7. StoreInv'
    <3>1. \A d \in OpenUris' : documents'[d] = [content  |-> documents'[d].content,
                                                analysis |-> AnalysisOf(d, documents'[d].content)]
      <4>1. \A d \in OpenUris : documents[d] = [content  |-> documents[d].content,
                                                analysis |-> AnalysisOf(d, documents[d].content)]
        BY DEF StoreInv
      <4>2. documents'[uri].content = content
        BY <2>6
      <4> QED BY <2>6, <4>1, <4>2
    <3>2. documents' = [d \in OpenUris' |-> documents'[d]]
      BY <2>4, <2>5
    <3>3. documents' = [d \in OpenUris' |->
                           [content  |-> documents'[d].content,
                            analysis |-> AnalysisOf(d, documents'[d].content)]]
      BY <3>1, <3>2
    <3>4. \A d \in OpenUris' : documents'[d].content # None
      <4>1. \A d \in OpenUris : documents[d].content # None
        BY DEF StoreInv
      <4>2. documents'[uri].content = content
        BY <2>6
      <4> QED BY <2>6, <4>1, <4>2
    <3> QED BY <1>1, <2>5, <3>3, <3>4 DEF StoreInv
  <2>8. ShownInv'
    <3>1. DOMAIN published' = Uris /\ published'[uri] = Subject(uri, content)
          /\ \A d \in Uris \ {uri} : published'[d] = published[d]
      BY <2>2, <2>3 DEF ShownInv
    <3>2. documents'[uri].content = content
      BY <2>6
    <3> QED BY <1>1, <1>3, <2>5, <2>6, <3>1, <3>2 DEF ShownInv
  <2>9. Stored' = [d \in Uris |-> IF d # uri THEN Stored[d] ELSE content]
    BY <1>3, <2>5, <2>6 DEF Stored
  <2> QED BY <1>3, <2>7, <2>8, <2>9
<1> QED BY <1>2, <1>3

\* Of a message that changes no document: didSave, a question, anything else.
LEMMA NotEdited ==
    ASSUME ServerInv, Receive, Received.method \notin {"didOpen", "didChange", "didClose"}
    PROVE  After(Stored, Received) = Stored
BY DEF After, Stored

LEMMA OpenServed == ASSUME ServerInv, OnDidOpen PROVE ServerInv'
<1>1. Receive /\ Received.method = "didOpen" /\ UNCHANGED <<manifest, edited, sent>>
  BY DEF OnDidOpen, Take
<1>2. PICK uri, content : uri = Received.uri /\ content = Received.content
  OBVIOUS
<1>3. uri \in Uris /\ content # None
  BY <1>1, <1>2, MayTake, Texts DEF MaySend
<1>4. PICK store : store = Opened(uri, content)
  OBVIOUS
<1>5. /\ DOMAIN store = OpenUris \union {uri}
      /\ store = [d \in DOMAIN store |-> store[d]]
      /\ store[uri] = [content |-> content, analysis |-> None]
      /\ \A d \in DOMAIN store \ {uri} : store[d] = documents[d]
  BY <1>4 DEF Opened, Fresh
<1>6. ReanalyzeAndPublish(store, uri)
  BY <1>2, <1>4 DEF OnDidOpen
<1>7. /\ StoreInv' /\ ShownInv'
      /\ Stored' = [d \in Uris |-> IF d # uri THEN Stored[d] ELSE content]
  BY <1>1, <1>3, <1>5, <1>6, Reanalyzed DEF ServerInv
<1>8. Stored' = After(Stored, Received)
  BY <1>1, <1>2, <1>7 DEF After
<1> QED BY <1>1, <1>7, <1>8, TheNext

\* didChange and didSave: a text that comes takes the place of the one there is.
LEMMA TextReplaced ==
    ASSUME ServerInv, Receive, UNCHANGED <<manifest, edited, sent>>,
           NEW uri \in Uris, NEW content, content # None,
           NEW store, store = Changed(uri, content), ReanalyzeAndPublish(store, uri)
    PROVE  /\ StoreInv' /\ ShownInv'
           /\ Stored' = [d \in Uris |->
                 IF d = uri /\ Stored[uri] # None THEN content ELSE Stored[d]]
<1>1. documents = [d \in OpenUris |-> documents[d]]
  BY DEF ServerInv, StoreInv
<1>2. /\ DOMAIN store = OpenUris
      /\ store = [d \in DOMAIN store |-> store[d]]
      /\ uri \in OpenUris => store[uri] = [content |-> content, analysis |-> None]
      /\ \A d \in DOMAIN store \ {uri} : store[d] = documents[d]
  BY <1>1 DEF Changed, Fresh
<1>3. /\ StoreInv' /\ ShownInv'
      /\ Stored' = [d \in Uris |-> IF d # uri THEN Stored[d]
                                   ELSE IF uri \in OpenUris THEN content ELSE None]
  BY <1>2, Reanalyzed DEF ServerInv
<1>4. Stored[uri] # None <=> uri \in OpenUris
  BY DEF Stored, ServerInv, StoreInv
<1>5. \A d \in Uris : (IF d # uri THEN Stored[d]
                       ELSE IF uri \in OpenUris THEN content ELSE None)
                      = IF d = uri /\ Stored[uri] # None THEN content ELSE Stored[d]
  BY <1>4
<1>6. [d \in Uris |-> IF d # uri THEN Stored[d]
                    ELSE IF uri \in OpenUris THEN content ELSE None]
      = [d \in Uris |-> IF d = uri /\ Stored[uri] # None THEN content ELSE Stored[d]]
  BY <1>5, Zenon
<1> QED BY <1>3, <1>6

LEMMA ChangeServed == ASSUME ServerInv, OnDidChange PROVE ServerInv'
<1>1. Receive /\ Received.method = "didChange" /\ UNCHANGED <<manifest, edited, sent>>
  BY DEF OnDidChange, Take
<1>2. PICK uri, content : uri = Received.uri /\ content = Received.content
  OBVIOUS
<1>3. uri \in Uris /\ content # None
  BY <1>1, <1>2, MayTake, Texts DEF MaySend
<1>4. PICK store : store = Changed(uri, content)
  OBVIOUS
<1>5. ReanalyzeAndPublish(store, uri)
  BY <1>2, <1>4 DEF OnDidChange
<1>6. /\ StoreInv' /\ ShownInv'
      /\ Stored' = [d \in Uris |->
            IF d = uri /\ Stored[uri] # None THEN content ELSE Stored[d]]
  BY <1>1, <1>3, <1>4, <1>5, TextReplaced
<1>7. Stored' = After(Stored, Received)
  BY <1>1, <1>2, <1>6 DEF After
<1> QED BY <1>1, <1>6, <1>7, TheNext

LEMMA SaveServed == ASSUME ServerInv, OnDidSave PROVE ServerInv'
<1>1. Receive /\ Received.method = "didSave" /\ UNCHANGED <<manifest, edited, sent>>
  BY DEF OnDidSave, Take
<1>2. PICK uri, content : uri = Received.uri /\ content = Received.content
  OBVIOUS
<1>3. uri \in Uris /\ content \in {None, Stored[uri]}
  BY <1>1, <1>2, MayTake DEF MaySend
<1>4. After(Stored, Received) = Stored
  BY <1>1, NotEdited
<1>5. CASE content = None
  <2>1. ReanalyzeAndPublish(documents, uri)
    BY <1>2, <1>5 DEF OnDidSave
  <2>2. documents = [d \in OpenUris |-> documents[d]] /\ OpenUris = DOMAIN documents
        /\ \A d \in OpenUris : documents[d] = [content  |-> documents[d].content,
                                               analysis |-> AnalysisOf(d, documents[d].content)]
    BY DEF ServerInv, StoreInv, OpenUris
  <2>3. PICK text, analysis : /\ text # None
                              /\ uri \in OpenUris =>
                                    documents[uri] = [content |-> text, analysis |-> analysis]
    <3>1. CASE uri \in OpenUris
      <4>1. documents[uri].content # None
        BY <3>1 DEF ServerInv, StoreInv
      <4>2. PICK text : text = documents[uri].content
        OBVIOUS
      <4>3. documents[uri] = [content |-> text, analysis |-> AnalysisOf(uri, text)]
        BY <2>2, <3>1, <4>2
      <4> QED BY <4>1, <4>2, <4>3
    <3>2. CASE uri \notin OpenUris
      BY <1>3, <3>2, ContentsAssumption
    <3> QED BY <3>1, <3>2
  <2>4. /\ StoreInv' /\ ShownInv'
        /\ Stored' = [d \in Uris |-> IF d # uri THEN Stored[d]
                                     ELSE IF uri \in OpenUris THEN text ELSE None]
    BY <1>1, <1>3, <2>1, <2>2, <2>3, Reanalyzed DEF ServerInv
  <2>5. Stored' = Stored
    BY <2>3, <2>4 DEF Stored
  <2> QED BY <1>1, <1>4, <2>4, <2>5, TheNext
<1>6. CASE content # None
  <2>1. PICK store : store = Changed(uri, content)
    OBVIOUS
  <2>2. ReanalyzeAndPublish(store, uri)
    BY <1>2, <1>6, <2>1 DEF OnDidSave
  <2>3. /\ StoreInv' /\ ShownInv'
        /\ Stored' = [d \in Uris |->
              IF d = uri /\ Stored[uri] # None THEN content ELSE Stored[d]]
    BY <1>1, <1>3, <1>6, <2>2, <2>1, TextReplaced
  <2>4. Stored' = Stored
    BY <1>3, <1>6, <2>3 DEF Stored
  <2> QED BY <1>1, <1>4, <2>3, <2>4, TheNext
<1> QED BY <1>5, <1>6

LEMMA CloseServed == ASSUME ServerInv, OnDidClose PROVE ServerInv'
<1>1. Receive /\ Received.method = "didClose" /\ UNCHANGED <<manifest, edited, sent>>
  BY DEF OnDidClose, Take
<1>2. PICK uri : uri = Received.uri
  OBVIOUS
<1>3. /\ documents' = [d \in OpenUris \ {uri} |-> documents[d]]
      /\ published' = [published EXCEPT ![uri] = NoSubject]
      /\ OpenUris' = OpenUris \ {uri}
  BY <1>2 DEF OnDidClose, Closed, OpenUris
<1>4. \A d, c : AnalysisOf(d, c)' = AnalysisOf(d, c) /\ Subject(d, c)' = Subject(d, c)
  BY <1>1 DEF AnalysisOf, Subject
<1>5. StoreInv'
  BY <1>1, <1>3, <1>4 DEF ServerInv, StoreInv
<1>6. ShownInv'
  BY <1>3, <1>4 DEF ServerInv, ShownInv
<1>7. Stored' = After(Stored, Received)
  BY <1>1, <1>2, <1>3 DEF After, Stored
<1> QED BY <1>1, <1>5, <1>6, <1>7, TheNext

\* Of what is taken without touching the store.
LEMMA OnlyTaken ==
    ASSUME ServerInv, Receive, Received.method \notin {"didOpen", "didChange", "didClose"},
           UNCHANGED <<manifest, edited, sent, documents, published>>
    PROVE  ServerInv'
<1>1. StoreInv' /\ ShownInv' /\ Stored' = Stored
  BY DEF ServerInv, StoreInv, ShownInv, Stored, OpenUris, Subject, AnalysisOf
<1> QED BY <1>1, NotEdited, TheNext

LEMMA ServerServe == ServerInv /\ Serve => ServerInv'
<1> SUFFICES ASSUME ServerInv, Serve PROVE ServerInv'
  OBVIOUS
<1>1. CASE OnDidOpen
  BY <1>1, OpenServed
<1>2. CASE OnDidChange
  BY <1>2, ChangeServed
<1>3. CASE OnDidSave
  BY <1>3, SaveServed
<1>4. CASE OnDidClose
  BY <1>4, CloseServed
<1>5. CASE HandleDefinition
  BY <1>5, OnlyTaken DEF HandleDefinition, Take, Answer
<1>6. CASE HandleReferences
  BY <1>6, OnlyTaken DEF HandleReferences, Take, Answer
<1>7. CASE HandleDocumentSymbol
  BY <1>7, OnlyTaken DEF HandleDocumentSymbol, Take, Answer
<1>8. CASE Ignore
  BY <1>8, OnlyTaken DEF Ignore, Take
<1>9. CASE Shutdown
  BY <1>9, OnlyTaken DEF Shutdown, Take
<1> QED BY <1>1, <1>2, <1>3, <1>4, <1>5, <1>6, <1>7, <1>8, <1>9 DEF Serve

LEMMA ServerStep == ServerInv /\ [Next]_vars => ServerInv'
<1>1. ServerInv /\ Next => ServerInv'
  BY ServerEdit, ServerServe DEF Next
<1>2. ServerInv /\ UNCHANGED vars => ServerInv'
  <2> SUFFICES ASSUME ServerInv, UNCHANGED vars PROVE ServerInv'
    OBVIOUS
  <2>1. StoreInv' /\ ShownInv' /\ Stored' = Stored /\ EditorInv'
    BY DEF vars, ServerInv, EditorInv, StoreInv, ShownInv, Stored, OpenUris, Subject, AnalysisOf
  <2>2. PICK h : History(h)
    BY DEF ServerInv
  <2>3. History(h)'
    BY <2>1, <2>2 DEF History, After, MaySend, vars
  <2> QED BY <2>1, <2>3 DEF ServerInv
<1> QED BY <1>1, <1>2

LEMMA ServerInvariant == Spec => []ServerInv
BY ServerInit, ServerStep, PTL DEF Spec

-----------------------------------------------------------------------------
\* DocumentState.analysis: whatever order any number of contents arrive in, for
\* whatever documents, a request finds what was found in the text that is in the
\* store.
THEOREM AnalysisIsCurrent == Spec => []AnalysisIsOfTheText
<1>1. ServerInv => AnalysisIsOfTheText
  BY Upheld
<1> QED BY <1>1, ServerInvariant, PTL

\* reanalyze_and_publish, on_did_close: once the server has caught up, the editor
\* shows the problems of what its documents contain, and none of a closed one.
THEOREM ShownIsPresent == Spec => PublishedIsForTheText
<1>1. ServerInv => ShowsPresentProblems
  BY Upheld
<1> QED BY <1>1, ServerInvariant, PTL DEF PublishedIsForTheText
=============================================================================
