-------------------------- MODULE DocumentAggregate --------------------------
(***************************************************************************)
(* The document aggregate with its AI extension, and the embedding of its  *)
(* text: a worker that the source leaves to the application asks           *)
(* needsReembedding, takes the text, has it embedded, puts the vector into *)
(* the store and reports back, each in its own time.  A content is a       *)
(* record of the first 8000 characters, all that is embedded, and the      *)
(* rest.  No repository stores documents, and rehydrate throws before its  *)
(* first event (a title must not be empty): an instance is all there is.   *)
(* Times are left out.                                                     *)
(***************************************************************************)
EXTENDS AggregateRoot, FiniteSets, SequencesExt

CONSTANTS
    Titles,
    Contents,      \* [head, rest]
    DocumentTags,  \* normalized tags
    MaxDocumentEvents

ASSUME DocumentAssumption == MaxDocumentEvents \in Nat \ {0} /\ Titles # {} /\ Contents # {}

VARIABLES
    document,  \* the instance
    emitted,   \* every event it has recorded
    embedding, \* the text the worker is busy with, or NoText
    changed,   \* whether the text was changed since the worker took it
    vectors    \* the embedded text in the vector store, or NoText

documentVars == <<document, emitted, embedding, changed, vectors>>

NoText == "no text"
Texts == {c.head : c \in Contents}

EmbeddingStatus == {"PENDING", "STALE", "SYNCED", "FAILED"}
DocumentStatus == {"DRAFT", "PUBLISHED", "ARCHIVED"}

DocumentEvent ==
    [type : {"DocumentCreated", "DocumentTitleUpdated"}, title : Titles]
    \cup [type : {"DocumentContentUpdated", "DocumentPublished", "DocumentArchived"}]

Document ==
    [live : BOOLEAN, title : Titles, content : Contents, status : DocumentStatus,
     tags : SUBSET DocumentTags, embeddingStatus : EmbeddingStatus,
     errorMessage : BOOLEAN, root : RootType(DocumentEvent, {}, {Never})]

DocumentTypeOK ==
    /\ document \in Document
    /\ emitted \in Seq(DocumentEvent)
    /\ Len(emitted) <= MaxDocumentEvents
    /\ embedding \in Texts \cup {NoText}
    /\ changed \in BOOLEAN
    /\ vectors \in Texts \cup {NoText}

Blank ==
    [live |-> FALSE, title |-> CHOOSE t \in Titles : TRUE,
     content |-> CHOOSE c \in Contents : TRUE, status |-> "DRAFT", tags |-> {},
     embeddingStatus |-> "PENDING", errorMessage |-> FALSE, root |-> Root]

DocumentInit ==
    /\ document = Blank
    /\ emitted = <<>>
    /\ embedding = NoText
    /\ changed = FALSE
    /\ vectors = NoText

TextForEmbedding(content) == content.head

-----------------------------------------------------------------------------
(* The aggregate's methods. *)

Emits(d, e) ==
    /\ Len(emitted) < MaxDocumentEvents
    /\ document' = [d EXCEPT !.root = AddDomainEvent(@, e)]
    /\ emitted' = Append(emitted, e)

CreateDocument(title, content) ==
    /\ ~document.live
    /\ Emits([Blank EXCEPT !.live = TRUE, !.title = title, !.content = content],
             [type |-> "DocumentCreated", title |-> title])
    /\ UNCHANGED <<embedding, changed, vectors>>

\* Faulty form: the embedding is not marked.
UpdateContentUnmarked(content) ==
    /\ document.live
    /\ content # document.content
    /\ Emits([document EXCEPT !.content = content], [type |-> "DocumentContentUpdated"])
    /\ changed' = (changed \/ embedding # NoText)
    /\ UNCHANGED <<embedding, vectors>>

UpdateContent(content) ==
    /\ document.live
    /\ content # document.content
    /\ Emits([document EXCEPT !.content = content, !.embeddingStatus = "STALE"],
             [type |-> "DocumentContentUpdated"])
    /\ changed' = (changed \/ embedding # NoText)
    /\ UNCHANGED <<embedding, vectors>>

UpdateTitle(title) ==
    /\ document.live
    /\ title # document.title
    /\ Emits([document EXCEPT !.title = title],
             [type |-> "DocumentTitleUpdated", title |-> title])
    /\ UNCHANGED <<embedding, changed, vectors>>

\* An archived document may be published again.
Publish ==
    /\ document.live
    /\ document.status # "PUBLISHED"
    /\ Emits([document EXCEPT !.status = "PUBLISHED"], [type |-> "DocumentPublished"])
    /\ UNCHANGED <<embedding, changed, vectors>>

Archive ==
    /\ document.live
    /\ document.status # "ARCHIVED"
    /\ Emits([document EXCEPT !.status = "ARCHIVED"], [type |-> "DocumentArchived"])
    /\ UNCHANGED <<embedding, changed, vectors>>

\* Tags change without an event.
ToggleTag(tag) ==
    /\ document.live
    /\ \/ tag \notin document.tags /\ document' = [document EXCEPT !.tags = @ \cup {tag}]
       \/ tag \in document.tags /\ document' = [document EXCEPT !.tags = @ \ {tag}]
    /\ UNCHANGED <<emitted, embedding, changed, vectors>>

PullDocumentEvents ==
    /\ document.root.buffer # <<>>
    /\ document' = [document EXCEPT !.root = CommitUncommittedEvents(@)]
    /\ UNCHANGED <<emitted, embedding, changed, vectors>>

-----------------------------------------------------------------------------
(* Embedding. *)

NeedsReembedding(d) == d.embeddingStatus \in {"STALE", "PENDING", "FAILED"}

TakeText ==
    /\ document.live
    /\ embedding = NoText
    /\ NeedsReembedding(document)
    /\ embedding' = TextForEmbedding(document.content)
    /\ changed' = FALSE
    /\ UNCHANGED <<document, emitted, vectors>>

\* The vector is inserted, or replaces the one with its id.
UpsertVector ==
    /\ embedding # NoText
    /\ vectors' = embedding
    /\ UNCHANGED <<document, emitted, embedding, changed>>

\* updateEmbedding asks nothing.
UpdateEmbedding ==
    /\ embedding # NoText
    /\ vectors = embedding
    /\ document' = [document EXCEPT !.embeddingStatus = "SYNCED", !.errorMessage = FALSE]
    /\ embedding' = NoText
    /\ UNCHANGED <<emitted, changed, vectors>>

\* The client is not loaded, or the service or the store throws.
MarkEmbeddingFailed ==
    /\ embedding # NoText
    /\ document' = [document EXCEPT !.embeddingStatus = "FAILED", !.errorMessage = TRUE]
    /\ embedding' = NoText
    /\ UNCHANGED <<emitted, changed, vectors>>

MarkEmbeddingStale ==
    /\ document.live
    /\ document.embeddingStatus # "STALE"
    /\ document' = [document EXCEPT !.embeddingStatus = "STALE"]
    /\ UNCHANGED <<emitted, embedding, changed, vectors>>

DocumentNext ==
    \/ \E t \in Titles, c \in Contents : CreateDocument(t, c)
    \/ \E c \in Contents : UpdateContent(c)
    \/ \E t \in Titles : UpdateTitle(t)
    \/ Publish
    \/ Archive
    \/ \E tag \in DocumentTags : ToggleTag(tag)
    \/ PullDocumentEvents
    \/ TakeText
    \/ UpsertVector
    \/ UpdateEmbedding
    \/ MarkEmbeddingFailed
    \/ MarkEmbeddingStale

DocumentSpec == DocumentInit /\ [][DocumentNext]_documentVars

-----------------------------------------------------------------------------
\* What SYNCED means, "embedding generated and in step with the content"
\* (enums-and-interfaces.ts:18): the vector in the store is that of the
\* document's text, unless the text was changed while the worker was busy
\* with it, which nobody looks for.  The message of an earlier failure is gone.
EmbeddingIsCurrent ==
    document.embeddingStatus = "SYNCED" =>
        /\ ~changed => vectors = TextForEmbedding(document.content)
        /\ ~document.errorMessage

-----------------------------------------------------------------------------
(* Replaying a document's events, the code rehydrate would run. *)

\* Faulty form: a new title is not applied.
ApplyDocumentOldTitle(d, e) ==
    CASE e.type = "DocumentCreated" -> [d EXCEPT !.title = e.title, !.status = "DRAFT"]
      [] e.type = "DocumentPublished" -> [d EXCEPT !.status = "PUBLISHED"]
      [] e.type = "DocumentArchived" -> [d EXCEPT !.status = "ARCHIVED"]
      [] OTHER -> d

ApplyDocument(d, e) ==
    CASE e.type = "DocumentCreated" -> [d EXCEPT !.title = e.title, !.status = "DRAFT"]
      [] e.type = "DocumentTitleUpdated" -> [d EXCEPT !.title = e.title]
      [] e.type = "DocumentPublished" -> [d EXCEPT !.status = "PUBLISHED"]
      [] e.type = "DocumentArchived" -> [d EXCEPT !.status = "ARCHIVED"]
      [] OTHER -> d

\* The events a document has recorded tell its title and its status.
DocumentTellsAll ==
    document.live =>
        LET told == FoldLeft(ApplyDocument, Blank, emitted)
        IN  told.title = document.title /\ told.status = document.status
=============================================================================
