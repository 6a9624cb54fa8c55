-------------------------- MODULE Aggregates_proofs --------------------------
(* What TLAPS proves of the aggregates, of the pipeline that commands take to them
   and of the requests that bring the commands: of a tenant's members, for any
   members, names and limits; of a document and the embedding of its text, for any
   titles, contents and tags; of a synchronised aggregate, for any data, users,
   systems and options of the aggregate root; of the buses and their pipes, for any
   handlers, options, commands and orders of their steps; and of the context, for
   any requests and people. *)
EXTENDS TenantAggregate, DocumentAggregate, SyncableAggregate, CommandPipeline, RequestContext,
    FiniteSetTheorems, SequenceTheorems, TLAPS

-----------------------------------------------------------------------------
(* Types of an aggregate root that keeps no times. *)

RootOf(Events) == RootType(Events, {}, {Never})

\* Recording an event, giving the recorded ones away, and what rehydrate leaves
\* keep the root's type.
LEMMA RootKept ==
    ASSUME NEW Events, NEW r \in RootOf(Events)
    PROVE  /\ CommitUncommittedEvents(r) \in RootOf(Events)
           /\ \A e \in Events : AddDomainEvent(r, e) \in RootOf(Events)
           /\ \A n \in Nat : ResetEventStateAfterRehydrate(r, n) \in RootOf(Events)
<1>0. r \in [version : Nat, committed : Nat, buffer : Seq(Events),
             createdAt : {Never}, updatedAt : {Never}, createdBy : {} \cup {Nobody},
             updatedBy : {} \cup {Nobody}, deletedAt : {Never}, deletedBy : {} \cup {Nobody}]
  BY DEF RootOf, RootType
<1>1. <<>> \in Seq(Events)
  OBVIOUS
<1>2. CommitUncommittedEvents(r) \in RootOf(Events)
  BY <1>0, <1>1 DEF RootOf, RootType, CommitUncommittedEvents
<1>3. ASSUME NEW e \in Events PROVE AddDomainEvent(r, e) \in RootOf(Events)
  <2>1. r.buffer \in Seq(Events) /\ r.version + 1 \in Nat
    BY <1>0
  <2>2. Append(r.buffer, e) \in Seq(Events)
    BY <2>1
  <2> QED  BY <1>0, <2>1, <2>2 DEF RootOf, RootType, AddDomainEvent
<1>4. ASSUME NEW n \in Nat PROVE ResetEventStateAfterRehydrate(r, n) \in RootOf(Events)
  BY <1>0, <1>1 DEF RootOf, RootType, ResetEventStateAfterRehydrate
<1> QED  BY <1>2, <1>3, <1>4

LEMMA RootTyped == ASSUME NEW Events PROVE Root \in RootOf(Events)
<1>1. <<>> \in Seq(Events)
  OBVIOUS
<1> QED  BY <1>1 DEF Root, RootOf, RootType

-----------------------------------------------------------------------------
(* Types of a tenant. *)

NamedEvent == [type : {"TenantCreated"}, name : TenantNames]
NamedRoot == RootOf(NamedEvent)

\* Only a name that TenantName accepts is recorded, and nothing is recorded of a
\* tenant that is in the event store.
TenantRecorded ==
    /\ tenantStream \in Seq(NamedEvent)
    /\ Len(tenantStream) <= 1
    /\ tenant \in [live : BOOLEAN, name : TenantNames \cup {Placeholder},
                   limit : Limits \cup {DefaultLimit}, members : SUBSET Members,
                   root : NamedRoot]
    /\ Len(tenant.root.buffer) <= 1
    /\ tenant.root.buffer # <<>> => tenant.root.committed = 0
    /\ renaming \subseteq TenantNames

LEMMA RecordedTyped == TenantRecorded => TenantTypeOK
<1>1. TenantNames \subseteq {n.text : n \in RawNames}
  BY DEF TenantNames
<1>2. NamedEvent \subseteq TenantEvent
  BY <1>1 DEF NamedEvent, TenantEvent
<1>3. Seq(NamedEvent) \subseteq Seq(TenantEvent)
  BY <1>2
<1>4. NamedRoot \subseteq RootType(TenantEvent, {}, {Never})
  <2> SUFFICES ASSUME NEW r \in NamedRoot PROVE r \in RootType(TenantEvent, {}, {Never})
    OBVIOUS
  <2> QED  BY <1>3 DEF NamedRoot, RootOf, RootType
<1> QED  BY <1>3, <1>4 DEF TenantRecorded, TenantTypeOK

LEMMA NoTenantRecorded ==
    /\ NoTenant \in [live : BOOLEAN, name : TenantNames \cup {Placeholder},
                     limit : Limits \cup {DefaultLimit}, members : SUBSET Members,
                     root : NamedRoot]
    /\ NoTenant.root = Root /\ NoTenant.root \in NamedRoot
    /\ NoTenant.root.buffer = <<>> /\ NoTenant.root.committed = 0
BY RootTyped DEF NoTenant, NamedRoot, Root

\* The stream, the instance a command holds and the names under way keep their
\* types, whatever is created, renamed, saved and reloaded.
THEOREM TenantTypeCorrect == TenantSpec => []TenantTypeOK
<1>1. TenantInit => TenantRecorded
  <2>1. <<>> \in Seq(NamedEvent) /\ Len(<<>>) = 0
    OBVIOUS
  <2> QED  BY <2>1, NoTenantRecorded DEF TenantInit, TenantRecorded
<1>2. TenantRecorded /\ [TenantNext]_tenantVars => TenantRecorded'
  <2> SUFFICES ASSUME TenantRecorded, [TenantNext]_tenantVars PROVE TenantRecorded'
    OBVIOUS
  <2> USE DEF TenantRecorded
  <2>0. /\ tenant.root \in NamedRoot /\ tenant.root.buffer \in Seq(NamedEvent)
        /\ tenant.root.committed \in Nat
    BY DEF NamedRoot, RootOf, RootType
  <2>1. ASSUME NEW n \in RawNames, NEW l \in Limits, CreateTenant(n, l) PROVE TenantRecorded'
    <3> DEFINE e == [type |-> "TenantCreated", name |-> n.text]
               root == AddDomainEvent(Root, e)
    <3>1. n.text \in TenantNames
      BY <2>1 DEF CreateTenant, TenantNames
    <3>2. e \in NamedEvent
      BY <3>1 DEF NamedEvent
    <3> HIDE DEF e
    <3>3. root \in NamedRoot
      BY <3>2, RootTyped, RootKept DEF NamedRoot
    <3>4. Append(<<>>, e) = <<e>> /\ Len(<<e>>) = 1
      OBVIOUS
    <3>5. root.buffer = <<e>> /\ root.committed = 0
      BY <3>4 DEF AddDomainEvent, Root
    <3>6. tenant' = [NoTenant EXCEPT !.live = TRUE, !.name = n.text, !.limit = l, !.root = root]
      BY <2>1, NoTenantRecorded DEF CreateTenant, e
    <3> HIDE DEF root
    <3>7. tenant'.root = root
      BY <3>6, NoTenantRecorded
    <3>8. tenant' \in [live : BOOLEAN, name : TenantNames \cup {Placeholder},
                      limit : Limits \cup {DefaultLimit}, members : SUBSET Members,
                      root : NamedRoot]
      BY <3>1, <3>3, <3>6, NoTenantRecorded
    <3>9. UNCHANGED <<tenantStream, renaming>>
      BY <2>1 DEF CreateTenant
    <3>10. Len(tenant'.root.buffer) <= 1 /\ tenant'.root.committed = 0
      <4>1. tenant'.root.buffer = <<e>> /\ tenant'.root.committed = 0
        BY <3>5, <3>7
      <4>2. Len(tenant'.root.buffer) = 1
        BY <3>4, <4>1, Zenon
      <4> QED  BY <4>1, <4>2
    <3> QED  BY <3>8, <3>9, <3>10
  <2>2. ASSUME NEW u \in Members, AddMember(u) \/ RemoveMember(u) PROVE TenantRecorded'
    <3>1. tenant.members \cup {u} \in SUBSET Members /\ tenant.members \ {u} \in SUBSET Members
      OBVIOUS
    <3> QED  BY <2>2, <3>1 DEF AddMember, RemoveMember
  <2>3. ASSUME NEW l \in Limits, UpdateSettings(l) PROVE TenantRecorded'
    BY <2>3 DEF UpdateSettings
  <2>4. ASSUME NEW n \in RawNames, UpdateName(n) PROVE TenantRecorded'
    BY <2>4 DEF UpdateName, TenantNames
  <2>5. ASSUME NEW name \in TenantNames, AssignName(name) PROVE TenantRecorded'
    BY <2>5 DEF AssignName
  <2>6. CASE SaveTenant
    <3> DEFINE root == CommitUncommittedEvents(tenant.root)
    <3>1. root \in NamedRoot
      BY <2>0, RootKept DEF NamedRoot
    <3>2. root.buffer = <<>> /\ Len(<<>>) = 0
      BY <2>0 DEF CommitUncommittedEvents, NamedRoot, RootOf, RootType
    <3>3. tenant' = [tenant EXCEPT !.root = root]
      BY <2>6 DEF SaveTenant
    <3>4. Len(tenantStream) = 0
      BY <2>6 DEF SaveTenant, ExpectedVersion
    <3>5. /\ tenantStream \o tenant.root.buffer \in Seq(NamedEvent)
          /\ Len(tenantStream \o tenant.root.buffer) <= 1
      BY <2>0, <3>4
    <3> HIDE DEF root
    <3>6. tenant'.root = root
      BY <3>3
    <3>7. tenant' \in [live : BOOLEAN, name : TenantNames \cup {Placeholder},
                      limit : Limits \cup {DefaultLimit}, members : SUBSET Members,
                      root : NamedRoot]
      BY <3>1, <3>3
    <3> QED  BY <2>6, <3>2, <3>5, <3>6, <3>7 DEF SaveTenant
  <2>7. CASE LeaveTenant
    <3>1. Len(<<>>) = 0
      OBVIOUS
    <3> QED  BY <2>7, <3>1, NoTenantRecorded DEF LeaveTenant
  <2>8. CASE FindTenant
    <3> DEFINE n == Len(tenantStream)
               root == ResetEventStateAfterRehydrate(Root, n)
               e == tenantStream[n]
    <3>1. n \in Nat /\ n # 0 /\ e \in NamedEvent
      BY <2>8 DEF FindTenant
    <3>2. root \in NamedRoot
      BY <3>1, RootTyped, RootKept DEF NamedRoot
    <3>3. root.buffer = <<>> /\ Len(<<>>) = 0
      BY DEF ResetEventStateAfterRehydrate, Root
    <3>4. tenant' = [ApplyTenant(NoTenant, e) EXCEPT
                       !.live = TRUE, !.root = ResetEventStateAfterRehydrate(@, n)]
      BY <2>8 DEF FindTenant, RehydrateTenant, Last
    <3>5. e.name \in TenantNames
      BY <3>1 DEF NamedEvent
    <3> HIDE DEF root, e, n
    <3>6. ApplyTenant(NoTenant, e).root = Root
      BY NoTenantRecorded DEF ApplyTenant
    <3>7. tenant'.root = root
      BY <3>4, <3>6, NoTenantRecorded DEF ApplyTenant, root
    <3>8. tenant' \in [live : BOOLEAN, name : TenantNames \cup {Placeholder},
                      limit : Limits \cup {DefaultLimit}, members : SUBSET Members,
                      root : NamedRoot]
      BY <3>2, <3>4, <3>5, <3>6, NoTenantRecorded DEF ApplyTenant, root
    <3> QED  BY <2>8, <3>3, <3>7, <3>8 DEF FindTenant
  <2>9. CASE UNCHANGED tenantVars
    BY <2>9 DEF tenantVars
  <2> QED
    BY <2>1, <2>2, <2>3, <2>4, <2>5, <2>6, <2>7, <2>8, <2>9 DEF TenantNext
<1> QED  BY <1>1, <1>2, RecordedTyped, PTL DEF TenantSpec

-----------------------------------------------------------------------------
(* The members of a tenant. *)

\* A value with the fields of a tenant.
IsTenant(t) == DOMAIN t = {"live", "name", "limit", "members", "root"}

\* As many members as the limit allows, but for the fraction of one.
Fits(count, limit) ==
    count \in Nat /\ limit \in Int /\ 2 <= limit /\ limit <= 20000 /\ 2 * count <= limit + 1

\* The members of an instance are finitely many and within a limit that is in
\* range; an instance that nobody holds has none.
MembersCounted ==
    /\ IsTenant(tenant)
    /\ IsFiniteSet(tenant.members)
    /\ ~tenant.live => tenant.members = {}
    /\ Fits(Cardinality(tenant.members), tenant.limit)

LEMMA NothingFits ==
    ASSUME NEW l, ValidLimit(l) PROVE Fits(0, l)
BY DEF Fits, ValidLimit

LEMMA OneMoreFits ==
    ASSUME NEW c, NEW l, Fits(c, l), 2 * c < l PROVE Fits(c + 1, l)
BY DEF Fits

LEMMA OneLessFits ==
    ASSUME NEW c, NEW l, Fits(c, l), c # 0 PROVE Fits(c - 1, l)
BY DEF Fits

LEMMA AnotherLimitFits ==
    ASSUME NEW c, NEW l, NEW k, ValidLimit(k), Fits(c, l), k >= 2 * c PROVE Fits(c, k)
BY DEF Fits, ValidLimit

LEMMA NoTenantFits ==
    /\ IsTenant(NoTenant) /\ ~NoTenant.live /\ NoTenant.members = {}
    /\ IsFiniteSet({}) /\ Cardinality({}) = 0
    /\ Fits(0, NoTenant.limit)
<1>1. IsTenant(NoTenant) /\ ~NoTenant.live /\ NoTenant.members = {}
  BY DEF NoTenant, IsTenant
<1>2. NoTenant.limit = DefaultLimit
  BY DEF NoTenant
<1>3. Fits(0, DefaultLimit)
  <2>1. ValidLimit(DefaultLimit)
    BY DefaultLimitAssumption DEF ValidLimit
  <2> QED  BY <2>1, NothingFits
<1>4. IsFiniteSet({}) /\ Cardinality({}) = 0
  BY FS_EmptySet
<1> QED  BY <1>1, <1>2, <1>3, <1>4

\* However often the limit is raised and lowered, members are added and removed,
\* and the tenant is saved and reloaded, an instance holds no more members than
\* its limit, but for the fraction of one that is not whole
\* (tenant.aggregate.ts:101, 179).
THEOREM MembersWithinLimit == TenantSpec => []WithinLimit
<1>1. TenantInit => MembersCounted
  BY NoTenantFits DEF TenantInit, MembersCounted
<1>2. MembersCounted /\ [TenantNext]_tenantVars => MembersCounted'
  <2> SUFFICES ASSUME MembersCounted, [TenantNext]_tenantVars PROVE MembersCounted'
    OBVIOUS
  <2>1. ASSUME NEW n \in RawNames, NEW l \in Limits, CreateTenant(n, l) PROVE MembersCounted'
    <3>1. IsTenant(tenant') /\ tenant'.members = {} /\ tenant'.limit = l /\ ValidLimit(l)
      BY <2>1 DEF CreateTenant, IsTenant, NoTenant
    <3>2. Fits(0, l)
      BY <3>1, NothingFits
    <3> QED  BY <3>1, <3>2, NoTenantFits DEF MembersCounted
  <2>2. ASSUME NEW u \in Members, AddMember(u) PROVE MembersCounted'
    <3>1. /\ IsFiniteSet(tenant.members \cup {u})
          /\ Cardinality(tenant.members \cup {u}) = Cardinality(tenant.members) + 1
      BY <2>2, FS_AddElement DEF AddMember, MembersCounted
    <3>2. 2 * Cardinality(tenant.members) < tenant.limit
      BY <2>2 DEF AddMember, CanAddMember
    <3>3. /\ IsTenant(tenant') /\ tenant'.live /\ tenant'.limit = tenant.limit
          /\ tenant'.members = tenant.members \cup {u}
      BY <2>2 DEF AddMember, MembersCounted, IsTenant
    <3>4. Fits(Cardinality(tenant.members) + 1, tenant.limit)
      BY <3>2, OneMoreFits DEF MembersCounted
    <3> QED  BY <3>1, <3>3, <3>4 DEF MembersCounted
  <2>3. ASSUME NEW u \in Members, RemoveMember(u) PROVE MembersCounted'
    <3>1. /\ IsFiniteSet(tenant.members \ {u})
          /\ Cardinality(tenant.members \ {u}) = Cardinality(tenant.members) - 1
      BY <2>3, FS_RemoveElement DEF RemoveMember, MembersCounted
    <3>2. Cardinality(tenant.members) # 0
      BY <2>3, FS_EmptySet DEF RemoveMember, MembersCounted
    <3>3. /\ IsTenant(tenant') /\ tenant'.live /\ tenant'.limit = tenant.limit
          /\ tenant'.members = tenant.members \ {u}
      BY <2>3 DEF RemoveMember, MembersCounted, IsTenant
    <3>4. Fits(Cardinality(tenant.members) - 1, tenant.limit)
      BY <3>2, OneLessFits DEF MembersCounted
    <3> QED  BY <3>1, <3>3, <3>4 DEF MembersCounted
  <2>4. ASSUME NEW l \in Limits, UpdateSettings(l) PROVE MembersCounted'
    <3>1. /\ IsTenant(tenant') /\ tenant'.live /\ tenant'.limit = l
          /\ tenant'.members = tenant.members
          /\ ValidLimit(l) /\ l >= 2 * Cardinality(tenant.members)
      BY <2>4 DEF UpdateSettings, MembersCounted, IsTenant
    <3>2. Fits(Cardinality(tenant.members), l)
      BY <3>1, AnotherLimitFits DEF MembersCounted
    <3> QED  BY <3>1, <3>2 DEF MembersCounted
  <2>5. CASE (\E n \in RawNames : UpdateName(n)) \/ (\E name \in TenantNames : AssignName(name))
             \/ SaveTenant
    <3>1. /\ IsTenant(tenant') /\ tenant'.live = tenant.live /\ tenant'.limit = tenant.limit
          /\ tenant'.members = tenant.members
      BY <2>5 DEF UpdateName, AssignName, SaveTenant, MembersCounted, IsTenant
    <3> QED  BY <3>1 DEF MembersCounted
  <2>6. CASE LeaveTenant
    BY <2>6, NoTenantFits DEF LeaveTenant, MembersCounted
  <2>7. CASE FindTenant
    <3>1. tenant' = RehydrateTenant(tenantStream)
      BY <2>7 DEF FindTenant
    <3>2. /\ IsTenant(tenant') /\ tenant'.limit = NoTenant.limit
          /\ tenant'.members = {}
      BY <3>1 DEF RehydrateTenant, ApplyTenant, IsTenant, NoTenant
    <3> QED  BY <3>2, NoTenantFits DEF MembersCounted
  <2>8. CASE UNCHANGED tenantVars
    BY <2>8 DEF tenantVars, MembersCounted
  <2> QED
    BY <2>1, <2>2, <2>3, <2>4, <2>5, <2>6, <2>7, <2>8 DEF TenantNext
<1>3. MembersCounted => WithinLimit
  BY DEF MembersCounted, WithinLimit, Fits
<1> QED  BY <1>1, <1>2, <1>3, PTL DEF TenantSpec

-----------------------------------------------------------------------------
(* Types of a document and of the embedding of its text. *)

DocumentRoot == RootOf(DocumentEvent)

LEMMA DocumentShape ==
    Document = [live : BOOLEAN, title : Titles, content : Contents, status : DocumentStatus,
                tags : SUBSET DocumentTags, embeddingStatus : EmbeddingStatus,
                errorMessage : BOOLEAN, root : DocumentRoot]
BY DEF Document, DocumentRoot, RootOf

LEMMA BlankType == Blank \in Document
<1> USE DocumentAssumption
<1>1. (CHOOSE t \in Titles : TRUE) \in Titles
  <2>1. \E t \in Titles : TRUE
    OBVIOUS
  <2> QED  BY <2>1
<1>2. (CHOOSE c \in Contents : TRUE) \in Contents
  <2>1. \E c \in Contents : TRUE
    OBVIOUS
  <2> QED  BY <2>1
<1>3. Root \in DocumentRoot
  BY RootTyped DEF DocumentRoot
<1>4. Blank.title \in Titles /\ Blank.content \in Contents /\ {} \in SUBSET DocumentTags
  BY <1>1, <1>2 DEF Blank
<1> QED  BY <1>3, <1>4, DocumentShape DEF Blank, DocumentStatus, EmbeddingStatus

\* What a method that records an event leaves.
LEMMA EmitsType ==
    ASSUME NEW d \in Document, NEW e \in DocumentEvent, Emits(d, e),
           emitted \in Seq(DocumentEvent), Len(emitted) <= MaxDocumentEvents
    PROVE  /\ document' \in Document
           /\ emitted' \in Seq(DocumentEvent)
           /\ Len(emitted') <= MaxDocumentEvents
<1> USE DocumentAssumption
<1>1. d.root \in DocumentRoot
  BY DocumentShape
<1>2. AddDomainEvent(d.root, e) \in DocumentRoot
  BY <1>1, RootKept DEF DocumentRoot
<1>3. document' \in Document
  BY <1>2, DocumentShape DEF Emits
<1>4. emitted' \in Seq(DocumentEvent) /\ Len(emitted') <= MaxDocumentEvents
  BY DEF Emits
<1> QED  BY <1>3, <1>4

\* One step keeps the types.
LEMMA DocumentTypeStep ==
    ASSUME DocumentTypeOK, [DocumentNext]_documentVars
    PROVE  DocumentTypeOK'
<1> USE DEF DocumentTypeOK
<1>0. document \in [live : BOOLEAN, title : Titles, content : Contents, status : DocumentStatus,
                    tags : SUBSET DocumentTags, embeddingStatus : EmbeddingStatus,
                    errorMessage : BOOLEAN, root : DocumentRoot]
  BY DocumentShape
<1>1. ASSUME NEW t \in Titles, NEW c \in Contents, CreateDocument(t, c) PROVE DocumentTypeOK'
  <2>1. [Blank EXCEPT !.live = TRUE, !.title = t, !.content = c] \in Document
    BY BlankType, DocumentShape
  <2>2. [type |-> "DocumentCreated", title |-> t] \in DocumentEvent
    BY DEF DocumentEvent
  <2> QED  BY <1>1, <2>1, <2>2, EmitsType DEF CreateDocument
<1>2. ASSUME NEW c \in Contents, UpdateContent(c) PROVE DocumentTypeOK'
  <2>1. [document EXCEPT !.content = c, !.embeddingStatus = "STALE"] \in Document
    BY <1>0, DocumentShape DEF EmbeddingStatus
  <2>2. [type |-> "DocumentContentUpdated"] \in DocumentEvent
    BY DEF DocumentEvent
  <2>3. changed' \in BOOLEAN
    BY <1>2 DEF UpdateContent
  <2> QED  BY <1>2, <2>1, <2>2, <2>3, EmitsType DEF UpdateContent
<1>3. ASSUME NEW t \in Titles, UpdateTitle(t) PROVE DocumentTypeOK'
  <2>1. [document EXCEPT !.title = t] \in Document
    BY <1>0, DocumentShape
  <2>2. [type |-> "DocumentTitleUpdated", title |-> t] \in DocumentEvent
    BY DEF DocumentEvent
  <2> QED  BY <1>3, <2>1, <2>2, EmitsType DEF UpdateTitle
<1>4. CASE Publish
  <2>1. [document EXCEPT !.status = "PUBLISHED"] \in Document
    BY <1>0, DocumentShape DEF DocumentStatus
  <2>2. [type |-> "DocumentPublished"] \in DocumentEvent
    BY DEF DocumentEvent
  <2> QED  BY <1>4, <2>1, <2>2, EmitsType DEF Publish
<1>5. CASE Archive
  <2>1. [document EXCEPT !.status = "ARCHIVED"] \in Document
    BY <1>0, DocumentShape DEF DocumentStatus
  <2>2. [type |-> "DocumentArchived"] \in DocumentEvent
    BY DEF DocumentEvent
  <2> QED  BY <1>5, <2>1, <2>2, EmitsType DEF Archive
<1>6. ASSUME NEW tag \in DocumentTags, ToggleTag(tag) PROVE DocumentTypeOK'
  <2>1. document.tags \cup {tag} \in SUBSET DocumentTags /\ document.tags \ {tag} \in SUBSET DocumentTags
    BY <1>0
  <2>2. document' \in Document
    BY <1>0, <1>6, <2>1, DocumentShape DEF ToggleTag
  <2> QED  BY <1>6, <2>2 DEF ToggleTag
<1>7. CASE PullDocumentEvents
  <2>1. CommitUncommittedEvents(document.root) \in DocumentRoot
    BY <1>0, RootKept DEF DocumentRoot
  <2>2. document' \in Document
    BY <1>0, <1>7, <2>1, DocumentShape DEF PullDocumentEvents
  <2> QED  BY <1>7, <2>2 DEF PullDocumentEvents
<1>8. CASE TakeText
  BY <1>0, <1>8 DEF TakeText, TextForEmbedding, Texts
<1>9. CASE UpsertVector
  BY <1>9 DEF UpsertVector
<1>10. CASE UpdateEmbedding \/ MarkEmbeddingFailed \/ MarkEmbeddingStale
  <2>1. document' \in Document
    BY <1>0, <1>10, DocumentShape
       DEF UpdateEmbedding, MarkEmbeddingFailed, MarkEmbeddingStale, EmbeddingStatus
  <2> QED  BY <1>10, <2>1 DEF UpdateEmbedding, MarkEmbeddingFailed, MarkEmbeddingStale
<1>11. CASE UNCHANGED documentVars
  BY <1>11 DEF documentVars
<1> QED
  BY <1>1, <1>2, <1>3, <1>4, <1>5, <1>6, <1>7, <1>8, <1>9, <1>10, <1>11 DEF DocumentNext

\* A document, its events and the embedding of its text keep their types.
THEOREM DocumentTypeCorrect == DocumentSpec => []DocumentTypeOK
<1>1. DocumentInit => DocumentTypeOK
  <2>1. <<>> \in Seq(DocumentEvent) /\ Len(<<>>) = 0 /\ 0 <= MaxDocumentEvents
    BY DocumentAssumption
  <2> QED  BY <2>1, BlankType, DocumentAssumption DEF DocumentInit, DocumentTypeOK
<1> QED  BY <1>1, DocumentTypeStep, PTL DEF DocumentSpec

-----------------------------------------------------------------------------
(* An embedding that is SYNCED. *)

\* A text the worker is busy with is the document's unless that was changed
\* since, and such a document is not SYNCED.
Busy ==
    /\ embedding # NoText =>
         /\ document.live
         /\ document.embeddingStatus # "SYNCED"
         /\ ~changed => embedding = TextForEmbedding(document.content)
    /\ ~document.live => document.embeddingStatus # "SYNCED"

\* Whatever is edited, fails and is retried, SYNCED means that the vector in the
\* store is that of the document's text, unless that was changed while the
\* worker was busy with it (ai-enabled.aggregate-root.ts:96).
THEOREM EmbeddingWasCurrent == DocumentSpec => []EmbeddingIsCurrent
<1>1. DocumentInit => Busy /\ EmbeddingIsCurrent
  BY DEF DocumentInit, Busy, EmbeddingIsCurrent, Blank
<1>2. DocumentTypeOK /\ Busy /\ EmbeddingIsCurrent /\ [DocumentNext]_documentVars
      => (Busy /\ EmbeddingIsCurrent)'
  <2> SUFFICES ASSUME DocumentTypeOK, Busy, EmbeddingIsCurrent, [DocumentNext]_documentVars
               PROVE  (Busy /\ EmbeddingIsCurrent)'
    OBVIOUS
  <2> USE DEF Busy, EmbeddingIsCurrent, TextForEmbedding
  <2>0. document \in [live : BOOLEAN, title : Titles, content : Contents, status : DocumentStatus,
                      tags : SUBSET DocumentTags, embeddingStatus : EmbeddingStatus,
                      errorMessage : BOOLEAN, root : DocumentRoot]
    BY DocumentShape DEF DocumentTypeOK
  <2>1. ASSUME NEW t \in Titles, NEW c \in Contents, CreateDocument(t, c)
        PROVE  (Busy /\ EmbeddingIsCurrent)'
    BY <2>0, <2>1 DEF CreateDocument, Emits, Blank
  <2>2. ASSUME NEW c \in Contents, UpdateContent(c) PROVE (Busy /\ EmbeddingIsCurrent)'
    BY <2>0, <2>2 DEF UpdateContent, Emits
  <2>3. CASE (\E t \in Titles : UpdateTitle(t)) \/ Publish \/ Archive
             \/ (\E tag \in DocumentTags : ToggleTag(tag)) \/ PullDocumentEvents
    <3>1. /\ document'.live = document.live /\ document'.content = document.content
          /\ document'.embeddingStatus = document.embeddingStatus
          /\ document'.errorMessage = document.errorMessage
          /\ UNCHANGED <<embedding, changed, vectors>>
      BY <2>0, <2>3 DEF UpdateTitle, Publish, Archive, ToggleTag, PullDocumentEvents, Emits
    <3> QED  BY <3>1
  <2>4. CASE TakeText
    BY <2>4 DEF TakeText, NeedsReembedding
  <2>5. CASE UpsertVector
    BY <2>5 DEF UpsertVector
  <2>6. CASE UpdateEmbedding
    BY <2>0, <2>6 DEF UpdateEmbedding
  <2>7. CASE MarkEmbeddingFailed
    BY <2>0, <2>7 DEF MarkEmbeddingFailed
  <2>8. CASE MarkEmbeddingStale
    BY <2>0, <2>8 DEF MarkEmbeddingStale
  <2>9. CASE UNCHANGED documentVars
    BY <2>9 DEF documentVars
  <2> QED
    BY <2>1, <2>2, <2>3, <2>4, <2>5, <2>6, <2>7, <2>8, <2>9 DEF DocumentNext
<1> QED  BY <1>1, <1>2, DocumentTypeCorrect, PTL DEF DocumentSpec

-----------------------------------------------------------------------------
(* Types of a synchronised aggregate. *)

\* One step keeps the types.
LEMMA SyncTypeStep ==
    ASSUME SyncTypeOK, [SyncNext]_syncVars
    PROVE  SyncTypeOK'
<1> USE SyncBoundsAssumption, OptionsAssumption
<1> USE DEF SyncTypeOK
<1> DEFINE R == RootType({}, Actors, 0 .. MaxClock)
<1>0. /\ record \in [live : BOOLEAN, datum : Data, externalIds : SUBSET Systems,
                     status : SyncStatus, errorMessage : BOOLEAN,
                     lastSyncedAt : 0 .. MaxClock, syncVersion : 1 .. MaxSyncVersion, root : R]
      /\ clock \in 0 .. MaxClock
  BY DEF Syncable
<1>1. ASSUME NEW r \in R, NEW by \in Callers
      PROVE  /\ MarkUpdated(r, by, clock) \in R
             /\ SetCreatedBy(r, by) \in R
             /\ SetUpdatedBy(r, by, clock) \in R
             /\ SoftDelete(r, by, clock) \in R
             /\ Restore(r, clock) \in R
             /\ InitAuditTimestamps(r, clock) \in R
  <2> USE <1>0 DEF RootType, Callers
  <2>1. MarkUpdated(r, by, clock) \in R
    BY DEF MarkUpdated, Tracked
  <2>2. SetCreatedBy(r, by) \in R
    BY DEF SetCreatedBy
  <2>3. SetUpdatedBy(r, by, clock) \in R
    BY DEF SetUpdatedBy
  <2>4. SoftDelete(r, by, clock) \in R
    BY DEF SoftDelete, Tracked
  <2>5. Restore(r, clock) \in R
    <3>1. 0 \in 0 .. MaxClock
      OBVIOUS
    <3> QED  BY <3>1 DEF Restore, Never
  <2>6. InitAuditTimestamps(r, clock) \in R
    BY DEF InitAuditTimestamps
  <2> QED  BY <2>1, <2>2, <2>3, <2>4, <2>5, <2>6
<1> HIDE DEF R
<1>2. CASE Tick
  BY <1>2 DEF Tick
<1>3. ASSUME NEW by \in Actors, CreateRecord(by) PROVE SyncTypeOK'
  BY <1>0, <1>1, <1>3 DEF CreateRecord, Callers, Syncable, R
<1> DEFINE touched(by) == MarkUpdated(record.root, by, clock)
<1>t. record.root \in R /\ \A by \in Callers : touched(by) \in R
  BY <1>0, <1>1
<1>4. CASE AuditStep
  BY <1>0, <1>1, <1>4 DEF AuditStep, RootBecomes, Callers, Syncable, R
<1>5. ASSUME NEW system \in Systems, SetExternalId(system) \/ RemoveExternalId(system)
      PROVE  SyncTypeOK'
  <2>1. MarkUpdated(record.root, Nobody, clock) \in R
    BY <1>t DEF Callers
  <2>2. /\ record.externalIds \cup {system} \in SUBSET Systems
        /\ record.externalIds \ {system} \in SUBSET Systems
    BY <1>0
  <2>3. record' \in Syncable
    BY <1>0, <1>5, <2>1, <2>2 DEF SetExternalId, RemoveExternalId, Syncable, R
  <2> QED  BY <1>5, <2>3 DEF SetExternalId, RemoveExternalId
<1>6. ASSUME NEW d \in Data, NEW by \in Callers, ChangeDatum(d, by) PROVE SyncTypeOK'
  <2> DEFINE altered == [record EXCEPT !.datum = d, !.root = MarkUpdated(@, by, clock)]
  <2>1. altered \in Syncable /\ altered.syncVersion < MaxSyncVersion
    BY <1>0, <1>1, <1>6 DEF ChangeDatum, Syncable, R
  <2>2. altered.root \in R /\ altered.syncVersion \in 1 .. MaxSyncVersion
    BY <2>1 DEF Syncable, R
  <2>3. MarkUpdated(altered.root, Nobody, clock) \in R
    BY <1>1, <2>2 DEF Callers
  <2>4. altered.syncVersion + 1 \in 1 .. MaxSyncVersion
    BY <2>1, <2>2
  <2> HIDE DEF altered
  <2>5. MarkSyncRequired(altered, clock) \in Syncable
    BY <2>1, <2>3, <2>4 DEF MarkSyncRequired, Syncable, SyncStatus, R
  <2> QED  BY <1>6, <2>5 DEF ChangeDatum, altered
<1>7. CASE TakeForSync
  BY <1>0, <1>7 DEF TakeForSync
<1>8. CASE Send
  BY <1>0, <1>8 DEF Send
<1>9. CASE MarkSynced
  BY <1>0, <1>1, <1>9 DEF MarkSynced, Syncable, SyncStatus, Callers, R
<1>10. CASE MarkSyncFailed
  BY <1>0, <1>1, <1>10 DEF MarkSyncFailed, Syncable, SyncStatus, Callers, R
<1>11. CASE UNCHANGED syncVars
  BY <1>11 DEF syncVars
<1> QED
  BY <1>2, <1>3, <1>4, <1>5, <1>6, <1>7, <1>8, <1>9, <1>10, <1>11 DEF SyncNext

\* The aggregate, the worker and the external system keep their types.
THEOREM SyncTypeCorrect == SyncSpec => []SyncTypeOK
<1> USE SyncBoundsAssumption, OptionsAssumption
<1>1. SyncInit => SyncTypeOK
  <2>1. Root \in RootType({}, Actors, 0 .. MaxClock)
    BY DEF Root, RootType, Never
  <2>2. NewSyncable.datum \in Data
    <3>1. \E d \in Data : TRUE
      OBVIOUS
    <3>2. (CHOOSE d \in Data : TRUE) \in Data
      BY <3>1
    <3> QED  BY <3>2 DEF NewSyncable
  <2>3. /\ 0 \in 0 .. MaxClock /\ 1 \in 1 .. MaxSyncVersion /\ 1 \in 1 .. MaxClock
        /\ {} \in SUBSET Systems
    OBVIOUS
  <2>4. NewSyncable \in Syncable
    BY <2>1, <2>2, <2>3 DEF NewSyncable, Syncable, SyncStatus, Never
  <2> QED  BY <2>3, <2>4 DEF SyncInit, SyncTypeOK
<1> QED  BY <1>1, SyncTypeStep, PTL DEF SyncSpec

-----------------------------------------------------------------------------
(* A sync that is done. *)

\* What is being sent is the datum unless it was changed since, and nothing
\* that is being sent is taken for synced.
Underway ==
    sending # NoDatum =>
        /\ record.status # "SYNCED"
        /\ ~overtaken => sending = record.datum

\* Whatever fails and is retried, SYNCED means that the external system has the
\* datum, unless it was changed on the way (syncable.aggregate-root.ts:153).
THEOREM SyncedWasSent == SyncSpec => []SyncedIsSent
<1> DEFINE IInv == SyncTypeOK /\ Underway /\ SyncedIsSent
<1>1. SyncInit => Underway /\ SyncedIsSent
  BY DEF SyncInit, Underway, SyncedIsSent, NewSyncable
<1>2. SyncTypeOK /\ Underway /\ SyncedIsSent /\ [SyncNext]_syncVars => (Underway /\ SyncedIsSent)'
  <2> SUFFICES ASSUME SyncTypeOK, Underway, SyncedIsSent, [SyncNext]_syncVars
               PROVE  (Underway /\ SyncedIsSent)'
    OBVIOUS
  <2> USE DEF Underway, SyncedIsSent
  <2>0. record = [record EXCEPT !.live = @] /\ record \in Syncable
    BY DEF SyncTypeOK, Syncable
  <2>1. CASE Tick
    BY <2>1 DEF Tick
  <2>2. CASE (\E by \in Actors : CreateRecord(by)) \/ AuditStep
             \/ (\E system \in Systems : SetExternalId(system) \/ RemoveExternalId(system))
    BY <2>0, <2>2 DEF CreateRecord, AuditStep, RootBecomes, SetExternalId, RemoveExternalId, Syncable
  <2>3. ASSUME NEW d \in Data, NEW by \in Callers, ChangeDatum(d, by)
        PROVE  (Underway /\ SyncedIsSent)'
    BY <2>0, <2>3 DEF ChangeDatum, MarkSyncRequired, Syncable
  <2>4. CASE TakeForSync
    BY <2>0, <2>4 DEF TakeForSync, NeedsSync
  <2>5. CASE Send
    BY <2>5 DEF Send
  <2>6. CASE MarkSynced
    BY <2>0, <2>6 DEF MarkSynced, Syncable
  <2>7. CASE MarkSyncFailed
    BY <2>0, <2>7 DEF MarkSyncFailed, Syncable
  <2>8. CASE UNCHANGED syncVars
    BY <2>8 DEF syncVars
  <2> QED
    BY <2>1, <2>2, <2>3, <2>4, <2>5, <2>6, <2>7, <2>8 DEF SyncNext
<1> QED  BY <1>1, <1>2, SyncTypeCorrect, PTL DEF SyncSpec

-----------------------------------------------------------------------------
(* The audit trail. *)

\* A root none of whose events was recorded, as a synchronised aggregate's is,
\* whose trail tells one story up to the time `now`.
TrailUntil(r, now) ==
    /\ r.version = 0 /\ r.committed = 0 /\ r.buffer = <<>>
    /\ r.createdAt <= r.updatedAt /\ r.updatedAt <= now
    /\ IsDeleted(r) => r.createdAt <= r.deletedAt /\ r.deletedAt <= r.updatedAt
    /\ ~IsDeleted(r) => r.deletedBy = Nobody

\* Until it is created an aggregate is untouched; from then on its trail is
\* consistent, and a sync is an update.
Trail ==
    /\ sending # NoDatum => record.live
    /\ ~record.live => record.root = Root /\ record.status = "SYNCED" /\ record.lastSyncedAt = Never
    /\ TrailUntil(record.root, clock)
    /\ record.lastSyncedAt <= record.root.updatedAt

\* Each method of the audit trail keeps it consistent and takes updatedAt to now.
LEMMA MethodsKeepTrail ==
    ASSUME NEW r \in RootType({}, Actors, 0 .. MaxClock), NEW now \in 1 .. MaxClock,
           NEW by \in Callers, TrailUntil(r, now)
    PROVE  /\ TrailUntil(MarkUpdated(r, by, now), now) /\ MarkUpdated(r, by, now).updatedAt = now
           /\ TrailUntil(SetUpdatedBy(r, by, now), now) /\ r.updatedAt <= SetUpdatedBy(r, by, now).updatedAt
           /\ TrailUntil(SoftDelete(r, by, now), now) /\ r.updatedAt <= SoftDelete(r, by, now).updatedAt
           /\ TrailUntil(Restore(r, now), now) /\ r.updatedAt <= Restore(r, now).updatedAt
<1> USE SyncBoundsAssumption, OptionsAssumption DEF TrailUntil, RootType, IsDeleted, Never
<1>1. TrailUntil(MarkUpdated(r, by, now), now) /\ MarkUpdated(r, by, now).updatedAt = now
  BY DEF MarkUpdated
<1>2. TrailUntil(SetUpdatedBy(r, by, now), now) /\ r.updatedAt <= SetUpdatedBy(r, by, now).updatedAt
  BY DEF SetUpdatedBy
<1>3. TrailUntil(SoftDelete(r, by, now), now) /\ r.updatedAt <= SoftDelete(r, by, now).updatedAt
  BY DEF SoftDelete
<1>4. TrailUntil(Restore(r, now), now) /\ r.updatedAt <= Restore(r, now).updatedAt
  BY DEF Restore
<1> QED  BY <1>1, <1>2, <1>3, <1>4

\* The audit trail of an aggregate is consistent, whoever touches, deletes,
\* restores or syncs it in whatever order (aggregate-root.ts:135-250).
THEOREM AuditTrailConsistent == SyncSpec => []AuditConsistent
<1> USE SyncBoundsAssumption
<1>1. SyncInit => Trail
  BY DEF SyncInit, Trail, TrailUntil, NewSyncable, Root, Never, IsDeleted
<1>2. SyncTypeOK /\ Trail /\ [SyncNext]_syncVars => Trail'
  <2> SUFFICES ASSUME SyncTypeOK, Trail, [SyncNext]_syncVars PROVE Trail'
    OBVIOUS
  <2> DEFINE R == RootType({}, Actors, 0 .. MaxClock)
  <2>0. /\ record \in [live : BOOLEAN, datum : Data, externalIds : SUBSET Systems,
                       status : SyncStatus, errorMessage : BOOLEAN,
                       lastSyncedAt : 0 .. MaxClock, syncVersion : 1 .. MaxSyncVersion, root : R]
        /\ record.root \in R /\ clock \in 1 .. MaxClock
        /\ record.lastSyncedAt \in 0 .. MaxClock /\ record.root.updatedAt \in 0 .. MaxClock
    BY DEF SyncTypeOK, Syncable, RootType
  <2>1. /\ TrailUntil(record.root, clock)
        /\ record.lastSyncedAt <= record.root.updatedAt
        /\ record.root.updatedAt <= clock
    BY DEF Trail, TrailUntil
  <2>t. ASSUME NEW by \in Callers
        PROVE  /\ TrailUntil(MarkUpdated(record.root, by, clock), clock)
               /\ MarkUpdated(record.root, by, clock).updatedAt = clock
    BY <2>0, <2>1, MethodsKeepTrail
  <2>2. CASE Tick
    BY <2>0, <2>1, <2>2 DEF Tick, Trail, TrailUntil, RootType
  <2>3. ASSUME NEW by \in Actors, CreateRecord(by) PROVE Trail'
    <3>1. /\ record.root = Root /\ record.lastSyncedAt = Never
          /\ record'.live /\ record'.lastSyncedAt = Never /\ clock' = clock
          /\ record'.root = SetCreatedBy(InitAuditTimestamps(Root, clock), by)
      BY <2>0, <2>3 DEF CreateRecord, Trail
    <3>2. /\ TrailUntil(record'.root, clock) /\ record'.root.updatedAt = clock
      BY <2>0, <3>1 DEF TrailUntil, SetCreatedBy, InitAuditTimestamps, Root, IsDeleted, Never
    <3> QED  BY <2>0, <3>1, <3>2 DEF Trail, Never
  <2>4. CASE AuditStep
    <3>1. PICK by \in Actors :
            \/ RootBecomes(SetUpdatedBy(record.root, by, clock))
            \/ RootBecomes(SoftDelete(record.root, by, clock))
            \/ RootBecomes(SoftDelete(record.root, Nobody, clock))
            \/ RootBecomes(Restore(record.root, clock))
      BY <2>4 DEF AuditStep
    <3>2. ASSUME NEW u \in Callers
          PROVE  /\ TrailUntil(SetUpdatedBy(record.root, u, clock), clock)
                 /\ record.root.updatedAt <= SetUpdatedBy(record.root, u, clock).updatedAt
                 /\ TrailUntil(SoftDelete(record.root, u, clock), clock)
                 /\ record.root.updatedAt <= SoftDelete(record.root, u, clock).updatedAt
                 /\ TrailUntil(Restore(record.root, clock), clock)
                 /\ record.root.updatedAt <= Restore(record.root, clock).updatedAt
      BY <2>0, <2>1, MethodsKeepTrail
    <3>3. /\ TrailUntil(record'.root, clock) /\ record.root.updatedAt <= record'.root.updatedAt
          /\ record' = [record EXCEPT !.root = record'.root]
      BY <2>0, <3>1, <3>2 DEF RootBecomes, Callers
    <3>4. record'.root.updatedAt \in 0 .. MaxClock
      BY <2>4, SyncTypeStep DEF SyncTypeOK, Syncable, RootType, SyncNext
    <3> QED  BY <2>0, <2>1, <2>4, <3>1, <3>3, <3>4 DEF Trail, AuditStep, RootBecomes
  <2>5. ASSUME NEW system \in Systems, SetExternalId(system) \/ RemoveExternalId(system)
        PROVE  Trail'
    <3>1. /\ record.live /\ record'.live /\ record'.lastSyncedAt = record.lastSyncedAt
          /\ record'.root = MarkUpdated(record.root, Nobody, clock)
          /\ clock' = clock /\ sending' = sending
      BY <2>0, <2>5 DEF SetExternalId, RemoveExternalId
    <3>2. TrailUntil(record'.root, clock) /\ record'.root.updatedAt = clock
      BY <2>t, <3>1 DEF Callers
    <3> QED  BY <2>0, <2>1, <3>1, <3>2 DEF Trail
  <2>6. ASSUME NEW d \in Data, NEW by \in Callers, ChangeDatum(d, by) PROVE Trail'
    <3> DEFINE altered == [record EXCEPT !.datum = d, !.root = MarkUpdated(@, by, clock)]
    <3>1. /\ altered.root = MarkUpdated(record.root, by, clock)
          /\ altered.live /\ altered.lastSyncedAt = record.lastSyncedAt /\ altered.status = record.status
          /\ altered \in [live : BOOLEAN, datum : Data, externalIds : SUBSET Systems,
                          status : SyncStatus, errorMessage : BOOLEAN,
                          lastSyncedAt : 0 .. MaxClock, syncVersion : 1 .. MaxSyncVersion, root : {altered.root}]
      BY <2>0, <2>6 DEF ChangeDatum
    <3>2. TrailUntil(altered.root, clock) /\ altered.root.updatedAt = clock
      BY <2>t, <3>1
    <3>3. altered.root \in R
      <4>1. clock \in 0 .. MaxClock
        BY <2>0
      <4>2. MarkUpdated(record.root, by, clock) \in R
        BY <2>0, <4>1 DEF RootType, MarkUpdated, Tracked, Callers
      <4> QED  BY <3>1, <4>2
    <3>4. /\ TrailUntil(MarkUpdated(altered.root, Nobody, clock), clock)
          /\ MarkUpdated(altered.root, Nobody, clock).updatedAt = clock
      BY <2>0, <3>2, <3>3, MethodsKeepTrail DEF Callers
    <3> HIDE DEF altered
    <3>5. LET r == MarkSyncRequired(altered, clock) IN
          r.live /\ TrailUntil(r.root, clock) /\ r.root.updatedAt = clock
          /\ r.lastSyncedAt = record.lastSyncedAt
      BY <3>1, <3>2, <3>4 DEF MarkSyncRequired
    <3> QED  BY <2>0, <2>1, <2>6, <3>5 DEF ChangeDatum, Trail, altered
  <2>7. CASE TakeForSync
    BY <2>0, <2>7 DEF TakeForSync, NeedsSync, Trail
  <2>8. CASE Send
    BY <2>8 DEF Send, Trail
  <2>9. CASE MarkSynced
    BY <2>0, <2>1, <2>t, <2>9 DEF MarkSynced, Trail, Callers
  <2>10. CASE MarkSyncFailed
    BY <2>0, <2>1, <2>t, <2>10 DEF MarkSyncFailed, Trail, Callers
  <2>11. CASE UNCHANGED syncVars
    BY <2>11 DEF syncVars, Trail
  <2> QED
    BY <2>2, <2>3, <2>4, <2>5, <2>6, <2>7, <2>8, <2>9, <2>10, <2>11 DEF SyncNext
<1>3. SyncTypeOK /\ Trail => AuditConsistent
  BY DEF Trail, TrailUntil, AuditConsistent, RootConsistent
<1> QED  BY <1>1, <1>2, <1>3, SyncTypeCorrect, PTL DEF SyncSpec

-----------------------------------------------------------------------------
(* The pipeline: its pipes. *)

\* What is pushed of a pipe.
LEMMA PushedOne ==
    ASSUME NEW pipe
    PROVE  /\ pipe \in options => Pushed(pipe) = <<pipe>>
           /\ pipe \notin options => Pushed(pipe) = <<>>
BY DEF Pushed

LEMMA PushedType ==
    ASSUME NEW pipe \in Optional
    PROVE  /\ Pushed(pipe) \in Seq(Optional)
           /\ Len(Pushed(pipe)) = IF pipe \in options THEN 1 ELSE 0
           /\ \A i \in DOMAIN Pushed(pipe) : Pushed(pipe)[i] = pipe
BY DEF Pushed

\* Each pipe that is switched on is there once, and the metrics are the last.
PipesInOrder ==
    /\ Pipes \in Seq(Optional)
    /\ Len(Pipes) \in 0 .. 4
    /\ \A pipe \in Optional : pipe \in options => \E i \in DOMAIN Pipes : Pipes[i] = pipe
    /\ \A i, j \in DOMAIN Pipes : Pipes[i] = Pipes[j] => i = j
    /\ \A i \in DOMAIN Pipes : Pipes[i] = "MetricsPipe" => i = Len(Pipes)

LEMMA PipesAreInOrder == PipesInOrder
<1> DEFINE v == Pushed("ValidationPipe")
           a == Pushed("AuthorizationPipe")
           u == Pushed("AuditPipe")
           m == Pushed("MetricsPipe")
<1>1. /\ v \in Seq(Optional) /\ a \in Seq(Optional) /\ u \in Seq(Optional) /\ m \in Seq(Optional)
      /\ Len(v) = (IF "ValidationPipe" \in options THEN 1 ELSE 0)
      /\ Len(a) = (IF "AuthorizationPipe" \in options THEN 1 ELSE 0)
      /\ Len(u) = (IF "AuditPipe" \in options THEN 1 ELSE 0)
      /\ Len(m) = (IF "MetricsPipe" \in options THEN 1 ELSE 0)
  BY PushedType DEF Optional
<1>2. /\ \A i \in 1 .. Len(v) : v[i] = "ValidationPipe"
      /\ \A i \in 1 .. Len(a) : a[i] = "AuthorizationPipe"
      /\ \A i \in 1 .. Len(u) : u[i] = "AuditPipe"
      /\ \A i \in 1 .. Len(m) : m[i] = "MetricsPipe"
  BY <1>1, PushedType DEF Optional
<1> HIDE DEF v, a, u, m
<1>3. Pipes = ((v \o a) \o u) \o m
  BY DEF Pipes, v, a, u, m
<1> DEFINE va == v \o a
           vau == va \o u
<1>4. /\ va \in Seq(Optional) /\ Len(va) = Len(v) + Len(a)
      /\ \A i \in 1 .. Len(va) : va[i] = IF i <= Len(v) THEN v[i] ELSE a[i - Len(v)]
  BY <1>1, ConcatProperties
<1> HIDE DEF va
<1>5. /\ vau \in Seq(Optional) /\ Len(vau) = Len(va) + Len(u)
      /\ \A i \in 1 .. Len(vau) : vau[i] = IF i <= Len(va) THEN va[i] ELSE u[i - Len(va)]
  <2>1. /\ va \o u \in Seq(Optional) /\ Len(va \o u) = Len(va) + Len(u)
        /\ \A i \in 1 .. Len(va) + Len(u) :
             (va \o u)[i] = IF i <= Len(va) THEN va[i] ELSE u[i - Len(va)]
    BY <1>1, <1>4, ConcatProperties
  <2> QED  BY <2>1
<1>6. Pipes = vau \o m
  BY <1>3 DEF va
<1> HIDE DEF vau
<1>7. /\ Pipes \in Seq(Optional) /\ Len(Pipes) = Len(vau) + Len(m)
      /\ \A i \in 1 .. Len(Pipes) : Pipes[i] = IF i <= Len(vau) THEN vau[i] ELSE m[i - Len(vau)]
  <2>1. /\ vau \o m \in Seq(Optional) /\ Len(vau \o m) = Len(vau) + Len(m)
        /\ \A i \in 1 .. Len(vau) + Len(m) :
             (vau \o m)[i] = IF i <= Len(vau) THEN vau[i] ELSE m[i - Len(vau)]
    BY <1>1, <1>5, ConcatProperties
  <2> QED  BY <1>6, <2>1
<1>8. \A i \in 1 .. Len(Pipes) :
        Pipes[i] = IF i <= Len(v) THEN "ValidationPipe"
                   ELSE IF i <= Len(v) + Len(a) THEN "AuthorizationPipe"
                   ELSE IF i <= Len(v) + Len(a) + Len(u) THEN "AuditPipe"
                   ELSE "MetricsPipe"
  <2> SUFFICES ASSUME NEW i \in 1 .. Len(Pipes)
               PROVE  Pipes[i] = IF i <= Len(v) THEN "ValidationPipe"
                                 ELSE IF i <= Len(v) + Len(a) THEN "AuthorizationPipe"
                                 ELSE IF i <= Len(v) + Len(a) + Len(u) THEN "AuditPipe"
                                 ELSE "MetricsPipe"
    OBVIOUS
  <2>0. Len(v) \in Nat /\ Len(a) \in Nat /\ Len(u) \in Nat /\ Len(m) \in Nat /\ i \in Nat /\ i >= 1
    BY <1>1, <1>7
  <2>1. CASE i <= Len(v)
    <3>1. i \in 1 .. Len(v) /\ i \in 1 .. Len(va) /\ i \in 1 .. Len(vau)
      BY <1>4, <1>5, <2>0, <2>1
    <3>2. Pipes[i] = vau[i] /\ vau[i] = va[i] /\ va[i] = v[i]
      BY <1>4, <1>5, <1>7, <2>0, <2>1, <3>1
    <3> QED  BY <1>2, <2>1, <3>1, <3>2
  <2>2. CASE i > Len(v) /\ i <= Len(v) + Len(a)
    <3>1. i - Len(v) \in 1 .. Len(a)
      BY <2>0, <2>2
    <3>2. i \in 1 .. Len(va) /\ i \in 1 .. Len(vau)
      BY <1>4, <1>5, <2>0, <2>2
    <3>3. Pipes[i] = vau[i] /\ vau[i] = va[i] /\ va[i] = a[i - Len(v)]
      BY <1>4, <1>5, <1>7, <2>0, <2>2, <3>2
    <3> QED  BY <1>2, <2>0, <2>2, <3>1, <3>3
  <2>3. CASE i > Len(v) + Len(a) /\ i <= Len(v) + Len(a) + Len(u)
    <3>1. i - Len(va) \in 1 .. Len(u)
      BY <1>4, <2>0, <2>3
    <3>2. i \in 1 .. Len(vau) /\ ~(i <= Len(va))
      BY <1>4, <1>5, <2>0, <2>3
    <3>3. Pipes[i] = vau[i] /\ vau[i] = u[i - Len(va)]
      BY <1>5, <1>7, <2>0, <3>2
    <3> QED  BY <1>2, <2>0, <2>3, <3>1, <3>3
  <2>4. CASE i > Len(v) + Len(a) + Len(u)
    <3>1. i - Len(vau) \in 1 .. Len(m)
      BY <1>4, <1>5, <1>7, <2>0, <2>4
    <3>2. ~(i <= Len(vau)) /\ ~(i <= Len(v)) /\ ~(i <= Len(v) + Len(a))
      BY <1>4, <1>5, <2>0, <2>4
    <3>3. Pipes[i] = m[i - Len(vau)]
      BY <1>7, <3>2
    <3> QED  BY <1>2, <2>4, <3>1, <3>2, <3>3
  <2> QED  BY <2>0, <2>1, <2>2, <2>3, <2>4
<1>9. Len(Pipes) = Len(v) + Len(a) + Len(u) + Len(m) /\ DOMAIN Pipes = 1 .. Len(Pipes)
  BY <1>1, <1>4, <1>5, <1>7
<1>10. Len(Pipes) \in 0 .. 4
  BY <1>1, <1>9
<1>11. \A i, j \in DOMAIN Pipes : Pipes[i] = Pipes[j] => i = j
  BY <1>1, <1>8, <1>9
<1>12. \A i \in DOMAIN Pipes : Pipes[i] = "MetricsPipe" => i = Len(Pipes)
  BY <1>1, <1>8, <1>9
<1>13. \A pipe \in Optional : pipe \in options => \E i \in DOMAIN Pipes : Pipes[i] = pipe
  <2>1. "ValidationPipe" \in options => \E i \in DOMAIN Pipes : Pipes[i] = "ValidationPipe"
    <3> SUFFICES ASSUME "ValidationPipe" \in options
                 PROVE  1 \in 1 .. Len(Pipes) /\ 1 <= Len(v)
      BY <1>8, <1>9
    <3> QED  BY <1>1, <1>9
  <2>2. "AuthorizationPipe" \in options => \E i \in DOMAIN Pipes : Pipes[i] = "AuthorizationPipe"
    <3> DEFINE i == Len(v) + 1
    <3> SUFFICES ASSUME "AuthorizationPipe" \in options
                 PROVE  i \in 1 .. Len(Pipes) /\ ~(i <= Len(v)) /\ i <= Len(v) + Len(a)
      BY <1>8, <1>9
    <3> QED  BY <1>1, <1>9
  <2>3. "AuditPipe" \in options => \E i \in DOMAIN Pipes : Pipes[i] = "AuditPipe"
    <3> DEFINE i == Len(v) + Len(a) + 1
    <3> SUFFICES ASSUME "AuditPipe" \in options
                 PROVE  /\ i \in 1 .. Len(Pipes) /\ ~(i <= Len(v)) /\ ~(i <= Len(v) + Len(a))
                        /\ i <= Len(v) + Len(a) + Len(u)
      BY <1>8, <1>9
    <3> QED  BY <1>1, <1>9
  <2>4. "MetricsPipe" \in options => \E i \in DOMAIN Pipes : Pipes[i] = "MetricsPipe"
    <3> DEFINE i == Len(v) + Len(a) + Len(u) + 1
    <3> SUFFICES ASSUME "MetricsPipe" \in options
                 PROVE  /\ i \in 1 .. Len(Pipes) /\ ~(i <= Len(v)) /\ ~(i <= Len(v) + Len(a))
                        /\ ~(i <= Len(v) + Len(a) + Len(u))
      BY <1>8, <1>9
    <3> QED  BY <1>1, <1>9
  <2> QED  BY <2>1, <2>2, <2>3, <2>4 DEF Optional
<1> QED  BY <1>7, <1>10, <1>11, <1>12, <1>13 DEF PipesInOrder

-----------------------------------------------------------------------------
(* Types. *)

Executions == [phase : {"idle", "down", "up", "done"}, at : 0 .. 5, outcome : Outcome, request : Requests]

LEMMA UnstartedType == Unstarted \in Executions /\ Unasked \in Requests
<1>1. \E t \in CommandTypes : TRUE
  BY CommandTypesAssumption
<1>2. (CHOOSE t \in CommandTypes : TRUE) \in CommandTypes
  BY <1>1
<1>3. Unasked \in Requests
  BY <1>2 DEF Unasked, Requests
<1> QED  BY <1>3 DEF Unstarted, Executions, Outcome

\* A command that moves keeps its request; the others are left alone.
LEMMA MovesOne ==
    ASSUME PipelineTypeOK, NEW c \in Commands, NEW phase \in {"idle", "down", "up", "done"},
           NEW at \in 0 .. 5, NEW outcome \in Outcome, Moves(c, phase, at, outcome)
    PROVE  /\ execution' \in [Commands -> Executions]
           /\ execution'[c].phase = phase
           /\ execution'[c].at = at
           /\ execution'[c].outcome = outcome
           /\ execution'[c].request = execution[c].request
           /\ \A d \in Commands \ {c} : execution'[d] = execution[d]
<1> DEFINE moved == [execution[c] EXCEPT !.phase = phase, !.at = at, !.outcome = outcome]
<1>1. execution \in [Commands -> Executions]
  BY DEF PipelineTypeOK, Executions
<1>2. execution[c] \in Executions
  BY <1>1
<1>3. /\ moved \in Executions
      /\ moved.phase = phase /\ moved.at = at /\ moved.outcome = outcome
      /\ moved.request = execution[c].request
  BY <1>2 DEF Executions
<1>4. execution' = [execution EXCEPT ![c] = moved]
  BY <1>1 DEF Moves
<1> HIDE DEF moved
<1> QED  BY <1>1, <1>3, <1>4

-----------------------------------------------------------------------------
(* A command. *)

\* Before its handler runs a command has passed the pipes above it; after that the
\* audit has its entry as soon as the command has left the audit's pipe, and what
\* it says is not changed further down, as the collector of metrics throws before.
Passing(c) ==
    LET e == execution[c] IN
    /\ e.phase = "idle" => handled[c] = 0
    /\ e.phase = "down" =>
         /\ e.at \in 1 .. Len(Pipes) + 1
         /\ handled[c] = 0
         /\ \A i \in DOMAIN Pipes : i < e.at => Admits(Pipes[i], e.request)
    /\ e.phase \in {"idle", "down"} => audit[c] = <<>>
    /\ e.phase = "up" => e.at \in 0 .. Len(Pipes)
    /\ handled[c] # 0 =>
         /\ handled[c] = 1
         /\ \A i \in DOMAIN Pipes : Admits(Pipes[i], e.request)
         /\ e.phase = "up" =>
              /\ (\E i \in DOMAIN Pipes : i > e.at /\ Pipes[i] = "AuditPipe")
                     => audit[c] = <<e.outcome>>
              /\ (\A i \in DOMAIN Pipes : Pipes[i] = "AuditPipe" => i <= e.at)
                     => audit[c] = <<>>
         /\ e.phase = "done" /\ "AuditPipe" \in options => audit[c] = <<e.outcome>>

\* What is not about a command.
StartTyped ==
    /\ providers \in ProviderLists
    /\ options \subseteq Optional
    /\ explored \in 0 .. Len(providers)
    /\ registered \subseteq Handlers
    /\ startup \in {"starting", "started", "refused"}

\* Nothing is switched on or off after the start.
LEMMA PipesStay == options' = options => Pipes' = Pipes
  BY DEF Pipes, Pushed

LEMMA OthersPass ==
    ASSUME options' = options, NEW d \in Commands, Passing(d),
           execution'[d] = execution[d], handled'[d] = handled[d], audit'[d] = audit[d]
    PROVE  Passing(d)'
  BY PipesStay DEF Passing, Admits, Validates, Permits

\* The start touches no command.
LEMMA StartKeepsCommands ==
    ASSUME PipelineTypeOK, \A c \in Commands : Passing(c), ExploreAndRegister \/ Started
    PROVE  PipelineTypeOK' /\ \A c \in Commands : Passing(c)'
<1>1. UNCHANGED <<providers, options, execution, handled, audit, metrics>>
  BY DEF ExploreAndRegister, Started
<1>2. \A c \in Commands : Passing(c)'
  BY <1>1, OthersPass
<1>3. providers \in Seq(Handlers)
  BY ProvidersAssumption DEF PipelineTypeOK
<1>4. CASE ExploreAndRegister
  <2>1. explored' \in 1 .. Len(providers)
    BY <1>3, <1>4 DEF ExploreAndRegister, PipelineTypeOK
  <2>2. providers[explored'] \in Handlers
    BY <1>3, <2>1
  <2>3. StartTyped'
    BY <1>1, <1>4, <2>1, <2>2 DEF ExploreAndRegister, PipelineTypeOK, StartTyped
  <2> QED  BY <1>1, <1>2, <2>3 DEF PipelineTypeOK, StartTyped
<1>5. CASE Started
  BY <1>1, <1>2, <1>5 DEF Started, PipelineTypeOK
<1> QED  BY <1>4, <1>5

\* One command takes a step: what it leaves is typed and passes on the way.
Steps(c) ==
    /\ UNCHANGED <<providers, options, explored, registered, startup>>
    /\ execution' \in [Commands -> Executions]
    /\ handled' \in [Commands -> Nat]
    /\ audit' \in [Commands -> Seq(Outcome)]
    /\ metrics' \in [Commands -> Seq(Outcome)]
    /\ \A d \in Commands \ {c} :
         execution'[d] = execution[d] /\ handled'[d] = handled[d] /\ audit'[d] = audit[d]

LEMMA CommandKeeps ==
    ASSUME PipelineTypeOK, \A d \in Commands : Passing(d), NEW c \in Commands, Steps(c), Passing(c)'
    PROVE  PipelineTypeOK' /\ \A d \in Commands : Passing(d)'
<1>1. PipelineTypeOK'
  BY DEF Steps, PipelineTypeOK, Executions
<1>2. ASSUME NEW d \in Commands \ {c} PROVE Passing(d)'
  BY OthersPass DEF Steps
<1> QED  BY <1>1, <1>2

\* An entry is added to the log of one command.
LEMMA LogGrows ==
    ASSUME NEW log \in [Commands -> Seq(Outcome)], NEW c \in Commands, NEW outcome \in Outcome
    PROVE  LET longer == [log EXCEPT ![c] = Append(@, outcome)] IN
           /\ longer \in [Commands -> Seq(Outcome)]
           /\ longer[c] = Append(log[c], outcome)
           /\ \A d \in Commands \ {c} : longer[d] = log[d]
<1>1. log[c] \in Seq(Outcome)
  OBVIOUS
<1>2. Append(log[c], outcome) \in Seq(Outcome)
  BY <1>1
<1> QED  BY <1>2

LEMMA CommandStep ==
    ASSUME PipelineTypeOK, NEW c \in Commands, Passing(c),
           \/ \E request \in Requests : Execute(c, request)
           \/ EnterPipe(c)
           \/ \E outcome \in Outcome : RunHandler(c, outcome)
           \/ LeavePipe(c)
           \/ CollectorThrows(c)
           \/ Return(c)
    PROVE  Steps(c) /\ Passing(c)'
<1> DEFINE e == execution[c]
<1>0. /\ execution \in [Commands -> Executions] /\ e \in Executions
      /\ e.phase \in {"idle", "down", "up", "done"} /\ e.at \in 0 .. 5 /\ e.outcome \in Outcome
      /\ handled \in [Commands -> Nat] /\ audit \in [Commands -> Seq(Outcome)]
      /\ metrics \in [Commands -> Seq(Outcome)]
  BY DEF PipelineTypeOK, Executions
<1>p. /\ Len(Pipes) \in 0 .. 4 /\ DOMAIN Pipes = 1 .. Len(Pipes)
      /\ \A i, j \in DOMAIN Pipes : Pipes[i] = Pipes[j] => i = j
      /\ \A i \in DOMAIN Pipes : Pipes[i] = "MetricsPipe" => i = Len(Pipes)
      /\ "AuditPipe" \in options => \E i \in DOMAIN Pipes : Pipes[i] = "AuditPipe"
  BY PipesAreInOrder DEF PipesInOrder, Optional
<1>s. "success" \in Outcome /\ "error" \in Outcome
  BY DEF Outcome
<1>1. ASSUME NEW request \in Requests, Execute(c, request) PROVE Steps(c) /\ Passing(c)'
  <2>1. PICK r \in Executions : r.phase \in {"down", "done"} /\ (r.phase = "down" => r.at = 1)
                                 /\ execution' = [execution EXCEPT ![c] = r]
    <3>1. [phase |-> "down", at |-> 1, outcome |-> "success", request |-> request] \in Executions
      BY <1>s DEF Executions
    <3>2. [phase |-> "done", at |-> 0, outcome |-> "error", request |-> request] \in Executions
      BY <1>s DEF Executions
    <3> QED  BY <1>1, <3>1, <3>2 DEF Execute
  <2>2. e.phase = "idle" /\ UNCHANGED <<providers, options, explored, registered, startup, handled, audit, metrics>>
    BY <1>1 DEF Execute, In
  <2>3. Steps(c)
    BY <1>0, <2>1, <2>2 DEF Steps
  <2>4. handled[c] = 0 /\ audit[c] = <<>>
    BY <2>2 DEF Passing
  <2>5. execution'[c] = r /\ Pipes' = Pipes
    BY <1>0, <2>1, <2>2, PipesStay
  <2>6. Passing(c)'
    BY <1>p, <2>1, <2>2, <2>4, <2>5 DEF Passing
  <2> QED  BY <2>3, <2>6
<1>2. CASE EnterPipe(c)
  <2>1. /\ e.phase = "down" /\ e.at \in 1 .. Len(Pipes)
        /\ UNCHANGED <<providers, options, explored, registered, startup, handled, audit, metrics>>
    BY <1>p, <1>2 DEF EnterPipe, In, Passing
  <2>2. Pipes' = Pipes /\ handled[c] = 0 /\ audit[c] = <<>> /\ handled'[c] = 0 /\ audit'[c] = <<>>
    BY <2>1, PipesStay DEF Passing
  <2>3. CASE Admits(Pipes[e.at], e.request)
    <3>1. Moves(c, "down", e.at + 1, "success") /\ e.at + 1 \in 0 .. 5
      BY <1>p, <1>2, <2>1, <2>3 DEF EnterPipe
    <3>2. /\ execution' \in [Commands -> Executions]
          /\ execution'[c].phase = "down" /\ execution'[c].at = e.at + 1
          /\ execution'[c].request = e.request
          /\ \A d \in Commands \ {c} : execution'[d] = execution[d]
      BY <1>s, <3>1, MovesOne
    <3>3. Steps(c)
      BY <1>0, <2>1, <3>2 DEF Steps
    <3>4. \A i \in DOMAIN Pipes : i < e.at + 1 => Admits(Pipes[i], e.request)
      BY <1>p, <2>1, <2>3 DEF Passing
    <3>5. \A i \in DOMAIN Pipes' : i < execution'[c].at => Admits(Pipes'[i], execution'[c].request)
      BY <2>2, <3>2, <3>4
    <3>6. Passing(c)'
      BY <1>p, <2>1, <2>2, <3>2, <3>5 DEF Passing, Admits, Validates, Permits
    <3> QED  BY <3>3, <3>6
  <2>4. CASE ~Admits(Pipes[e.at], e.request)
    <3>1. Moves(c, "up", e.at - 1, "error") /\ e.at - 1 \in 0 .. 5
      BY <1>p, <1>2, <2>1, <2>4 DEF EnterPipe
    <3>2. /\ execution' \in [Commands -> Executions]
          /\ execution'[c].phase = "up" /\ execution'[c].at = e.at - 1
          /\ \A d \in Commands \ {c} : execution'[d] = execution[d]
      BY <1>s, <3>1, MovesOne
    <3>3. Steps(c)
      BY <1>0, <2>1, <3>2 DEF Steps
    <3>4. Passing(c)'
      BY <1>p, <2>1, <2>2, <3>2 DEF Passing
    <3> QED  BY <3>3, <3>4
  <2> QED  BY <2>3, <2>4
<1>3. ASSUME NEW outcome \in Outcome, RunHandler(c, outcome) PROVE Steps(c) /\ Passing(c)'
  <2>1. /\ e.phase = "down" /\ e.at = Len(Pipes) + 1
        /\ UNCHANGED <<providers, options, explored, registered, startup, audit, metrics>>
        /\ Moves(c, "up", Len(Pipes), outcome) /\ Len(Pipes) \in 0 .. 5
    BY <1>p, <1>3 DEF RunHandler, In
  <2>2. Pipes' = Pipes /\ handled[c] = 0 /\ audit'[c] = <<>>
    BY <2>1, PipesStay DEF Passing
  <2>3. /\ handled' \in [Commands -> Nat] /\ handled'[c] = 1
        /\ \A d \in Commands \ {c} : handled'[d] = handled[d]
    BY <1>0, <1>3, <2>2 DEF RunHandler
  <2>4. /\ execution' \in [Commands -> Executions]
        /\ execution'[c].phase = "up" /\ execution'[c].at = Len(Pipes)
        /\ execution'[c].request = e.request
        /\ \A d \in Commands \ {c} : execution'[d] = execution[d]
    BY <2>1, MovesOne
  <2>5. Steps(c)
    BY <1>0, <2>1, <2>3, <2>4 DEF Steps
  <2>6. \A i \in DOMAIN Pipes : Admits(Pipes[i], e.request)
    BY <1>p, <2>1 DEF Passing
  <2>7. \A i \in DOMAIN Pipes' : Admits(Pipes'[i], execution'[c].request)
    BY <2>2, <2>4, <2>6
  <2>8. ~ \E i \in DOMAIN Pipes' : i > execution'[c].at
    BY <1>p, <2>2, <2>4
  <2>9. Passing(c)'
    BY <1>p, <2>2, <2>3, <2>4, <2>7, <2>8 DEF Passing, Admits, Validates, Permits
  <2> QED  BY <2>5, <2>9
<1>4. CASE LeavePipe(c)
  <2>1. /\ e.phase = "up" /\ e.at \in 1 .. Len(Pipes) /\ e.at - 1 \in 0 .. 5
        /\ UNCHANGED <<providers, options, explored, registered, startup, handled>>
        /\ Moves(c, "up", e.at - 1, e.outcome)
    BY <1>0, <1>p, <1>4 DEF LeavePipe, In, Passing
  <2>2. Pipes' = Pipes /\ handled'[c] = handled[c]
    BY <2>1, PipesStay
  <2>3. /\ execution' \in [Commands -> Executions]
        /\ execution'[c].phase = "up" /\ execution'[c].at = e.at - 1
        /\ execution'[c].outcome = e.outcome /\ execution'[c].request = e.request
        /\ \A d \in Commands \ {c} : execution'[d] = execution[d]
    BY <1>0, <2>1, MovesOne
  <2>4. /\ audit' \in [Commands -> Seq(Outcome)] /\ metrics' \in [Commands -> Seq(Outcome)]
        /\ \A d \in Commands \ {c} : audit'[d] = audit[d]
        /\ audit'[c] = IF Pipes[e.at] = "AuditPipe" THEN Append(audit[c], e.outcome) ELSE audit[c]
    <3>1. CASE Pipes[e.at] = "AuditPipe"
      <4>1. audit' = [audit EXCEPT ![c] = Append(@, e.outcome)]
        BY <1>4, <3>1 DEF LeavePipe, Audits
      <4>2. metrics' = metrics
        BY <1>4, <3>1 DEF LeavePipe
      <4> QED  BY <1>0, <3>1, <4>1, <4>2, LogGrows
    <3>2. CASE Pipes[e.at] # "AuditPipe"
      <4>1. audit' = audit
        BY <1>4, <3>2 DEF LeavePipe
      <4>2. metrics' = metrics \/ metrics' = [metrics EXCEPT ![c] = Append(@, e.outcome)]
        BY <1>4 DEF LeavePipe, Collects
      <4>3. metrics' \in [Commands -> Seq(Outcome)]
        <5>1. [metrics EXCEPT ![c] = Append(@, e.outcome)] \in [Commands -> Seq(Outcome)]
          BY <1>0, LogGrows
        <5> QED  BY <1>0, <4>2, <5>1
      <4> QED  BY <1>0, <3>2, <4>1, <4>3
    <3> QED  BY <3>1, <3>2
  <2>5. Steps(c)
    BY <1>0, <2>1, <2>3, <2>4 DEF Steps
  <2>6. handled[c] # 0 => handled[c] = 1 /\ \A i \in DOMAIN Pipes' : Admits(Pipes'[i], execution'[c].request)
    BY <2>2, <2>3 DEF Passing
  <2>7. ASSUME handled[c] # 0
        PROVE  /\ (\E i \in DOMAIN Pipes : i > e.at - 1 /\ Pipes[i] = "AuditPipe")
                      => audit'[c] = <<e.outcome>>
               /\ (\A i \in DOMAIN Pipes : Pipes[i] = "AuditPipe" => i <= e.at - 1)
                      => audit'[c] = <<>>
    <3>1. /\ (\E i \in DOMAIN Pipes : i > e.at /\ Pipes[i] = "AuditPipe") => audit[c] = <<e.outcome>>
          /\ (\A i \in DOMAIN Pipes : Pipes[i] = "AuditPipe" => i <= e.at) => audit[c] = <<>>
      BY <2>1, <2>7 DEF Passing
    <3>2. CASE Pipes[e.at] = "AuditPipe"
      <4>1. audit[c] = <<>>
        BY <1>p, <2>1, <3>1, <3>2
      <4>2. audit'[c] = <<e.outcome>>
        BY <2>4, <3>2, <4>1
      <4> QED  BY <1>p, <2>1, <3>2, <4>2
    <3>3. CASE Pipes[e.at] # "AuditPipe"
      <4>1. audit'[c] = audit[c]
        BY <2>4, <3>3
      <4>2. \A i \in DOMAIN Pipes : Pipes[i] = "AuditPipe" => (i > e.at - 1 <=> i > e.at)
        BY <1>p, <2>1, <3>3
      <4>3. \A i \in DOMAIN Pipes : (i <= e.at <=> ~(i > e.at)) /\ (i <= e.at - 1 <=> ~(i > e.at - 1))
        BY <1>p, <2>1
      <4> QED  BY <3>1, <4>1, <4>2, <4>3
    <3> QED  BY <3>2, <3>3
  <2>8. Passing(c)'
    BY <1>p, <2>1, <2>2, <2>3, <2>6, <2>7 DEF Passing, Admits, Validates, Permits
  <2> QED  BY <2>5, <2>8
<1>5. CASE CollectorThrows(c)
  <2>1. /\ e.phase = "up" /\ e.at \in 1 .. Len(Pipes) /\ e.at - 1 \in 0 .. 5
        /\ Pipes[e.at] = "MetricsPipe"
        /\ UNCHANGED <<providers, options, explored, registered, startup, handled, audit>>
        /\ Moves(c, "up", e.at - 1, "error")
    BY <1>0, <1>p, <1>5 DEF CollectorThrows, In, Passing
  <2>2. Pipes' = Pipes /\ handled'[c] = handled[c] /\ audit'[c] = audit[c]
    BY <2>1, PipesStay
  <2>3. /\ execution' \in [Commands -> Executions]
        /\ execution'[c].phase = "up" /\ execution'[c].at = e.at - 1
        /\ execution'[c].outcome = "error" /\ execution'[c].request = e.request
        /\ \A d \in Commands \ {c} : execution'[d] = execution[d]
    BY <1>s, <2>1, MovesOne
  <2>4. metrics' \in [Commands -> Seq(Outcome)]
    <3>1. metrics' = metrics \/ metrics' = [metrics EXCEPT ![c] = Append(@, "error")]
      BY <1>5 DEF CollectorThrows, Collects
    <3>2. [metrics EXCEPT ![c] = Append(@, "error")] \in [Commands -> Seq(Outcome)]
      BY <1>0, <1>s, LogGrows
    <3> QED  BY <1>0, <3>1, <3>2
  <2>5. Steps(c)
    BY <1>0, <2>1, <2>3, <2>4 DEF Steps
  <2>6. handled[c] # 0 => handled[c] = 1 /\ \A i \in DOMAIN Pipes' : Admits(Pipes'[i], execution'[c].request)
    BY <2>2, <2>3 DEF Passing
  <2>7. /\ e.at = Len(Pipes)
        /\ \A i \in DOMAIN Pipes : Pipes[i] = "AuditPipe" => i <= e.at /\ ~(i > e.at - 1)
    BY <1>p, <2>1
  <2>8. handled[c] # 0 => audit[c] = <<>>
    BY <2>1, <2>7 DEF Passing
  <2>9. Passing(c)'
    BY <1>p, <2>1, <2>2, <2>3, <2>6, <2>7, <2>8 DEF Passing, Admits, Validates, Permits
  <2> QED  BY <2>5, <2>9
<1>6. CASE Return(c)
  <2>1. /\ e.phase = "up" /\ e.at = 0
        /\ UNCHANGED <<providers, options, explored, registered, startup, handled, audit, metrics>>
        /\ Moves(c, "done", 0, e.outcome)
    BY <1>6 DEF Return, In
  <2>2. Pipes' = Pipes /\ handled'[c] = handled[c] /\ audit'[c] = audit[c]
    BY <2>1, PipesStay
  <2>3. /\ execution' \in [Commands -> Executions]
        /\ execution'[c].phase = "done"
        /\ execution'[c].outcome = e.outcome /\ execution'[c].request = e.request
        /\ \A d \in Commands \ {c} : execution'[d] = execution[d]
    BY <1>0, <2>1, MovesOne
  <2>4. Steps(c)
    BY <1>0, <2>1, <2>3 DEF Steps
  <2>5. handled[c] # 0 => handled[c] = 1 /\ \A i \in DOMAIN Pipes' : Admits(Pipes'[i], execution'[c].request)
    BY <2>2, <2>3 DEF Passing
  <2>6. ASSUME handled[c] # 0, "AuditPipe" \in options PROVE audit[c] = <<e.outcome>>
    <3>1. \E i \in DOMAIN Pipes : i > e.at /\ Pipes[i] = "AuditPipe"
      BY <1>p, <2>1, <2>6
    <3> QED  BY <2>1, <2>6, <3>1 DEF Passing
  <2>7. Passing(c)'
    BY <2>1, <2>2, <2>3, <2>5, <2>6 DEF Passing, Admits, Validates, Permits
  <2> QED  BY <2>4, <2>7
<1> QED  BY <1>1, <1>2, <1>3, <1>4, <1>5, <1>6

LEMMA InitialPipeline == PipelineInit => PipelineTypeOK /\ \A c \in Commands : Passing(c)
<1> SUFFICES ASSUME PipelineInit PROVE PipelineTypeOK /\ \A c \in Commands : Passing(c)
  OBVIOUS
<1>1. \A c \in Commands : execution[c] = Unstarted /\ handled[c] = 0 /\ audit[c] = <<>>
  BY DEF PipelineInit
<1>2. execution \in [Commands -> Executions]
  BY UnstartedType DEF PipelineInit
<1>3. 0 \in 0 .. Len(providers)
  BY ProvidersAssumption DEF PipelineInit
<1>4. PipelineTypeOK
  <2>1. <<>> \in Seq(Outcome)
    OBVIOUS
  <2> QED  BY <1>2, <1>3, <2>1 DEF PipelineInit, PipelineTypeOK, Executions
<1>5. ASSUME NEW c \in Commands PROVE Passing(c)
  BY <1>1 DEF Passing, Unstarted
<1> QED  BY <1>4, <1>5

LEMMA PipelineStep ==
    ASSUME PipelineTypeOK, \A c \in Commands : Passing(c), [PipelineNext]_pipelineVars
    PROVE  PipelineTypeOK' /\ \A c \in Commands : Passing(c)'
<1>1. CASE ExploreAndRegister \/ Started
  BY <1>1, StartKeepsCommands
<1>2. ASSUME NEW c \in Commands,
             \/ \E request \in Requests : Execute(c, request)
             \/ EnterPipe(c)
             \/ \E outcome \in Outcome : RunHandler(c, outcome)
             \/ LeavePipe(c)
             \/ CollectorThrows(c)
             \/ Return(c)
      PROVE  PipelineTypeOK' /\ \A d \in Commands : Passing(d)'
  <2>1. Steps(c) /\ Passing(c)'
    BY <1>2, CommandStep
  <2> QED  BY <2>1, CommandKeeps
<1>3. CASE UNCHANGED pipelineVars
  <2>1. \A c \in Commands : Passing(c)'
    BY <1>3, OthersPass DEF pipelineVars
  <2> QED  BY <1>3, <2>1 DEF pipelineVars, PipelineTypeOK
<1> QED  BY <1>1, <1>2, <1>3 DEF PipelineNext

PipelineInv == PipelineTypeOK /\ \A c \in Commands : Passing(c)

LEMMA AlwaysPassing == PipelineSpec => []PipelineInv
<1>1. PipelineInit => PipelineInv
  BY InitialPipeline DEF PipelineInv
<1>2. PipelineInv /\ [PipelineNext]_pipelineVars => PipelineInv'
  BY PipelineStep DEF PipelineInv
<1> QED  BY <1>1, <1>2, PTL DEF PipelineSpec

\* The buses and the pipes keep their types.
THEOREM PipelineTypeCorrect == PipelineSpec => []PipelineTypeOK
<1>1. PipelineInv => PipelineTypeOK
  BY DEF PipelineInv
<1> QED  BY <1>1, AlwaysPassing, PTL

\* Whatever pipes are switched on, whatever the collector of metrics does and
\* however commands run beside one another, a handler runs once at most and only
\* for a command that may, and the audit then says what the caller was told
\* (cqrs.module.ts:78, audit.pipe.ts, metrics.pipe.ts).
THEOREM AuditAlwaysTells == PipelineSpec => []AuditTellsCaller
<1>1. PipelineInv => AuditTellsCaller
  <2> SUFFICES ASSUME PipelineInv, NEW c \in Commands, handled[c] > 0
               PROVE  /\ handled[c] = 1
                      /\ "ValidationPipe" \in options => execution[c].request.dto # "invalid"
                      /\ "AuthorizationPipe" \in options => execution[c].request.permission # "denied"
                      /\ execution[c].phase = "done" /\ "AuditPipe" \in options =>
                             audit[c] = <<execution[c].outcome>>
    BY DEF AuditTellsCaller
  <2>1. handled[c] # 0 /\ Passing(c)
    BY DEF PipelineInv, PipelineTypeOK
  <2>2. \A i \in DOMAIN Pipes : Admits(Pipes[i], execution[c].request)
    BY <2>1 DEF Passing
  <2>3. /\ "ValidationPipe" \in options => \E i \in DOMAIN Pipes : Pipes[i] = "ValidationPipe"
        /\ "AuthorizationPipe" \in options => \E i \in DOMAIN Pipes : Pipes[i] = "AuthorizationPipe"
    BY PipesAreInOrder DEF PipesInOrder, Optional
  <2>4. /\ "ValidationPipe" \in options => execution[c].request.dto # "invalid"
        /\ "AuthorizationPipe" \in options => execution[c].request.permission # "denied"
    BY <2>2, <2>3 DEF Admits, Validates, Permits
  <2> QED  BY <2>1, <2>4 DEF Passing
<1> QED  BY <1>1, AlwaysPassing, PTL

-----------------------------------------------------------------------------
(* The start. *)

\* What has been explored is registered, each type by one provider.
Registered ==
    startup # "refused" =>
        /\ registered = {providers[i] : i \in 1 .. explored}
        /\ \A i, j \in 1 .. explored : providers[i] = providers[j] => i = j

\* An application that has started has one handler of each type on each bus, those its
\* modules provide.
OneHandlerEach ==
    startup = "started" =>
        /\ registered = {providers[i] : i \in DOMAIN providers}
        /\ \A i, j \in DOMAIN providers : providers[i] = providers[j] => i = j

\* Started, an application has for each type of command or query exactly one of
\* the providers of its modules (explorer.service.ts, registerHandler of the buses).
THEOREM HandlersUnique == PipelineSpec => []OneHandlerEach
<1> DEFINE Inv == Registered /\ (startup = "started" => explored = Len(providers))
<1>1. PipelineInit => Inv
  BY DEF PipelineInit, Registered
<1>2. PipelineInv /\ Inv /\ [PipelineNext]_pipelineVars => Inv'
  <2> SUFFICES ASSUME PipelineInv, Inv, [PipelineNext]_pipelineVars PROVE Inv'
    OBVIOUS
  <2>1. CASE ExploreAndRegister
    <3>1. explored \in Nat /\ explored' = explored + 1 /\ providers' = providers /\ startup = "starting"
      BY <2>1 DEF ExploreAndRegister, PipelineInv, PipelineTypeOK
    <3>2. 1 .. explored' = (1 .. explored) \cup {explored'}
      BY <3>1
    <3>3. CASE startup' = "refused"
      BY <3>3 DEF Registered
    <3>4. CASE providers[explored'] \notin registered /\ startup' = startup
               /\ registered' = registered \cup {providers[explored']}
      <4>1. /\ registered = {providers[i] : i \in 1 .. explored}
            /\ \A i, j \in 1 .. explored : providers[i] = providers[j] => i = j
        BY <3>1 DEF Registered
      <4>2. \A i \in 1 .. explored : providers[i] # providers[explored']
        BY <3>4, <4>1
      <4>3. registered' = {providers'[i] : i \in 1 .. explored'}
        BY <3>1, <3>2, <3>4, <4>1
      <4>4. \A i, j \in 1 .. explored' : providers'[i] = providers'[j] => i = j
        BY <3>1, <3>2, <4>1, <4>2
      <4> QED  BY <3>1, <3>4, <4>3, <4>4 DEF Registered
    <3> QED  BY <2>1, <3>3, <3>4 DEF ExploreAndRegister
  <2>2. CASE Started
    BY <2>2 DEF Started, Registered
  <2>3. CASE UNCHANGED <<providers, explored, registered, startup>>
    BY <2>3 DEF Registered
  <2> QED
    BY <2>1, <2>2, <2>3 DEF PipelineNext, Execute, EnterPipe, RunHandler, LeavePipe,
         CollectorThrows, Return, pipelineVars
<1>3. PipelineInv /\ Inv => OneHandlerEach
  <2> SUFFICES ASSUME PipelineInv, Inv, startup = "started"
               PROVE  /\ registered = {providers[i] : i \in DOMAIN providers}
                      /\ \A i, j \in DOMAIN providers : providers[i] = providers[j] => i = j
    BY DEF OneHandlerEach
  <2>1. DOMAIN providers = 1 .. Len(providers)
    BY ProvidersAssumption DEF PipelineInv, PipelineTypeOK
  <2> QED  BY <2>1 DEF Registered
<1> HIDE DEF Inv
<1> QED  BY <1>1, <1>2, <1>3, AlwaysPassing, PTL DEF PipelineSpec

-----------------------------------------------------------------------------
(* The context of requests. *)

Begun(r) == http[r].phase # "idle"

\* A store knows its own request's user, and its tenant is the header's until
\* the request creates one.
StoresRight ==
    \A r \in HttpRequests :
        /\ cls[r].user \in {http[r].session, Unset}
        /\ http[r].route # "POST tenants" => cls[r].tenant = http[r].header
        /\ http[r].phase = "saved" => cls[r].tenant = r

\* Nothing is known of a request before it comes.
IdleUnknown == \A r \in HttpRequests : ~Begun(r) => cls[r].user = Unset

MessagesRight ==
    \A m \in sent :
        /\ m.type = "TenantCreated" =>
               /\ m.about \in HttpRequests
               /\ Begun(m.about)
               /\ m.tenant = m.about
               /\ m.user \in {http[m.about].session, Unset}
        /\ m.type = "AuthUserSignedUp" => m.about \in People

RowsRight == \A row \in tenantRows : row[1] = row[2]

OwnersRight ==
    \A a \in roles : a[3] = "TenantOwner" =>
        /\ a[2] \in HttpRequests
        /\ Begun(a[2])
        /\ a[1] = http[a[2]].session
        /\ a[1] # Unset

\* Who has come past the policies owns the tenant.
AllowedRight ==
    \A r \in HttpRequests :
        http[r].phase \in {"allowed", "ready"} /\ http[r].route = "GET tenants/me" =>
            /\ cls[r].user # Unset
            /\ <<cls[r].user, cls[r].tenant, "TenantOwner">> \in roles

AnswersRight ==
    \A r \in HttpRequests : http[r].answer # Unset =>
        /\ Begun(r)
        /\ http[r].answer \in HttpRequests
        /\ Begun(http[r].answer)
        /\ http[r].answer = http[r].header
        /\ http[http[r].answer].session = http[r].session

ContextInv ==
    /\ ContextTypeOK
    /\ StoresRight /\ IdleUnknown /\ MessagesRight /\ RowsRight /\ OwnersRight /\ AllowedRight /\ AnswersRight

\* What a request is does not change once it has begun.
Steady ==
    \A r \in HttpRequests : Begun(r) =>
        /\ Begun(r)'
        /\ http'[r].session = http[r].session
        /\ http'[r].header = http[r].header
        /\ http'[r].route = http[r].route

LEMMA InitialContext == ContextInit => ContextInv
<1> SUFFICES ASSUME ContextInit PROVE ContextInv
  OBVIOUS
<1>1. \A r \in HttpRequests :
        /\ http[r].phase = "idle" /\ http[r].answer = Unset
        /\ http[r].route = "POST tenants"
        /\ cls[r].user = Unset
  BY DEF ContextInit
<1>2. ContextTypeOK
  <2>1. [phase |-> "idle", route |-> "POST tenants", header |-> Unset,
         session |-> Unset, answer |-> Unset] \in Http
    BY DEF Http, Routes, MaybeTenant, MaybeUser
  <2>2. [tenant |-> Unset, user |-> Unset] \in [tenant : MaybeTenant, user : MaybeUser]
    BY DEF MaybeTenant, MaybeUser
  <2> QED  BY <2>1, <2>2 DEF ContextInit, ContextTypeOK
<1>3. StoresRight
  BY <1>1 DEF StoresRight
<1>4. AllowedRight
  BY <1>1 DEF AllowedRight
<1>5. IdleUnknown /\ AnswersRight
  BY <1>1 DEF IdleUnknown, AnswersRight
<1>6. MessagesRight /\ RowsRight /\ OwnersRight
  BY DEF ContextInit, MessagesRight, RowsRight, OwnersRight
<1> QED  BY <1>2, <1>3, <1>4, <1>5, <1>6 DEF ContextInv

LEMMA SteadyKeeps ==
    ASSUME ContextInv, Steady
    PROVE  /\ UNCHANGED sent => MessagesRight'
           /\ UNCHANGED roles => OwnersRight'
           /\ (\A r \in HttpRequests : http'[r].answer = http[r].answer) => AnswersRight'
<1>1. UNCHANGED sent => MessagesRight'
  BY DEF ContextInv, MessagesRight, Steady
<1>2. UNCHANGED roles => OwnersRight'
  BY DEF ContextInv, OwnersRight, Steady
<1>3. (\A r \in HttpRequests : http'[r].answer = http[r].answer) => AnswersRight'
  BY DEF ContextInv, AnswersRight, Steady
<1> QED  BY <1>1, <1>2, <1>3

Phases == {"guarded", "known", "allowed", "ready", "saved", "refused", "done"}

\* A step that moves a request on.
LEMMA MoveIsSteady ==
    ASSUME ContextInv, NEW r \in HttpRequests, NEW p \in Phases, Begun(r), Goes(r, p)
    PROVE  /\ Steady
           /\ http' \in [HttpRequests -> Http]
           /\ \A q \in HttpRequests :
                /\ http'[q].session = http[q].session /\ http'[q].header = http[q].header
                /\ http'[q].route = http[q].route /\ http'[q].answer = http[q].answer
                /\ q # r => http'[q].phase = http[q].phase
           /\ http'[r].phase = p
<1>1. /\ http' \in [HttpRequests -> Http]
      /\ \A q \in HttpRequests : q # r => http'[q] = http[q]
      /\ http'[r] = [http[r] EXCEPT !.phase = p]
  BY DEF ContextInv, ContextTypeOK, Goes, Http, Phases
<1>2. /\ http'[r].phase = p /\ http'[r].session = http[r].session
      /\ http'[r].header = http[r].header /\ http'[r].route = http[r].route
      /\ http'[r].answer = http[r].answer
  BY <1>1 DEF ContextInv, ContextTypeOK, Http
<1>3. Steady
  BY <1>1, <1>2 DEF Steady, Begun, Phases
<1> QED  BY <1>1, <1>2, <1>3

\* The same when nothing else changes, and the phase asks nothing.
LEMMA MoveKeeps ==
    ASSUME ContextInv, NEW r \in HttpRequests, NEW p \in {"guarded", "refused"}, Begun(r),
           Goes(r, p), UNCHANGED <<cls, sent, tenantRows, roles>>
    PROVE  ContextInv'
<1>1. p \in Phases
  BY DEF Phases
<1>2. ContextTypeOK'
  BY <1>1, MoveIsSteady DEF ContextInv, ContextTypeOK
<1>3. StoresRight' /\ IdleUnknown'
  BY <1>1, MoveIsSteady DEF ContextInv, StoresRight, IdleUnknown, Begun
<1>4. AllowedRight'
  BY <1>1, MoveIsSteady DEF ContextInv, AllowedRight
<1>5. MessagesRight' /\ OwnersRight' /\ AnswersRight' /\ RowsRight'
  BY <1>1, MoveIsSteady, SteadyKeeps DEF ContextInv, RowsRight
<1> QED  BY <1>2, <1>3, <1>4, <1>5 DEF ContextInv

LEMMA SetupKeeps ==
    ASSUME ContextInv, NEW r \in HttpRequests, NEW route \in Routes, NEW header \in MaybeTenant,
           NEW session \in MaybeUser, Setup(r, route, header, session)
    PROVE  ContextInv'
<1>1. /\ http'[r] = [phase |-> "arrived", route |-> route, header |-> header,
                     session |-> session, answer |-> Unset]
      /\ cls'[r] = [cls[r] EXCEPT !.tenant = header]
      /\ \A q \in HttpRequests : q # r => http'[q] = http[q] /\ cls'[q] = cls[q]
      /\ ~Begun(r)
  BY DEF Setup, ContextInv, ContextTypeOK, At, Begun
<1>2. ContextTypeOK'
  <2>1. [phase |-> "arrived", route |-> route, header |-> header,
         session |-> session, answer |-> Unset] \in Http
    BY DEF Http, MaybeTenant
  <2>2. http' \in [HttpRequests -> Http]
    BY <2>1 DEF Setup, ContextInv, ContextTypeOK
  <2>3. cls' \in [HttpRequests -> [tenant : MaybeTenant, user : MaybeUser]]
    BY DEF Setup, ContextInv, ContextTypeOK
  <2> QED  BY <2>2, <2>3 DEF Setup, ContextInv, ContextTypeOK
<1>3. Steady
  BY <1>1 DEF Steady, Begun
<1>4. /\ cls'[r].user = Unset
      /\ cls'[r].tenant = header
      /\ http'[r].header = header /\ http'[r].phase = "arrived" /\ http'[r].answer = Unset
  BY <1>1 DEF ContextInv, ContextTypeOK, IdleUnknown, Begun
<1>5. StoresRight' /\ IdleUnknown'
  <2> SUFFICES ASSUME NEW q \in HttpRequests
               PROVE  /\ cls'[q].user \in {http'[q].session, Unset}
                      /\ http'[q].route # "POST tenants" => cls'[q].tenant = http'[q].header
                      /\ http'[q].phase = "saved" => cls'[q].tenant = q
                      /\ http'[q].phase = "idle" => cls'[q].user = Unset
    BY DEF StoresRight, IdleUnknown, Begun
  <2>1. CASE q = r
    BY <2>1, <1>4
  <2>2. CASE q # r
    BY <2>2, <1>1 DEF ContextInv, StoresRight, IdleUnknown, Begun
  <2> QED  BY <2>1, <2>2
<1>6. AllowedRight'
  <2> SUFFICES ASSUME NEW q \in HttpRequests, http'[q].phase \in {"allowed", "ready"},
                      http'[q].route = "GET tenants/me"
               PROVE  /\ cls'[q].user # Unset
                      /\ <<cls'[q].user, cls'[q].tenant, "TenantOwner">> \in roles'
    BY DEF AllowedRight
  <2>1. q # r
    BY <1>4
  <2>2. http'[q] = http[q] /\ cls'[q] = cls[q] /\ roles' = roles
    BY <2>1, <1>1 DEF Setup
  <2> QED  BY <2>2 DEF ContextInv, AllowedRight
<1>7. AnswersRight'
  <2> SUFFICES ASSUME NEW q \in HttpRequests, http'[q].answer # Unset
               PROVE  /\ Begun(q)'
                      /\ http'[q].answer \in HttpRequests
                      /\ Begun(http[q].answer)'
                      /\ http'[q].answer = http'[q].header
                      /\ http'[http'[q].answer].session = http'[q].session
    BY DEF AnswersRight
  <2>1. q # r /\ http'[q] = http[q]
    BY <1>1, <1>4
  <2>2. /\ Begun(q) /\ http[q].answer \in HttpRequests /\ Begun(http[q].answer)
        /\ http[q].answer = http[q].header
        /\ http[http[q].answer].session = http[q].session
    BY <2>1 DEF ContextInv, AnswersRight
  <2> QED  BY <2>1, <2>2, <1>3 DEF Steady, Begun
<1>8. MessagesRight' /\ OwnersRight' /\ RowsRight'
  BY <1>3, SteadyKeeps DEF Setup, ContextInv, RowsRight
<1> QED  BY <1>2, <1>5, <1>6, <1>7, <1>8 DEF ContextInv

\* The session tells a store its user, once.
LEMMA SessionFacts ==
    ASSUME ContextInv, NEW r \in HttpRequests, TrySetUserIdFromSession(r)
    PROVE  /\ cls' \in [HttpRequests -> [tenant : MaybeTenant, user : MaybeUser]]
           /\ \A q \in HttpRequests : /\ cls'[q].tenant = cls[q].tenant
                                      /\ q # r => cls'[q].user = cls[q].user
           /\ cls'[r].user \in {http[r].session, Unset}
           /\ cls[r].user # Unset => cls'[r].user = cls[r].user
<1>1. cls[r].user \in {http[r].session, Unset} /\ http[r].session \in MaybeUser
  BY DEF ContextInv, ContextTypeOK, StoresRight, Http
<1>2. CASE cls[r].user # Unset
  BY <1>1, <1>2 DEF TrySetUserIdFromSession, ContextInv, ContextTypeOK
<1>3. CASE cls[r].user = Unset
  <2>1. PICK user \in {http[r].session, Unset} : cls' = [cls EXCEPT ![r].user = user]
    BY <1>3 DEF TrySetUserIdFromSession
  <2>2. user \in MaybeUser
    BY <1>1, <2>1 DEF MaybeUser
  <2> QED  BY <1>3, <2>1, <2>2 DEF ContextInv, ContextTypeOK
<1> QED  BY <1>2, <1>3

LEMMA SessionKeeps ==
    ASSUME ContextInv, NEW r \in HttpRequests, NEW p \in {"known", "ready"}, Begun(r),
           Goes(r, p), TrySetUserIdFromSession(r), UNCHANGED <<sent, tenantRows, roles>>,
           p = "ready" => http[r].route = "POST tenants" \/ http[r].phase = "allowed"
    PROVE  ContextInv'
<1>1. p \in Phases
  BY DEF Phases
<1>2. ContextTypeOK'
  BY <1>1, MoveIsSteady, SessionFacts DEF ContextInv, ContextTypeOK
<1>6. /\ \A q \in HttpRequests :
          /\ http'[q].session = http[q].session /\ http'[q].header = http[q].header
          /\ http'[q].route = http[q].route
          /\ q # r => http'[q].phase = http[q].phase
      /\ http'[r].phase = p
  BY <1>1, MoveIsSteady
<1>7. /\ \A q \in HttpRequests : /\ cls'[q].tenant = cls[q].tenant
                                 /\ q # r => cls'[q].user = cls[q].user
      /\ cls'[r].user \in {http[r].session, Unset}
      /\ cls[r].user # Unset => cls'[r].user = cls[r].user
  BY SessionFacts
<1>3. StoresRight' /\ IdleUnknown'
  <2> SUFFICES ASSUME NEW q \in HttpRequests
               PROVE  /\ cls'[q].user \in {http'[q].session, Unset}
                      /\ http'[q].route # "POST tenants" => cls'[q].tenant = http'[q].header
                      /\ http'[q].phase = "saved" => cls'[q].tenant = q
                      /\ http'[q].phase = "idle" => cls'[q].user = Unset
    BY DEF StoresRight, IdleUnknown, Begun
  <2>1. CASE q = r
    BY <2>1, <1>6, <1>7 DEF ContextInv, StoresRight
  <2>2. CASE q # r
    BY <2>2, <1>6, <1>7 DEF ContextInv, StoresRight, IdleUnknown, Begun
  <2> QED  BY <2>1, <2>2
<1>4. AllowedRight'
  <2> SUFFICES ASSUME NEW q \in HttpRequests, http'[q].phase \in {"allowed", "ready"},
                      http'[q].route = "GET tenants/me"
               PROVE  /\ cls'[q].user # Unset
                      /\ <<cls'[q].user, cls'[q].tenant, "TenantOwner">> \in roles'
    BY DEF AllowedRight
  <2>1. /\ http[q].phase \in {"allowed", "ready"} /\ http[q].route = "GET tenants/me"
    BY <1>6
  <2>2. cls[q].user # Unset /\ <<cls[q].user, cls[q].tenant, "TenantOwner">> \in roles
    BY <2>1 DEF ContextInv, AllowedRight
  <2> QED  BY <2>2, <1>7
<1>5. MessagesRight' /\ OwnersRight' /\ AnswersRight' /\ RowsRight'
  BY <1>1, MoveIsSteady, SteadyKeeps DEF ContextInv, RowsRight
<1> QED  BY <1>2, <1>3, <1>4, <1>5 DEF ContextInv

LEMMA PoliciesKeep ==
    ASSUME ContextInv, NEW r \in HttpRequests, PoliciesGuard(r)
    PROVE  ContextInv'
<1>1. Begun(r)
  BY DEF PoliciesGuard, At, Begun
<1>2. CASE Goes(r, "refused")
  BY <1>1, <1>2, MoveKeeps DEF PoliciesGuard
<1>3. CASE ~Goes(r, "refused")
  <2>1. /\ Goes(r, "allowed") /\ UNCHANGED <<cls, sent, tenantRows, roles>>
        /\ cls[r].user # Unset
        /\ <<"manage", "Tenant", cls[r].tenant>> \in Ability(cls[r].user, cls[r].tenant)
    BY <1>3 DEF PoliciesGuard
  <2>2. <<cls[r].user, cls[r].tenant, "TenantOwner">> \in roles
    BY <2>1 DEF Ability, ContextInv, ContextTypeOK
  <2>3. "allowed" \in Phases
    BY DEF Phases
  <2>4. ContextTypeOK'
    BY <1>1, <2>1, <2>3, MoveIsSteady DEF ContextInv, ContextTypeOK
  <2>5. StoresRight' /\ IdleUnknown'
    BY <1>1, <2>1, <2>3, MoveIsSteady DEF ContextInv, StoresRight, IdleUnknown, Begun
  <2>6. AllowedRight'
    BY <1>1, <2>1, <2>2, <2>3, MoveIsSteady DEF ContextInv, AllowedRight
  <2>7. MessagesRight' /\ OwnersRight' /\ AnswersRight' /\ RowsRight'
    BY <1>1, <2>1, <2>3, MoveIsSteady, SteadyKeeps DEF ContextInv, RowsRight
  <2> QED  BY <2>4, <2>5, <2>6, <2>7 DEF ContextInv
<1> QED  BY <1>2, <1>3

\* Whoever is answered owns the tenant, so its creator is the one who asks.
LEMMA GetMeKeeps ==
    ASSUME ContextInv, NEW r \in HttpRequests, GetMe(r)
    PROVE  ContextInv'
<1>1. PICK answer \in Found(cls[r].tenant) :
          http' = [http EXCEPT ![r].phase = "done", ![r].answer = answer]
  BY DEF GetMe
<1>2. /\ UNCHANGED <<cls, sent, tenantRows, roles>>
      /\ http[r].phase = "ready" /\ http[r].route = "GET tenants/me"
  BY DEF GetMe, At, On
<1>3. /\ cls[r].user # Unset
      /\ cls[r].user = http[r].session
      /\ cls[r].tenant = http[r].header
      /\ <<cls[r].user, cls[r].tenant, "TenantOwner">> \in roles
  BY <1>2 DEF ContextInv, AllowedRight, StoresRight
<1>4. /\ cls[r].tenant \in HttpRequests /\ Begun(cls[r].tenant)
      /\ http[cls[r].tenant].session = http[r].session
  BY <1>3 DEF ContextInv, OwnersRight
<1>5. answer \in {cls[r].tenant, Unset}
  BY <1>1 DEF Found, ContextInv, RowsRight
<1>6. answer \in MaybeTenant
  BY <1>4, <1>5 DEF MaybeTenant
<1>7. /\ http' \in [HttpRequests -> Http]
      /\ \A q \in HttpRequests : q # r => http'[q] = http[q]
      /\ http'[r] = [http[r] EXCEPT !.phase = "done", !.answer = answer]
  BY <1>1, <1>6 DEF ContextInv, ContextTypeOK, Http
<1>8. /\ http'[r].phase = "done" /\ http'[r].session = http[r].session
      /\ http'[r].header = http[r].header /\ http'[r].route = http[r].route
      /\ http'[r].answer = answer
  BY <1>7 DEF ContextInv, ContextTypeOK, Http
<1>9. Steady
  BY <1>7, <1>8 DEF Steady, Begun
<1>10. ContextTypeOK'
  BY <1>2, <1>7 DEF ContextInv, ContextTypeOK
<1>11. StoresRight' /\ IdleUnknown'
  BY <1>2, <1>7, <1>8 DEF ContextInv, StoresRight, IdleUnknown, Begun
<1>12. AllowedRight'
  BY <1>2, <1>7, <1>8 DEF ContextInv, AllowedRight
<1>13. MessagesRight' /\ OwnersRight' /\ RowsRight'
  BY <1>2, <1>9, SteadyKeeps DEF ContextInv, RowsRight
<1>14. AnswersRight'
  <2> SUFFICES ASSUME NEW q \in HttpRequests, http'[q].answer # Unset
               PROVE  /\ Begun(q)'
                      /\ http'[q].answer \in HttpRequests
                      /\ Begun(http[q].answer)'
                      /\ http'[q].answer = http'[q].header
                      /\ http'[http'[q].answer].session = http'[q].session
    BY DEF AnswersRight
  <2>1. CASE q = r
    BY <2>1, <1>2, <1>3, <1>4, <1>5, <1>8, <1>9 DEF Steady, Begun
  <2>2. CASE q # r
    BY <2>2, <1>7, <1>9 DEF ContextInv, AnswersRight, Steady, Begun
  <2> QED  BY <2>1, <2>2
<1> QED  BY <1>10, <1>11, <1>12, <1>13, <1>14 DEF ContextInv

LEMMA CreateKeeps ==
    ASSUME ContextInv, NEW r \in HttpRequests, ExecuteCreateTenant(r)
    PROVE  ContextInv'
<1>1. /\ cls' = [cls EXCEPT ![r].tenant = r] /\ Goes(r, "saved")
      /\ UNCHANGED <<sent, tenantRows, roles>>
      /\ http[r].route = "POST tenants" /\ Begun(r) /\ "saved" \in Phases
  BY DEF ExecuteCreateTenant, At, On, Begun, Phases
<1>2. /\ cls' \in [HttpRequests -> [tenant : MaybeTenant, user : MaybeUser]]
      /\ cls'[r].tenant = r
      /\ \A q \in HttpRequests : /\ cls'[q].user = cls[q].user
                                 /\ q # r => cls'[q].tenant = cls[q].tenant
  BY <1>1 DEF ContextInv, ContextTypeOK, MaybeTenant
<1>3. ContextTypeOK'
  BY <1>1, <1>2, MoveIsSteady DEF ContextInv, ContextTypeOK
<1>7. /\ \A q \in HttpRequests :
          /\ http'[q].session = http[q].session /\ http'[q].header = http[q].header
          /\ http'[q].route = http[q].route
          /\ q # r => http'[q].phase = http[q].phase
      /\ http'[r].phase = "saved"
  BY <1>1, MoveIsSteady
<1>4. StoresRight' /\ IdleUnknown'
  <2> SUFFICES ASSUME NEW q \in HttpRequests
               PROVE  /\ cls'[q].user \in {http'[q].session, Unset}
                      /\ http'[q].route # "POST tenants" => cls'[q].tenant = http'[q].header
                      /\ http'[q].phase = "saved" => cls'[q].tenant = q
                      /\ http'[q].phase = "idle" => cls'[q].user = Unset
    BY DEF StoresRight, IdleUnknown, Begun
  <2>1. CASE q = r
    BY <2>1, <1>1, <1>2, <1>7 DEF ContextInv, StoresRight
  <2>2. CASE q # r
    BY <2>2, <1>2, <1>7 DEF ContextInv, StoresRight, IdleUnknown, Begun
  <2> QED  BY <2>1, <2>2
<1>5. AllowedRight'
  BY <1>1, <1>2, <1>7 DEF ContextInv, AllowedRight
<1>6. MessagesRight' /\ OwnersRight' /\ AnswersRight' /\ RowsRight'
  BY <1>1, MoveIsSteady, SteadyKeeps DEF ContextInv, RowsRight
<1> QED  BY <1>3, <1>4, <1>5, <1>6 DEF ContextInv

\* What the outbox makes of an envelope that leaves tenant and user open.
LEMMA AppendedMessage ==
    ASSUME ContextInv, NEW r \in HttpRequests, NEW type \in {"TenantCreated", "AuthUserSignedUp"},
           NEW about \in HttpRequests \cup People, AppendWithContext(r, Envelope(type, about))
    PROVE  \E m \in Message :
               /\ sent' = sent \cup {m}
               /\ m.type = type /\ m.about = about
               /\ m.tenant = cls[r].tenant /\ m.user = cls[r].user
<1> DEFINE m == [type |-> type, about |-> about, tenant |-> cls[r].tenant, user |-> cls[r].user]
<1>1. cls[r].tenant \in MaybeTenant /\ cls[r].user \in MaybeUser
  BY DEF ContextInv, ContextTypeOK
<1>2. sent' = sent \cup {m}
  BY DEF AppendWithContext, Envelope
<1>3. m \in Message
  BY <1>1 DEF Message
<1> QED  BY <1>2, <1>3

LEMMA AppendKeeps ==
    ASSUME ContextInv, NEW r \in HttpRequests, NEW type \in {"TenantCreated", "AuthUserSignedUp"},
           NEW about \in HttpRequests \cup People, AppendWithContext(r, Envelope(type, about)),
           Begun(r), Goes(r, "done"), UNCHANGED <<cls, tenantRows, roles>>,
           type = "TenantCreated" => about = r /\ http[r].phase = "saved",
           type = "AuthUserSignedUp" => about \in People
    PROVE  ContextInv'
<1>1. "done" \in Phases
  BY DEF Phases
<1>2. PICK m \in Message :
          /\ sent' = sent \cup {m}
          /\ m.type = type /\ m.about = about
          /\ m.tenant = cls[r].tenant /\ m.user = cls[r].user
  BY AppendedMessage
<1>3. ContextTypeOK'
  BY <1>1, <1>2, MoveIsSteady DEF ContextInv, ContextTypeOK
<1>4. StoresRight' /\ IdleUnknown'
  BY <1>1, MoveIsSteady DEF ContextInv, StoresRight, IdleUnknown, Begun
<1>5. AllowedRight'
  BY <1>1, MoveIsSteady DEF ContextInv, AllowedRight
<1>6. OwnersRight' /\ AnswersRight' /\ RowsRight'
  BY <1>1, MoveIsSteady, SteadyKeeps DEF ContextInv, RowsRight
<1>7. Steady
  BY <1>1, MoveIsSteady
<1>8. MessagesRight'
  <2> SUFFICES ASSUME NEW x \in sent'
               PROVE  /\ x.type = "TenantCreated" =>
                             /\ x.about \in HttpRequests
                             /\ Begun(x.about)'
                             /\ x.tenant = x.about
                             /\ x.user \in {http'[x.about].session, Unset}
                      /\ x.type = "AuthUserSignedUp" => x.about \in People
    BY DEF MessagesRight
  <2>1. CASE x \in sent
    BY <2>1, <1>7 DEF ContextInv, MessagesRight, Steady
  <2>2. CASE x = m
    BY <2>2, <1>2, <1>7 DEF ContextInv, StoresRight, Steady
  <2> QED  BY <1>2, <2>1, <2>2
<1> QED  BY <1>3, <1>4, <1>5, <1>6, <1>8 DEF ContextInv

LEMMA SubscribersKeep ==
    ASSUME ContextInv, NEW m \in sent,
           HandleTenantCreated(m) \/ OnTenantCreated(m) \/ OnAuthUserSignedUp(m)
    PROVE  ContextInv'
<1>1. m \in Message
  BY DEF ContextInv, ContextTypeOK
<1>2. CASE HandleTenantCreated(m)
  <2>1. /\ m.tenant \in HttpRequests /\ m.about = m.tenant
        /\ UNCHANGED <<http, cls, sent, roles>>
        /\ tenantRows' = {row \in tenantRows : row[1] # m.tenant} \cup {<<m.tenant, m.about>>}
    BY <1>2 DEF HandleTenantCreated, OnTheBus, ContextInv, MessagesRight
  <2>2. ContextTypeOK'
    BY <2>1 DEF ContextInv, ContextTypeOK
  <2>3. RowsRight'
    BY <2>1 DEF ContextInv, RowsRight
  <2> QED  BY <2>1, <2>2, <2>3
           DEF ContextInv, StoresRight, IdleUnknown, MessagesRight, OwnersRight, AllowedRight,
               AnswersRight, Begun
<1>3. CASE OnTenantCreated(m)
  <2>1. /\ m.type = "TenantCreated" /\ m.user # Unset
        /\ roles' = roles \cup {<<m.user, m.tenant, "TenantOwner">>}
        /\ UNCHANGED <<http, cls, sent, tenantRows>>
    BY <1>3 DEF OnTenantCreated, OnTheBus
  <2>2. /\ m.tenant \in HttpRequests /\ Begun(m.tenant) /\ m.user = http[m.tenant].session
        /\ m.user \in People
    BY <1>1, <2>1 DEF ContextInv, MessagesRight, Message, MaybeUser
  <2>3. ContextTypeOK'
    BY <2>1, <2>2 DEF ContextInv, ContextTypeOK, MaybeTenant
  <2>4. OwnersRight'
    BY <2>1, <2>2 DEF ContextInv, OwnersRight, Begun
  <2>5. AllowedRight'
    BY <2>1 DEF ContextInv, AllowedRight
  <2> QED  BY <2>1, <2>3, <2>4, <2>5
           DEF ContextInv, StoresRight, IdleUnknown, MessagesRight, RowsRight, AnswersRight, Begun
<1>4. CASE OnAuthUserSignedUp(m)
  <2>1. /\ roles' = roles \cup {<<m.about, Unset, "PlatformAdmin">>}
        /\ UNCHANGED <<http, cls, sent, tenantRows>>
        /\ m.about \in People
    BY <1>4 DEF OnAuthUserSignedUp, ContextInv, MessagesRight
  <2>2. ContextTypeOK'
    BY <2>1 DEF ContextInv, ContextTypeOK, MaybeTenant
  <2>4. OwnersRight'
    BY <2>1 DEF ContextInv, OwnersRight, Begun
  <2>5. AllowedRight'
    BY <2>1 DEF ContextInv, AllowedRight
  <2> QED  BY <2>1, <2>2, <2>4, <2>5
           DEF ContextInv, StoresRight, IdleUnknown, MessagesRight, RowsRight, AnswersRight, Begun
<1> QED  BY <1>2, <1>3, <1>4

LEMMA ContextStep == ContextInv /\ [ContextNext]_contextVars => ContextInv'
<1> SUFFICES ASSUME ContextInv, [ContextNext]_contextVars PROVE ContextInv'
  OBVIOUS
<1>1. CASE UNCHANGED contextVars
  BY <1>1 DEF contextVars, ContextInv, ContextTypeOK, StoresRight, IdleUnknown, MessagesRight,
     RowsRight, OwnersRight, AllowedRight, AnswersRight, Begun
<1>2. ASSUME NEW r \in HttpRequests, NEW route \in Routes, NEW header \in MaybeTenant,
             NEW session \in MaybeUser, Setup(r, route, header, session)
      PROVE  ContextInv'
  BY <1>2, SetupKeeps
<1>3. ASSUME NEW r \in HttpRequests, TenantRequiredGuard(r) PROVE ContextInv'
  <2>1. Begun(r) /\ UNCHANGED <<cls, sent, tenantRows, roles>>
    BY <1>3 DEF TenantRequiredGuard, At, Begun
  <2>2. Goes(r, "refused") \/ Goes(r, "guarded")
    BY <1>3 DEF TenantRequiredGuard
  <2> QED  BY <2>1, <2>2, MoveKeeps
<1>4. ASSUME NEW r \in HttpRequests, AuthSessionGuard(r) PROVE ContextInv'
  BY <1>4, SessionKeeps DEF AuthSessionGuard, At, Begun
<1>5. ASSUME NEW r \in HttpRequests, AuthContextInterceptor(r) PROVE ContextInv'
  BY <1>5, SessionKeeps DEF AuthContextInterceptor, At, On, Begun
<1>6. ASSUME NEW r \in HttpRequests, AppendTenantCreated(r) PROVE ContextInv'
  BY <1>6, AppendKeeps DEF AppendTenantCreated, At, Begun
<1>8. ASSUME NEW r \in HttpRequests, CreateTenantFails(r) PROVE ContextInv'
  BY <1>8, MoveKeeps DEF CreateTenantFails, At, Begun
<1>7. ASSUME NEW r \in HttpRequests, TryAppendAuthSignedUpEvent(r) PROVE ContextInv'
  <2>1. http[r].session \in People
    BY <1>7 DEF TryAppendAuthSignedUpEvent, ContextInv, ContextTypeOK, Http, MaybeUser
  <2> QED  BY <1>7, <2>1, AppendKeeps DEF TryAppendAuthSignedUpEvent, At, Begun
<1> QED
  BY <1>1, <1>2, <1>3, <1>4, <1>5, <1>6, <1>7, <1>8, PoliciesKeep, GetMeKeeps, CreateKeeps,
     SubscribersKeep
  DEF ContextNext

LEMMA ContextSafe == ContextInv => ContextKept
<1> SUFFICES ASSUME ContextInv PROVE ContextKept
  OBVIOUS
<1> QED  BY DEF ContextInv, ContextKept, MessagesRight, OwnersRight, AnswersRight

\* The types of the requests, their stores, messages and rows.
THEOREM ContextTypeCorrect == ContextSpec => []ContextTypeOK
<1>1. ContextInv => ContextTypeOK
  BY DEF ContextInv
<1> QED  BY <1>1, InitialContext, ContextStep, PTL DEF ContextSpec

\* For any requests and people, in any order of their steps and of their
\* messages: a new tenant is its creator's, and nobody is told of another's.
THEOREM ContextAlwaysKept == ContextSpec => []ContextKept
  BY InitialContext, ContextStep, ContextSafe, PTL DEF ContextSpec

==============================================================================
