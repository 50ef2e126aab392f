----------------------------- MODULE KnowledgeBase -----------------------------
(***************************************************************************)
(* The knowledge articles of one tenant: drafts that are edited, published *)
(* and archived.  A request validates the status that it has read and then *)
(* updates the row by its id; slugs are made unique by looking at those    *)
(* the table has, and by the table's unique index if that was too late.    *)
(***************************************************************************)
EXTENDS Integers, Sequences, FiniteSets, FiniteSetsExt

CONSTANTS
    Articles,         \* ids of articles
    ArticleRequests,  \* requests that change articles
    SlugBases         \* what titles and slugs of requests are slugified to

ASSUME ArticleAssumption ==
    IsFiniteSet(Articles) /\ SlugBases # {} /\ SlugBases \subseteq Seq(Nat) \ {<<>>}

VARIABLES
    artRow,      \* the table: status, slug and whether publishedAt is set
    artRequest,  \* every request: what it does, where it stands, what it has read
    artBlind,    \* articles changed by a request that had read an older row
    artRevived,  \* articles that have left the status ARCHIVED
    artClashes   \* requests whose slug the unique index refused

artVars == <<artRow, artRequest, artBlind, artRevived, artClashes>>

ArticleStatus == {"DRAFT", "PUBLISHED", "ARCHIVED"}

NoSlug == <<>>

Article == [status : ArticleStatus \cup {"absent", "deleted"}, slug : Seq(Nat), published : BOOLEAN]

ArticleKinds == {"create", "update", "publish", "archive", "delete"}

ArticleTypeOK ==
    /\ artRow \in [Articles -> Article]
    /\ artRequest \in [ArticleRequests ->
          [kind : ArticleKinds, id : Articles, base : SlugBases \cup {NoSlug}, slug : Seq(Nat),
           pc : {"new", "slugs", "write", "done", "refused", "clash"}, stale : SUBSET {"row", "slugs"}]]
    /\ artBlind \subseteq Articles /\ artRevived \subseteq Articles
    /\ artClashes \subseteq ArticleRequests

ArticleInit ==
    /\ \E status \in {"absent"} \cup ArticleStatus, a \in Articles :
          artRow = [b \in Articles |->
              IF a = b /\ status # "absent"
              THEN [status |-> status, slug |-> CHOOSE base \in SlugBases : TRUE,
                    published |-> status = "PUBLISHED"]
              ELSE [status |-> "absent", slug |-> NoSlug, published |-> FALSE]]
    /\ artRequest \in [ArticleRequests ->
          [kind : ArticleKinds, id : Articles, base : SlugBases \cup {NoSlug}, slug : {NoSlug},
           pc : {"new"}, stale : {{}}]]
    /\ \A r \in ArticleRequests :
          /\ artRequest[r].kind \notin {"create", "update"} => artRequest[r].base = NoSlug
          /\ artRequest[r].kind = "create" => artRequest[r].base # NoSlug
    /\ \A r, q \in ArticleRequests :
          artRequest[r].kind = "create" /\ artRequest[q].kind = "create" /\ r # q
              => artRequest[r].id # artRequest[q].id
    /\ artBlind = {} /\ artRevived = {} /\ artClashes = {}

-----------------------------------------------------------------------------
(* Slugs *)

Slugs == {artRow[a].slug : a \in {b \in Articles : artRow[b].status \in ArticleStatus}}

\* The base, or the base with the least suffix from two on that is free.
BuildUniqueSlug(base, taken) ==
    IF base \notin taken THEN base
    ELSE Append(base, Min({n \in 2..(Cardinality(taken) + 2) : Append(base, n) \notin taken}))

-----------------------------------------------------------------------------
(* Requests *)

ArticleAt(r, pc) == artRequest[r].pc = pc

RowOf(r) == artRow[artRequest[r].id]

\* assertArticleEditable, -Publishable and -Archivable, of an article that exists.
Allowed(kind, status) ==
    CASE kind = "update" -> status \in {"DRAFT", "PUBLISHED"}
      [] kind = "publish" -> status = "DRAFT"
      [] kind = "archive" -> status \in {"DRAFT", "PUBLISHED"}
      [] kind = "delete" -> status \in ArticleStatus
      [] kind = "create" -> status = "absent"

\* An update looks at the slugs only if it changes its own.
FindArticle(r) ==
    LET request == artRequest[r]
        next == IF request.base \in {NoSlug, RowOf(r).slug} THEN "write" ELSE "slugs"
    IN
    /\ ArticleAt(r, "new")
    /\ artRequest' = [artRequest EXCEPT
           ![r].pc = IF Allowed(request.kind, RowOf(r).status) THEN next ELSE "refused",
           ![r].slug = RowOf(r).slug]
    /\ UNCHANGED <<artRow, artBlind, artRevived, artClashes>>

\* An update may take its own slug.
ListSlugs(r) ==
    LET own == IF artRequest[r].kind = "update" THEN {artRequest[r].slug} ELSE {} IN
    /\ ArticleAt(r, "slugs")
    /\ artRequest' = [artRequest EXCEPT ![r].pc = "write",
                          ![r].slug = BuildUniqueSlug(artRequest[r].base, Slugs \ own)]
    /\ UNCHANGED <<artRow, artBlind, artRevived, artClashes>>

\* What is written, whatever the status is by then; an update without a slug
\* leaves the row's.
ArticleWritten(r, row) ==
    CASE artRequest[r].kind = "create" -> [status |-> "DRAFT", slug |-> artRequest[r].slug, published |-> FALSE]
      [] artRequest[r].kind = "update" -> IF artRequest[r].base = NoSlug THEN row
                                          ELSE [row EXCEPT !.slug = artRequest[r].slug]
      [] artRequest[r].kind = "publish" -> [row EXCEPT !.status = "PUBLISHED", !.published = TRUE]
      [] artRequest[r].kind = "archive" -> [row EXCEPT !.status = "ARCHIVED"]
      [] artRequest[r].kind = "delete" -> [row EXCEPT !.status = "deleted"]

\* What q has read that r changes.
Outdates(r, q) ==
    (IF artRequest[q].id = artRequest[r].id /\ artRequest[q].pc \in {"slugs", "write"} THEN {"row"} ELSE {})
    \cup (IF artRequest[r].slug # RowOf(r).slug /\ artRequest[q].pc = "write" THEN {"slugs"} ELSE {})

WriteArticle(r) ==
    LET a == artRequest[r].id
        row == artRow[a]
        written == ArticleWritten(r, row)
        gone == artRequest[r].kind # "create" /\ row.status \notin ArticleStatus
        clash == artRequest[r].kind \in {"create", "update"}
                 /\ \E b \in Articles \ {a} : artRow[b].status \in ArticleStatus
                                              /\ artRow[b].slug = written.slug
    IN
    /\ ArticleAt(r, "write")
    /\ IF gone \/ clash
       THEN /\ artRequest' = [artRequest EXCEPT ![r].pc = IF gone THEN "refused" ELSE "clash"]
            /\ artClashes' = IF gone THEN artClashes ELSE artClashes \cup {r}
            /\ UNCHANGED <<artRow, artBlind, artRevived>>
       ELSE /\ artRow' = [artRow EXCEPT ![a] = written]
            /\ artRequest' = [q \in ArticleRequests |->
                   IF q = r THEN [artRequest[q] EXCEPT !.pc = "done"]
                   ELSE [artRequest[q] EXCEPT !.stale = @ \cup Outdates(r, q)]]
            /\ artBlind' = IF "row" \in artRequest[r].stale THEN artBlind \cup {a} ELSE artBlind
            /\ artRevived' = IF row.status = "ARCHIVED" /\ written.status \in {"DRAFT", "PUBLISHED"}
                             THEN artRevived \cup {a} ELSE artRevived
            /\ UNCHANGED artClashes

ArticleNext == \E r \in ArticleRequests : FindArticle(r) \/ ListSlugs(r) \/ WriteArticle(r)

ArticleSpec == ArticleInit /\ [][ArticleNext]_artVars

-----------------------------------------------------------------------------
(* Correctness *)

\* What list and getBySlug show to somebody who does not manage articles.
ReadableArticles(manages) ==
    {a \in Articles : artRow[a].status = "PUBLISHED" \/ (manages /\ artRow[a].status \in ArticleStatus)}

\* Archiving is final, unless a request that had read the article before writes
\* after it; slugs are unique, and the index has to say so only when a request
\* had listed the slugs too early; whoever reads an article reads a published one.
ArticlesConsistent ==
    /\ artRevived \subseteq artBlind
    /\ \A a, b \in ReadableArticles(TRUE) : a # b => artRow[a].slug # artRow[b].slug
    /\ \A r \in artClashes : artRequest[r].stale # {}
    /\ \A a \in ReadableArticles(FALSE) : artRow[a].published
=================================================================================
