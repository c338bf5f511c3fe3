--------------------------- MODULE SemanticMemory ---------------------------
(***************************************************************************)
(* SemanticMemoryService and SemanticPromotionGate over the PostgreSQL     *)
(* repository and the semantic streams: observations, claims with their    *)
(* belief transitions, contradictions, claim relations, promotion          *)
(* decisions and the Wiki page rendered from the claims of one subject.    *)
(* Every check reads the tables before the transaction that relies on it,  *)
(* and every event is appended after it, so that workers interleave        *)
(* between check, write and event, and may die there.                      *)
(***************************************************************************)
EXTENDS Naturals, Sequences

CONSTANTS
  Claims, Contradictions, Observations,
  Workers,
  StartStatus,   \* the status an item is created in
  Existing,      \* items that are there, and journalled, at the start
  Contents,      \* what a revision may state: object, valid interval, evidence
  Says,          \* the contents an item may be given
  Conflicts,     \* pairs of contents that the contradiction rules tell apart
  Same,          \* pairs with one object and overlapping intervals
  About,         \* the claims a contradiction is about
  Critical,      \* contradictions of critical severity
  None,
  MaxRevisions,  \* bound of a revision number
  MaxRequests, MaxCrashes

Items == Claims \cup Contradictions \cup Observations

BeliefStatuses == {"unknown", "proposed", "supported", "disputed", "superseded", "retracted"}
ContradictionStatuses == {"candidate", "open", "resolved", "dismissed"}
Statuses == BeliefStatuses \cup ContradictionStatuses \cup {"recorded"}
Starts == {"unknown", "proposed", "candidate", "open", "recorded"}

ASSUME SemanticAssumption ==
  /\ StartStatus \in [Items -> Starts] /\ Existing \subseteq Items
  /\ \A c \in Claims : StartStatus[c] \in {"unknown", "proposed"}
  /\ \A k \in Contradictions : StartStatus[k] \in {"candidate", "open"}
  /\ Says \in [Items -> SUBSET Contents]
  /\ \A i \in Items \ Claims : \A x, y \in Says[i] : x = y
  /\ Conflicts \subseteq Contents \X Contents
  /\ \A x, y \in Contents : <<x, y>> \in Conflicts => <<y, x>> \in Conflicts
  /\ Same \subseteq Contents \X Contents /\ \A x \in Contents : <<x, x>> \in Same
  /\ About \in [Contradictions -> SUBSET Claims] /\ Critical \subseteq Contradictions
  /\ None \notin Items \cup Contents
  /\ MaxRevisions \in Nat \ {0} /\ MaxRequests \in Nat /\ MaxCrashes \in Nat

(* _LEGAL_TRANSITIONS of the beliefs, and the table in                     *)
(* transition_contradiction.                                               *)
Legal == {"unknown"} \X {"proposed", "retracted"}
         \cup {"proposed"} \X {"supported", "disputed", "retracted"}
         \cup {"supported"} \X {"disputed", "superseded", "retracted"}
         \cup {"disputed"} \X {"supported", "superseded", "retracted"}
         \cup {"open"} \X {"resolved", "dismissed"}
         \cup {"resolved", "dismissed", "candidate"} \X {"open"}

Numbers == 1 .. MaxRevisions
Revision == [number : Numbers, status : Statuses, content : Contents]
Event == [revision : Revision, previous : Statuses]
Reference == Claims \X Numbers

(* A revision of the page: whether it shows the claims as they are now or  *)
(* as of a time the caller chose, and the revision it cites of each, if    *)
(* any.                                                                    *)
Page == [now : BOOLEAN, cites : [Claims -> Nat]]
WikiEvent == [identical : BOOLEAN, revision : Nat]

VARIABLES
  history,     \* history[i]: the revisions of item i; the last one is current
  streams,     \* streams[i]: the stream of item i
  decisions,   \* references for which a supporting decision is persisted
  relations,   \* persisted SUPERSEDES relations <<source, target>>
  wiki,        \* the revisions of the page
  wikiStream,  \* the stream of the page
  pc, job,
  requests, crashes

wikis == <<wiki, wikiStream>>
graph == <<decisions, relations>>
counters == <<requests, crashes>>
vars == <<history, streams, graph, wikis, pc, job, counters>>

Idle == [item |-> None, target |-> "recorded", expected |-> 0, status |-> "recorded",
         content |-> None, evidence |-> FALSE, edge |-> <<>>, now |-> TRUE, cites |-> <<>>,
         fresh |-> FALSE, version |-> 0]

Job == [item : Items \cup {None}, target : Statuses, expected : Nat, status : Statuses,
        content : Contents \cup {None}, evidence : BOOLEAN,
        edge : {<<>>} \cup (Reference \X Reference), now : BOOLEAN,
        cites : {<<>>} \cup [Claims -> Nat], fresh : BOOLEAN, version : Nat]

PCs == {"idle", "lookup", "find", "insert", "snapshot", "decide", "read", "successor",
        "critical", "conflict", "append", "journal", "relate", "page", "query",
        "render", "version", "announce"}

TypeOK ==
  /\ history \in [Items -> Seq(Revision)] /\ streams \in [Items -> Seq(Event)]
  /\ decisions \subseteq Reference /\ relations \subseteq Reference \X Reference
  /\ wiki \in Seq(Page) /\ wikiStream \in Seq(WikiEvent)
  /\ pc \in [Workers -> PCs] /\ job \in [Workers -> Job]
  /\ requests \in 0 .. MaxRequests /\ crashes \in 0 .. MaxCrashes

(* Items that exist at the start were created and announced.               *)
First(i, x) == [number |-> 1, status |-> StartStatus[i], content |-> x]

Init ==
  /\ \E said \in [Items -> Contents] :
       /\ \A i \in Items : said[i] \in Says[i]
       /\ history = [i \in Items |->
            IF i \in Existing THEN <<First(i, said[i])>> ELSE <<>>]
       /\ streams = [i \in Items |->
            IF i \in Existing
            THEN <<[revision |-> First(i, said[i]), previous |-> StartStatus[i]]>>
            ELSE <<>>]
  /\ decisions = {} /\ relations = {} /\ wiki = <<>> /\ wikiStream = <<>>
  /\ pc = [w \in Workers |-> "idle"] /\ job = [w \in Workers |-> Idle]
  /\ requests = 0 /\ crashes = 0

current(i) == Len(history[i])
status(i) == history[i][current(i)].status
content(i) == history[i][current(i)].content
version(i) == Len(streams[i])
live(c) == history[c] # <<>> /\ status(c) \notin {"superseded", "retracted"}

Goto(w, l) == pc' = [pc EXCEPT ![w] = l]
Finish(w) == Goto(w, "idle") /\ job' = [job EXCEPT ![w] = Idle]

(* w goes on at l when the condition holds, and gives up otherwise.        *)
Check(w, condition, l) == \/ condition /\ Goto(w, l) /\ UNCHANGED job
                          \/ ~condition /\ Finish(w)

Start(w, l, j) ==
  /\ pc[w] = "idle" /\ requests < MaxRequests
  /\ requests' = requests + 1
  /\ Goto(w, l) /\ job' = [job EXCEPT ![w] = j]
  /\ UNCHANGED <<history, streams, graph, wikis, crashes>>

Reads == UNCHANGED <<history, streams, graph, wikis, counters>>

-----------------------------------------------------------------------------
(* record_observation, create_claim, record_contradiction_candidate,       *)
(* open_contradiction.  A contradiction and an observation have one        *)
(* content, a claim may be stated in several ways.                         *)
create(w) ==
  \E i \in Items : \E x \in Says[i] :
    Start(w, "lookup", [Idle EXCEPT !.item = i, !.target = StartStatus[i],
                                    !.status = StartStatus[i], !.content = x])

(* What the service takes for already done: a recorded observation, an     *)
(* active claim that now states the same, an unchanged candidate.  It      *)
(* returns that without an event.                                          *)
AlreadyDone(i, x) ==
  \/ i \in Observations /\ history[i] # <<>>
  \/ i \in Claims /\ \E d \in Claims : live(d) /\ <<x, content(d)>> \in Same
  \/ i \in Contradictions /\ StartStatus[i] = "candidate" /\ current(i) = 1

(* A contradiction is about claims that exist.                             *)
Referenced(i) == i \in Contradictions => \A c \in About[i] : history[c] # <<>>

lookup(w) == /\ pc[w] = "lookup"
             /\ Check(w, Referenced(job[w].item) /\ ~AlreadyDone(job[w].item, job[w].content),
                      IF job[w].item \in Observations THEN "insert" ELSE "find")
             /\ Reads

(* The repository finds an item by its key and returns it; a claim that    *)
(* was created with another content is refused.                            *)
find(w) ==
  LET i == job[w].item IN
  /\ pc[w] = "find"
  /\ \/ /\ history[i] = <<>>
        /\ Goto(w, "insert") /\ UNCHANGED job
     \/ /\ history[i] # <<>>
        /\ Check(w, i \in Claims => history[i][1].content = job[w].content, "journal")
  /\ Reads

(* The insert.  Another worker's row is an error, or, for an observation,  *)
(* as good as one's own.                                                   *)
insert(w) ==
  LET i == job[w].item IN
  /\ pc[w] = "insert"
  /\ \/ /\ history[i] = <<>>
        /\ history' = [history EXCEPT ![i] = <<First(i, job[w].content)>>]
        /\ Goto(w, "journal") /\ UNCHANGED job
     \/ /\ history[i] # <<>>
        /\ Check(w, i \in Observations, "journal")
        /\ UNCHANGED history
  /\ UNCHANGED <<streams, graph, wikis, counters>>

-----------------------------------------------------------------------------
(* Fault: only supported claims are taken for rivals.                      *)
DetectSupportedOnly(c) ==
  \E d \in Claims \ {c} : /\ history[d] # <<>> /\ status(d) = "supported"
                          /\ <<content(c), content(d)>> \in Conflicts

(* detect_contradictions: the rules compare what the stored current        *)
(* revision of c states with every other active claim of its subject.      *)
detect_contradictions(c) ==
  \E d \in Claims \ {c} : live(d) /\ <<content(c), content(d)>> \in Conflicts

OpenCritical(c) ==
  \E k \in Critical : history[k] # <<>> /\ status(k) = "open" /\ c \in About[k]

(* has_restricted_cycle: some edges can be followed for ever.              *)
has_restricted_cycle(edges) ==
  \E loop \in SUBSET edges : loop # {} /\ \A x \in loop : \E y \in loop : x[2] = y[1]

(* list_claim_relations                                                    *)
RelationsOf(c) == {x \in relations : c \in {x[1][1], x[2][1]}}

(* SemanticPromotionGate.decide, called before the transition it is for.   *)
(* The caller has its new revision ready, and nothing makes it restate     *)
(* what the stored one says.                                               *)
promote(w) ==
  \E c \in Claims : \E e \in 1 .. current(c), x \in Says[c] :
    Start(w, "snapshot", [Idle EXCEPT !.item = c, !.target = "supported", !.expected = e,
                                      !.content = x, !.evidence = TRUE])

(* build_promotion_snapshot, of the stored revision, and the verifiers     *)
(* that judge it.  Verifiers that judge what is not modelled (sources,     *)
(* evidence, confidence) may fail in any state.                            *)
snapshot(w) ==
  LET c == job[w].item IN
  /\ pc[w] = "snapshot"
  /\ \/ /\ job[w].expected = current(c)
        /\ ~OpenCritical(c) /\ ~detect_contradictions(c)
        /\ ~has_restricted_cycle(RelationsOf(c))
        /\ Goto(w, "decide") /\ UNCHANGED job
     \/ Finish(w)
  /\ Reads

(* record_promotion_decision, a stream of its own.                         *)
decide(w) ==
  /\ pc[w] = "decide"
  /\ decisions' = decisions \cup {<<job[w].item, job[w].expected>>}
  /\ Goto(w, "read") /\ UNCHANGED job
  /\ UNCHANGED <<history, streams, relations, wikis, counters>>

(* transition_claim and transition_contradiction; the caller quotes a      *)
(* revision it has read and brings the revision that shall follow it, with *)
(* a content of its own choice.                                            *)
Targets(i) == IF i \in Claims THEN BeliefStatuses \ {"unknown"}
              ELSE ContradictionStatuses \ {"candidate"}

transition(w) ==
  \E i \in Claims \cup Contradictions :
    \E t \in Targets(i), e \in 1 .. current(i), x \in Says[i] :
      \E evidence \in IF i \in Claims THEN BOOLEAN ELSE {FALSE} :
        Start(w, "read", [Idle EXCEPT !.item = i, !.target = t, !.expected = e,
                                      !.content = x, !.evidence = evidence])

Wanted(w) == [number |-> job[w].expected + 1, status |-> job[w].target,
              content |-> job[w].content]

(* The current status is read and judged; a repeat of the revision that is *)
(* current returns at once, without an event.                              *)
read(w) ==
  LET i == job[w].item
      t == job[w].target
      repeated == /\ current(i) = job[w].expected + 1
                  /\ history[i][current(i)] = Wanted(w)
      admitted == /\ ~repeated /\ <<status(i), t>> \in Legal
                  /\ job[w].expected < MaxRevisions
                  /\ t = "supported" => job[w].evidence
  IN
  /\ pc[w] = "read"
  /\ \/ /\ admitted
        /\ job' = [job EXCEPT ![w].status = status(i)]
        /\ Goto(w, CASE t = "supported" -> "critical"
                     [] t = "disputed" /\ ~job[w].evidence -> "conflict"
                     [] t = "superseded" -> "successor"
                     [] OTHER -> "append")
     \/ ~admitted /\ Finish(w)
  /\ Reads

(* A supersession needs a persisted successor of exactly that revision.    *)
successor(w) ==
  /\ pc[w] = "successor"
  /\ Check(w, \E x \in relations : x[2] = <<job[w].item, job[w].expected>>, "append")
  /\ Reads

(* Support needs a persisted decision about exactly that revision and no   *)
(* open critical contradiction.                                            *)
critical(w) ==
  /\ pc[w] = "critical"
  /\ Check(w, /\ <<job[w].item, job[w].expected>> \in decisions
              /\ ~OpenCritical(job[w].item), "conflict")
  /\ Reads

(* Support needs the absence of a conflict, a dispute without evidence of  *)
(* its own needs one.                                                      *)
conflict(w) ==
  /\ pc[w] = "conflict"
  /\ Check(w, detect_contradictions(job[w].item) <=> job[w].target = "disputed", "append")
  /\ Reads

(* Fault: the row is appended as whatever number comes next.               *)
AppendNext(w) ==
  LET i == job[w].item IN
  /\ pc[w] = "append"
  /\ history' = [history EXCEPT ![i] = Append(@, [Wanted(w) EXCEPT !.number = current(i) + 1])]
  /\ Goto(w, "journal") /\ UNCHANGED job
  /\ UNCHANGED <<streams, graph, wikis, counters>>

(* append_claim_revision(_with_evidence), append_contradiction_revision    *)
(* and the SQL function that compares the current revision.                *)
append(w) ==
  LET i == job[w].item IN
  /\ pc[w] = "append"
  /\ \/ /\ current(i) = job[w].expected
        /\ history' = [history EXCEPT ![i] = Append(@, Wanted(w))]
        /\ Goto(w, "journal") /\ UNCHANGED job
     \/ current(i) # job[w].expected /\ Finish(w) /\ UNCHANGED history
  /\ UNCHANGED <<streams, graph, wikis, counters>>

(* Fault: the previous status is read from the row that was just updated.  *)
AppendEventReread(w) ==
  LET i == job[w].item
      n == job[w].expected + 1
  IN
  /\ pc[w] = "journal"
  /\ streams' = IF version(i) = job[w].expected
                THEN [streams EXCEPT ![i] = Append(@,
                        [revision |-> history[i][n], previous |-> status(i)])]
                ELSE streams
  /\ Finish(w)
  /\ UNCHANGED <<history, graph, wikis, counters>>

(* SemanticMemoryEventService.append at the expected revision (0 for a     *)
(* creation); it carries the status that was read at the beginning.        *)
append_event(w) ==
  LET i == job[w].item
      n == job[w].expected + 1
  IN
  /\ pc[w] = "journal"
  /\ streams' = IF version(i) = job[w].expected
                THEN [streams EXCEPT ![i] = Append(@,
                        [revision |-> history[i][n], previous |-> job[w].status])]
                ELSE streams
  /\ Finish(w)
  /\ UNCHANGED <<history, graph, wikis, counters>>

-----------------------------------------------------------------------------
(* add_claim_relation: the endpoints exist, and the relations that touch   *)
(* one of the two claims have no cycle with the new one.                   *)
relate(w) ==
  \E source, target \in Claims :
    \E r \in 1 .. current(source), s \in 1 .. current(target) :
      LET edge == <<<<source, r>>, <<target, s>>>> IN
      /\ ~has_restricted_cycle(RelationsOf(source) \cup RelationsOf(target) \cup {edge})
      /\ Start(w, "relate", [Idle EXCEPT !.edge = edge])

insert_relation(w) ==
  /\ pc[w] = "relate"
  /\ relations' = relations \cup {job[w].edge}
  /\ Finish(w)
  /\ UNCHANGED <<history, streams, decisions, wikis, counters>>

-----------------------------------------------------------------------------
(* render_wiki: the page must be at the expected revision before the       *)
(* claims are read.  The caller's query asks for the claims as they are    *)
(* now, or names a valid_at or a known_at.                                 *)
render_wiki(w) ==
  \E e \in 0 .. Len(wiki), now \in BOOLEAN :
    Start(w, "page", [Idle EXCEPT !.expected = e, !.now = now])

page(w) == pc[w] = "page" /\ Check(w, Len(wiki) = job[w].expected, "query") /\ Reads

(* query_claims: of each claim its newest revision that the times of the   *)
(* query admit, if the other filters of the caller (scope, predicate,      *)
(* belief statuses, budget) admit it.  Each revision has its own interval  *)
(* and time of recording, so an earlier time may admit any one as newest.  *)
(* An access audit that fails raises.                                      *)
query(w) ==
  /\ pc[w] = "query"
  /\ \/ \E cites \in [Claims -> 0 .. MaxRevisions] :
          /\ \A c \in Claims : IF job[w].now THEN cites[c] \in {0, current(c)}
                               ELSE cites[c] <= current(c)
          /\ job' = [job EXCEPT ![w].cites = cites]
          /\ Goto(w, "render")
     \/ Finish(w)
  /\ Reads

Rendered(w) == [now |-> job[w].now, cites |-> job[w].cites]

(* Fault: the page advances from whatever revision it has.                 *)
RenderUnchecked(w) ==
  /\ pc[w] = "render"
  /\ wiki' = Append(wiki, Rendered(w))
  /\ job' = [job EXCEPT ![w].expected = Len(wiki) + 1, ![w].fresh = TRUE]
  /\ Goto(w, "version")
  /\ UNCHANGED <<history, streams, graph, wikiStream, counters>>

(* The same claims may give the same page again, or another one when a     *)
(* contradiction about them, or the time that was asked for, has changed.  *)
render(w) ==
  LET e == job[w].expected IN
  /\ pc[w] = "render"
  /\ \/ /\ e > 0 /\ wiki[e] = Rendered(w)
        /\ Goto(w, "version") /\ UNCHANGED <<wiki, job>>
     \/ /\ Len(wiki) = e
        /\ wiki' = Append(wiki, Rendered(w))
        /\ job' = [job EXCEPT ![w].expected = e + 1, ![w].fresh = TRUE]
        /\ Goto(w, "version")
     \/ Len(wiki) # e /\ Finish(w) /\ UNCHANGED wiki
  /\ UNCHANGED <<history, streams, graph, wikiStream, counters>>

(* The event is appended at the version the stream happens to have.        *)
read_version(w) ==
  /\ pc[w] = "version"
  /\ job' = [job EXCEPT ![w].version = Len(wikiStream)]
  /\ Goto(w, "announce")
  /\ Reads

announce(w) ==
  /\ pc[w] = "announce"
  /\ wikiStream' = IF Len(wikiStream) = job[w].version
                   THEN Append(wikiStream, [identical |-> ~job[w].fresh,
                                            revision |-> job[w].expected])
                   ELSE wikiStream
  /\ Finish(w)
  /\ UNCHANGED <<history, streams, graph, wiki, counters>>

-----------------------------------------------------------------------------
(* The process dies and its request is lost.                               *)
crash(w) ==
  /\ pc[w] # "idle" /\ crashes < MaxCrashes
  /\ crashes' = crashes + 1
  /\ Finish(w)
  /\ UNCHANGED <<history, streams, graph, wikis, requests>>

Next == \E w \in Workers :
  \/ create(w) \/ lookup(w) \/ find(w) \/ insert(w)
  \/ promote(w) \/ snapshot(w) \/ decide(w)
  \/ transition(w) \/ read(w) \/ successor(w) \/ critical(w) \/ conflict(w)
  \/ append(w) \/ append_event(w)
  \/ relate(w) \/ insert_relation(w)
  \/ render_wiki(w) \/ page(w) \/ query(w) \/ render(w) \/ read_version(w) \/ announce(w)
  \/ crash(w)

Spec == Init /\ [][Next]_vars

-----------------------------------------------------------------------------
Told == [i \in Items |-> [k \in DOMAIN streams[i] |-> streams[i][k].revision]]

Aggregate == INSTANCE GovernedAggregate
               WITH Ids <- Items, Revisions <- Revision, journal <- Told

(* Claims, contradictions and observations are governed aggregates: each   *)
(* moves only along the legal transitions, although the status is judged   *)
(* before the transaction and outside it, and its stream announces         *)
(* committed revisions in order and without a hole.                        *)
ImplementsAggregate == Aggregate!Spec

(* The support of c states what the revision before it stated, which is    *)
(* what the promotion gate and detect_contradictions judged.               *)
SupportedAsJudged(c) ==
  /\ history[c] # <<>> /\ status(c) = "supported"
  /\ content(c) = history[c][current(c) - 1].content

(* Two claims that were both supported as judged never contradict each     *)
(* other.  The check of detect_contradictions and the write are separate,  *)
(* and nothing locks the other claim, which may change what it states: it  *)
(* is enough that the check counts every active claim and not only the     *)
(* supported ones.                                                         *)
JudgedSupportsAgree ==
  \A c, d \in Claims :
    c # d /\ SupportedAsJudged(c) /\ SupportedAsJudged(d)
      => <<content(c), content(d)>> \notin Conflicts

(* temporal-semantic-memory.md: "Supported promotion requires" among       *)
(* others "no deterministic unresolved conflict".  It does not hold of a   *)
(* support that states something else than the revision before it: the     *)
(* stored revision is judged, and the one that is written is not.          *)
NoConflictingSupport ==
  \A c, d \in Claims :
    /\ c # d /\ history[c] # <<>> /\ history[d] # <<>>
    /\ status(c) = "supported" /\ status(d) = "supported"
    => <<content(c), content(d)>> \notin Conflicts

(* SemanticClaimStreamReducer accepts every claim stream: the              *)
(* previous_status of an event, read before the transaction, is the status *)
(* of the event before it.                                                 *)
ClaimStreamsReplay ==
  \A c \in Claims : \A k \in 2 .. version(c) :
    streams[c][k].previous = streams[c][k - 1].revision.status

(* A page that shows the claims as they are now never cites an older       *)
(* revision of a claim than any page before it, whichever renderers race:  *)
(* the claims are read after the expected revision of the page was there,  *)
(* and the append succeeds only while it still is the last one.  A page as *)
(* of an earlier time may cite anything older.                             *)
WikiNeverGoesBack ==
  \A k \in DOMAIN wiki : wiki[k].now =>
    \A j \in 1 .. k - 1 : \A c \in Claims :
      wiki[k].cites[c] = 0 \/ wiki[j].cites[c] <= wiki[k].cites[c]

(* SemanticWikiStreamReducer accepts the stream of the page: revisions in  *)
(* order from one, regenerations of the current one.  It does not: an      *)
(* event that is lost, or appended late, leaves a stream that begins with  *)
(* another revision or steps back.                                         *)
WikiStreamReplays ==
  \A k \in DOMAIN wikiStream :
    LET last == IF k = 1 THEN 0 ELSE wikiStream[k - 1].revision IN
    wikiStream[k].revision = IF wikiStream[k].identical THEN last ELSE last + 1
=============================================================================
