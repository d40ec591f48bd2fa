----------------------------- MODULE WritePlane -----------------------------
(***************************************************************************)
(* The audited write tools of the MCP server, with the deliberation tools  *)
(* that open their gate.  A call looks its request id up in                *)
(* context_write_audit, passes the gate, reads, commits its domain write,  *)
(* commits its audit row and then its publish row, and answers: three      *)
(* transactions, and anything that raises between two of them, or a         *)
(* process that dies, cuts the call.  A cut call is not answered; its       *)
(* client may send it again with the same key.                             *)
(* Titles, contents, labels and link metadata are left out: a write is     *)
(* which tool wrote which item at which version.                           *)
(***************************************************************************)
EXTENDS Ratification

CONSTANTS
    Items,       \* context items
    Categories,  \* item_type
    Policy,      \* approval_policy_json
    Requests,    \* arguments of write calls
    NoRequest

WriteTools == {"upsert_context_item", "append_context_event", "link_context_entities",
               "set_context_labels", "archive_context_item", "apply_sync_batch"}

ByItemId == {"set_context_labels", "archive_context_item", "link_context_entities"}

(* The results of calls that wrote, and of calls that did not.             *)
Written == {"created", "updated", "archived", "applied"}

Unwritten == {"dry_run", "conflict", "not_found"}

ASSUME WritesOK ==
    /\ Requests \subseteq [tool : WriteTools, item : Items, other : Items, category : Categories,
                           expected : Nat, dry : BOOLEAN, key : Keys \union {NoKey}]
    /\ \A q \in Requests : q.key = NoKey => q.dry
    /\ NoRequest \notin Requests
    /\ DOMAIN Policy.by_tool \subseteq WriteTools
    /\ DOMAIN Policy.by_category \subseteq Categories

VARIABLES
    items,    \* context_items: version (0: no row) and status
    links,    \* context_item_links of one relation
    batches,  \* idempotency keys of context_sync_batches
    audit,    \* context_write_audit: tool and key -> the recorded result
    request,  \* the write call a worker has
    seen,     \* the item as the service read it
    other,    \* whether the second row the service reads exists: link, target or batch
    result,   \* what the service returned
    writes,   \* auxiliary: domain commits per tool and key
    cut,      \* auxiliary: of these, commits whose call ended unaudited
    told      \* auxiliary: results answered with status ok

writeRows == <<items, links, batches, audit>>
workVars  == <<request, seen, other, result>>
auxVars   == <<writes, cut, told>>
writeVars == <<writeRows, workVars, auxVars>>
vars      == <<deliberationVars, writeVars>>

NoItem == [version |-> 0, status |-> "none"]

Requested == WriteTools \X Keys

Results == Written \union Unwritten

WriteStages == {"replay", "gate", "load", "commit", "audit", "publish"}

Init ==
    /\ InitRows
    /\ items \in [Items -> {NoItem, [version |-> 1, status |-> "active"]}]
    /\ links = {} /\ batches = {}
    /\ audit = [tk \in Requested |-> "none"]
    /\ request = [w \in Workers |-> NoRequest]
    /\ seen = [w \in Workers |-> NoItem]
    /\ other = [w \in Workers |-> FALSE]
    /\ result = [w \in Workers |-> "none"]
    /\ writes = [tk \in Requested |-> 0]
    /\ cut = [tk \in Requested |-> 0]
    /\ told = {}

IdOf(w) == <<request[w].tool, request[w].key>>

Item(w) == request[w].item

(* Nothing but the worker's place changes, and what the conjunct before    *)
(* this one says.                                                          *)
Steps(w, stage) == at' = [at EXCEPT ![w] = stage]

Aside == <<active, rowVars, talkVars, seeds>>

(***************************************************************************)
(* A call with dry_run false has a key (_ensure_idempotency_key).  A dry   *)
(* run without one gets a fresh request id, which nobody looks up again.   *)
(***************************************************************************)
CallTool(w, q) ==
    /\ Arrives(w, "replay")
    /\ request' = [request EXCEPT ![w] = q]
    /\ UNCHANGED <<Aside, faults, writeRows, seen, other, result, auxVars>>

Replay_AnyTool(w) ==
    /\ at[w] = "replay"
    /\ LET recorded == {audit[<<t, request[w].key>>] : t \in WriteTools} \ {"none"}
       IN IF request[w].key # NoKey /\ recorded # {}
          THEN /\ told' = told \union {<<IdOf(w), CHOOSE r \in recorded : TRUE>>}
               /\ Returns(w)
          ELSE Steps(w, "gate") /\ UNCHANGED told
    /\ UNCHANGED <<Aside, calls, faults, writeRows, workVars, writes, cut>>

Replay_DryRunsOnly(w) ==
    /\ at[w] = "replay"
    /\ IF request[w].dry /\ request[w].key # NoKey /\ audit[IdOf(w)] # "none"
       THEN /\ told' = told \union {<<IdOf(w), audit[IdOf(w)]>>}
            /\ Returns(w)
       ELSE Steps(w, "gate") /\ UNCHANGED told
    /\ UNCHANGED <<Aside, calls, faults, writeRows, workVars, writes, cut>>

(* _existing_replay_payload answers with the recorded result.              *)
Replay(w) ==
    /\ at[w] = "replay"
    /\ IF request[w].key # NoKey /\ audit[IdOf(w)] # "none"
       THEN /\ told' = told \union {<<IdOf(w), audit[IdOf(w)]>>}
            /\ Returns(w)
       ELSE Steps(w, "gate") /\ UNCHANGED told
    /\ UNCHANGED <<Aside, calls, faults, writeRows, workVars, writes, cut>>

(* _mode_for: the tool, then the category, then the default.  Only         *)
(* upsert_context_item passes a category.                                  *)
RequiresRatification(q) ==
    (IF q.tool \in DOMAIN Policy.by_tool THEN Policy.by_tool[q.tool]
     ELSE IF q.tool = "upsert_context_item" /\ q.category \in DOMAIN Policy.by_category
     THEN Policy.by_category[q.category]
     ELSE Policy.default) = "ratify"

(* What a proposal must name: an item by key for upsert, by row id for the *)
(* tools that take one, and one fixed word for events and batches.         *)
TargetKey(q) ==
    CASE q.tool = "upsert_context_item"  -> <<"item", q.item>>
      [] q.tool \in ByItemId             -> <<"id", q.item>>
      [] q.tool = "append_context_event" -> <<"event", "event">>
      [] OTHER                           -> <<"batch", "sync_batch">>

(* _require_ratification; a refusal leaves no trace.                       *)
Gate(w) ==
    /\ at[w] = "gate"
    /\ \/ /\ \/ request[w].dry
             \/ ~RequiresRatification(request[w])
             \/ FindRatifiedProposal(TargetKey(request[w]))
          /\ Steps(w, "load")
       \/ /\ ~request[w].dry /\ RequiresRatification(request[w])
          /\ ~FindRatifiedProposal(TargetKey(request[w]))
          /\ Returns(w)
    /\ UNCHANGED <<Aside, calls, faults, writeVars>>

(***************************************************************************)
(* The service reads its rows and decides.                                 *)
(***************************************************************************)
Exists(i) == items[i] # NoItem

(* The second row: the link, the target item, or the batch of the key.     *)
OtherRow(q) ==
    CASE q.tool = "link_context_entities" -> <<q.item, q.other>> \in links
      [] q.tool = "apply_sync_batch"      -> q.key \in batches
      [] OTHER                            -> FALSE

Refusal(q) ==
    IF q.tool = "upsert_context_item" /\ Exists(q.item) /\ q.expected # 0
          /\ items[q.item].version # q.expected
    THEN "conflict"
    ELSE IF q.tool \in ByItemId /\ ~Exists(q.item) THEN "not_found"
    ELSE IF q.tool = "link_context_entities" /\ ~Exists(q.other) THEN "not_found"
    ELSE IF q.dry THEN "dry_run"
    ELSE "none"

Load(w) ==
    /\ at[w] = "load"
    /\ seen' = [seen EXCEPT ![w] = items[Item(w)]]
    /\ other' = [other EXCEPT ![w] = OtherRow(request[w])]
    /\ result' = [result EXCEPT ![w] = Refusal(request[w])]
    /\ Steps(w, IF Refusal(request[w]) = "none" THEN "commit" ELSE "audit")
    /\ UNCHANGED <<Aside, calls, faults, writeRows, request, auxVars>>

(***************************************************************************)
(* The domain transactions.  The session writes back the columns that      *)
(* differ from what it read: the version always, computed from the row that *)
(* was read, the status only if it was not already the one assigned.       *)
(***************************************************************************)
WritesBack_AllColumns(w, i, status) ==
    items' = [items EXCEPT ![i] = [version |-> seen[w].version + 1, status |-> status]]

WritesBack(w, i, status) ==
    items' = [items EXCEPT ![i] =
                [version |-> seen[w].version + 1,
                 status |-> IF seen[w].status = status THEN items[i].status ELSE status]]

UpsertContextItem(w) ==
    /\ request[w].tool = "upsert_context_item"
    /\ \/ /\ seen[w] = NoItem /\ ~Exists(Item(w))
          /\ items' = [items EXCEPT ![Item(w)] = [version |-> 1, status |-> "active"]]
          /\ result' = [result EXCEPT ![w] = "created"]
       \/ /\ seen[w] # NoItem
          /\ WritesBack(w, Item(w), "active")
          /\ result' = [result EXCEPT ![w] = "updated"]
    /\ UNCHANGED <<links, batches>>

SetContextLabels(w) ==
    /\ request[w].tool = "set_context_labels"
    /\ WritesBack(w, Item(w), seen[w].status)
    /\ result' = [result EXCEPT ![w] = "updated"]
    /\ UNCHANGED <<links, batches>>

ArchiveContextItem(w) ==
    /\ request[w].tool = "archive_context_item"
    /\ WritesBack(w, Item(w), "archived")
    /\ result' = [result EXCEPT ![w] = "archived"]
    /\ UNCHANGED <<links, batches>>

LinkContextEntities(w) ==
    /\ request[w].tool = "link_context_entities"
    /\ \/ other[w] /\ result' = [result EXCEPT ![w] = "updated"]
       \/ /\ ~other[w] /\ ~OtherRow(request[w])
          /\ result' = [result EXCEPT ![w] = "created"]
    /\ links' = links \union {<<Item(w), request[w].other>>}
    /\ UNCHANGED <<items, batches>>

AppendContextEvent(w) ==
    /\ request[w].tool = "append_context_event"
    /\ result' = [result EXCEPT ![w] = "created"]
    /\ UNCHANGED <<items, links, batches>>

InsertSyncBatch_NoKey(w) ==
    /\ request[w].tool = "apply_sync_batch"
    /\ batches' = batches \union {request[w].key}
    /\ result' = [result EXCEPT ![w] = "applied"]
    /\ UNCHANGED <<items, links>>

(* The operations of the batch are counted and named, not executed.        *)
InsertSyncBatch(w) ==
    /\ request[w].tool = "apply_sync_batch"
    /\ ~other[w] /\ ~OtherRow(request[w])
    /\ batches' = batches \union {request[w].key}
    /\ result' = [result EXCEPT ![w] = "applied"]
    /\ UNCHANGED <<items, links>>

CommitWrite(w) ==
    /\ at[w] = "commit"
    /\ \/ UpsertContextItem(w) \/ SetContextLabels(w) \/ ArchiveContextItem(w)
       \/ LinkContextEntities(w) \/ AppendContextEvent(w) \/ InsertSyncBatch(w)
    /\ writes' = [writes EXCEPT ![IdOf(w)] = @ + 1]
    /\ Steps(w, "audit")
    /\ UNCHANGED <<Aside, calls, faults, audit, request, seen, other, cut, told>>

(* create_or_reuse_sync_batch found the batch of an earlier call.          *)
ReuseSyncBatch(w) ==
    /\ at[w] = "commit" /\ request[w].tool = "apply_sync_batch" /\ other[w]
    /\ result' = [result EXCEPT ![w] = "applied"]
    /\ Steps(w, "audit")
    /\ UNCHANGED <<Aside, calls, faults, writeRows, request, seen, other, auxVars>>

(***************************************************************************)
(* Calls that are cut.                                                     *)
(***************************************************************************)
(* The call of w has committed a domain write of its own: it reused no     *)
(* batch of another call.                                                  *)
Wrote(w) ==
    /\ at[w] = "audit" /\ result[w] \in Written
    /\ ~(request[w].tool = "apply_sync_batch" /\ other[w])

CutCall(w) ==
    /\ Returns(w)
    /\ cut' = IF Wrote(w) THEN [cut EXCEPT ![IdOf(w)] = @ + 1] ELSE cut

(* A unique constraint refuses the row: IntegrityError leaves the handler. *)
Refused(w) ==
    /\ at[w] = "commit"
    /\ \/ /\ request[w].tool = "upsert_context_item"
          /\ seen[w] = NoItem /\ Exists(Item(w))
       \/ /\ request[w].tool \in {"link_context_entities", "apply_sync_batch"}
          /\ ~other[w] /\ OtherRow(request[w])

AuditRefused(w) == at[w] = "audit" /\ request[w].key # NoKey /\ audit[IdOf(w)] # "none"

Clash(w) ==
    /\ Refused(w) \/ AuditRefused(w)
    /\ CutCall(w)
    /\ UNCHANGED <<Aside, calls, faults, writeRows, workVars, writes, told>>

(* A statement fails, its reply is lost, or the process dies.              *)
Fault(w) ==
    /\ at[w] # "idle" /\ faults < MaxFaults
    /\ faults' = faults + 1
    /\ CutCall(w)
    /\ UNCHANGED <<Aside, calls, writeRows, workVars, writes, told>>

(***************************************************************************)
(* _write_audit_and_filter: two commits, then the answer.                  *)
(***************************************************************************)
RecordWriteAudit_Overwrites(w) ==
    /\ at[w] = "audit"
    /\ audit' = IF request[w].key # NoKey
                THEN [audit EXCEPT ![IdOf(w)] = result[w]] ELSE audit
    /\ Steps(w, "publish")
    /\ UNCHANGED <<Aside, calls, faults, items, links, batches, workVars, auxVars>>

RecordWriteAudit(w) ==
    /\ at[w] = "audit" /\ ~AuditRefused(w)
    /\ audit' = IF request[w].key # NoKey
                THEN [audit EXCEPT ![IdOf(w)] = result[w]] ELSE audit
    /\ Steps(w, "publish")
    /\ UNCHANGED <<Aside, calls, faults, items, links, batches, workVars, auxVars>>

RecordPublishAudit(w) ==
    /\ at[w] = "publish"
    /\ told' = IF request[w].key # NoKey THEN told \union {<<IdOf(w), result[w]>>} ELSE told
    /\ Returns(w)
    /\ UNCHANGED <<Aside, calls, faults, writeRows, workVars, writes, cut>>

Write ==
    \E w \in Workers :
        \/ \E q \in Requests : CallTool(w, q)
        \/ Replay(w) \/ Gate(w) \/ Load(w) \/ CommitWrite(w) \/ ReuseSyncBatch(w)
        \/ Clash(w) \/ Fault(w) \/ RecordWriteAudit(w) \/ RecordPublishAudit(w)

Next == (Deliberate /\ UNCHANGED writeVars) \/ Write

Spec == Init /\ [][Next]_vars
(***************************************************************************)
(* Properties.                                                             *)
(***************************************************************************)
(* The variables keep their shapes: server.py, context_item_service.py,     *)
(* write_audit_service.py and proposal_service.py.                         *)
TypeOK ==
    /\ active \in SUBSET Workers
    /\ proposals \in [Proposals -> [status : Statuses \union {"none"},
                                    draft : Drafts \union {NoDraft}, ratifiedBy : BOOLEAN,
                                    decision : DecisionKeys \union {NoDecision}]]
    /\ decisions \in [DecisionKeys -> [text : Proposals \union {"none", "seed"},
                                       proposal : Proposals \union {NoProposal}]]
    /\ trail \in [Proposals -> [raised : Nat, ratified : Nat, rejected : Nat]]
    /\ canonical \in BOOLEAN
    /\ at \in [Workers -> WriteStages \union
                 {"idle", "find", "propose", "lookup", "ratify", "reject"}]
    /\ draft \in [Workers -> Drafts \union {NoDraft}]
    /\ about \in [Workers -> Proposals \union {NoProposal}]
    /\ found \in [Workers -> Statuses \union {"none"}]
    /\ sawRow \in [Workers -> BOOLEAN]
    /\ calls \in Nat /\ seeds \in Nat /\ faults \in Nat
    /\ items \in [Items -> [version : Nat, status : {"none", "active", "archived"}]]
    /\ links \subseteq Items \X Items
    /\ batches \subseteq Keys
    /\ audit \in [Requested -> Results \union {"none"}]
    /\ request \in [Workers -> Requests \union {NoRequest}]
    /\ seen \in [Workers -> [version : Nat, status : {"none", "active", "archived"}]]
    /\ other \in [Workers -> BOOLEAN]
    /\ result \in [Workers -> Results \union {"none"}]
    /\ writes \in [Requested -> Nat]
    /\ cut \in [Requested -> Nat]
    /\ told \subseteq Requested \X Results

(* What a client is told is true, replays included (server.py,             *)
(* _existing_replay_payload): a result that says something was written is  *)
(* only given for a key under which something was; and with calls one      *)
(* after the other, a result that says nothing was written is only given   *)
(* for a key all of whose writes, if any, belong to cut calls.             *)
AnswersAreTrue ==
    \A answer \in told :
        /\ answer[2] \in Written => writes[answer[1]] > 0
        /\ Serial /\ answer[2] \in Unwritten => writes[answer[1]] <= cut[answer[1]]

(* With calls one after the other, a key writes once more than it was cut  *)
(* (get_existing_request_audit in front of every service): a retry repeats *)
(* a write only if an earlier call ended between its two commits.          *)
WrittenOnceUnlessCut ==
    Serial => \A tk \in Requested : writes[tk] <= cut[tk] + 1

(* A repeated idempotency_key is replayed, without a second commit         *)
(* (docs/context/adr/ADR-deliberative-context-ratification.md:203).        *)
WrittenOnce == \A tk \in Requested : writes[tk] <= 1

(* A batch is recorded once per key whatever is cut, retried or concurrent *)
(* (create_or_reuse_sync_batch and its unique constraint).                 *)
BatchRecordedOnce ==
    \A k \in Keys : writes[<<"apply_sync_batch", k>>] <= 1

(* A write the policy governs is committed only for a target some human    *)
(* ratified a proposal for (_require_ratification), and with calls one     *)
(* after the other that proposal is ratified still.                        *)
GovernedWritesAreRatified ==
    [][\A w \in Workers :
         at[w] = "commit" /\ writes' # writes /\ at'[w] = "audit" /\ RequiresRatification(request[w])
         => \E p \in Proposals :
              /\ proposals[p].ratifiedBy
              /\ proposals[p].draft.kind = "context_item"
              /\ proposals[p].draft.target = TargetKey(request[w])
              /\ Serial => proposals[p].status = "ratified"]_vars

(* Reading an item and writing it back are separate, and calls interleave  *)
(* in between (context_item_service.py): an archived item is made active   *)
(* again only by an upsert that has read it archived.  An upsert or a      *)
(* change of labels that read it before the archive may overwrite what the *)
(* archive wrote of the version, not its status.                           *)
ArchiveIsKept ==
    [][\A i \in Items :
         items[i].status = "archived" /\ items'[i].status # "archived"
         => \E w \in Workers :
              /\ at[w] = "commit" /\ at'[w] = "audit"
              /\ request[w].tool = "upsert_context_item" /\ Item(w) = i
              /\ seen[w].status = "archived"]_vars

(* A decision with a proposal_id is the result of that ratification        *)
(* (ratify_proposal writes both in one transaction, in that order, and     *)
(* rolls back): the proposal was ratified, for this decision; and with     *)
(* calls one after the other it is ratified still.                         *)
DecisionWasRatified ==
    \A k \in DecisionKeys : decisions[k].proposal # NoProposal =>
        LET p == proposals[decisions[k].proposal]
        IN /\ p.ratifiedBy /\ p.decision = k /\ p.draft.kind = "decision"
           /\ Serial => p.status = "ratified"

(* With calls one after the other a verdict is final and the trail says it *)
(* once (ALLOWED_TRANSITIONS, record_proposal_event in the same            *)
(* transaction): no proposal leaves a terminal status, and it has exactly  *)
(* the verdict events of the status it is in.                              *)
TrailTellsTheVerdict ==
    Serial => \A p \in Proposals :
        /\ trail[p].ratified = (IF proposals[p].status = "ratified" THEN 1 ELSE 0)
        /\ trail[p].rejected = (IF proposals[p].status = "rejected" THEN 1 ELSE 0)

(* A decision changes by ratification only together with the mark that     *)
(* makes the scope it is read from stale (ratify_proposal,                 *)
(* invalidate_context_for_scope), a second time as well as the first.      *)
CanonChangeMakesStale ==
    [][seeds' = seeds /\ decisions' # decisions => ~canonical']_vars

(* The write tools implement WriteLedger: what is recorded in              *)
(* context_write_audit is the one answer of a key (its unique constraint,  *)
(* record_write_audit before the answer, _existing_replay_payload).        *)
Ledger ==
    INSTANCE WriteLedger WITH
        Batches <- {"apply_sync_batch"} \X Keys,
        oneAtATime <- Serial,
        commits <- writes,
        answer <- audit

ImplementsLedger == Ledger!Spec

(* A governed commit uses its proposal up                                  *)
(* (docs/context/adr/ADR-deliberative-context-ratification.md:131): as     *)
(* many keys wrote governed events as proposals were ratified for them.    *)
RatificationIsConsumed ==
    \A q \in Requests : q.tool = "append_context_event" /\ RequiresRatification(q) =>
        Cardinality({k \in Keys : writes[<<q.tool, k>>] > 0})
          <= Cardinality({p \in Proposals : /\ proposals[p].ratifiedBy
                                            /\ proposals[p].draft.target = TargetKey(q)})
=============================================================================
