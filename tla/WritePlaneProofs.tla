-------------------------- MODULE WritePlaneProofs --------------------------
(***************************************************************************)
(* WritePlane keeps its invariant, for any policy, any proposals, requests *)
(* and bounds, and any number of workers.                                  *)
(***************************************************************************)
EXTENDS WritePlaneInv, TLAPS

(* The constants as the proofs use them.                                   *)
LEMMA DraftShape ==
    \A d \in Drafts : /\ d.kind \in {"decision", "context_item"}
                      /\ d.decision \in DecisionKeys
                      /\ d # NoDraft
BY DeliberationOK DEF DeliberationOK

LEMMA RequestShape ==
    \A q \in Requests : /\ q.tool \in WriteTools /\ q.item \in Items /\ q.other \in Items
                        /\ q.key \in Keys \union {NoKey} /\ q.dry \in BOOLEAN
                        /\ q.key = NoKey => q.dry
                        /\ q.key # NoKey => q.key \in Keys /\ <<q.tool, q.key>> \in Requested
BY WritesOK DEF WritesOK, Requested

LEMMA InitInv == Init => IInv
<1> SUFFICES ASSUME Init PROVE IInv
  OBVIOUS
<1> USE DEF Init, InitRows
<1>1. TypeOK
  BY DeliberationOK, WritesOK DEF DeliberationOK, WritesOK, TypeOK, NoRow, NoItem, Statuses
<1>2. CallInv /\ RowInv /\ RatifiedInv /\ DecisionWasRatified /\ GateInv
  BY DEF CallInv, RowInv, RatifiedInv, DecisionWasRatified, GateInv, GateOf, NoRow, WriteStages,
         Proposing, Reviewing
<1>3. ResultInv
  BY DEF ResultInv, ResultOf
<1>4. AuditInv
  BY DEF AuditInv, Written
<1>5. BatchInv
  <2>1. \A k \in Keys : <<"apply_sync_batch", k>> \in Requested
    BY DEF Requested, WriteTools
  <2> QED BY <2>1 DEF BatchInv, BatchRow, BatchOf
<1>6. SerialReviewInv /\ SerialCallInv /\ TrailTellsTheVerdict
  BY DEF SerialReviewInv, SerialCallInv, SerialCallOf, TrailTellsTheVerdict, Reviewing, NoRow
<1>7. SerialWriteInv
  BY DEF SerialWriteInv, Requested
<1> QED BY <1>1, <1>2, <1>3, <1>4, <1>5, <1>6, <1>7 DEF IInv

(***************************************************************************)
(* Steps of the deliberation tools and the seed.  They leave the rows of   *)
(* the write tools alone, so what is said of write calls only depends on   *)
(* where their workers are.                                                *)
(***************************************************************************)
LEMMA OtherCalls ==
    ASSUME IInv, UNCHANGED <<writeVars, active>>,
           \A w \in Workers : at'[w] \in WriteStages => at'[w] = at[w]
    PROVE  ResultInv' /\ AuditInv' /\ BatchInv' /\ SerialCallInv'
<1> USE DEF writeVars, writeRows, workVars, auxVars, IInv
<1>1. ResultInv'
  BY DEF ResultInv, ResultOf, IdOf, WriteStages
<1>2. AuditInv'
  BY DEF AuditInv
<1>3. BatchInv'
  BY DEF BatchInv, BatchRow, BatchOf, WriteStages
<1>4. SerialCallInv'
  BY DEF SerialCallInv, SerialCallOf, Serial, IdOf, Item, WriteStages
<1> QED BY <1>1, <1>2, <1>3, <1>4

LEMMA OtherWrites ==
    ASSUME IInv, UNCHANGED <<writeVars, active>>,
           \A w \in Workers : at[w] = "audit" \/ at'[w] = "audit" => at'[w] = at[w]
    PROVE  SerialWriteInv'
<1> USE DEF writeVars, writeRows, workVars, auxVars
<1>1. \A tk : Owed(tk)' <=> Owed(tk)
  BY DEF Owed, Wrote, IdOf
<1> QED BY <1>1 DEF SerialWriteInv, Serial, IInv

LEMMA SameRows ==
    ASSUME IInv, UNCHANGED <<rowVars, active>>
    PROVE  RowInv' /\ RatifiedInv' /\ DecisionWasRatified' /\ TrailTellsTheVerdict'
BY DEF IInv, rowVars, RowInv, RatifiedInv, DecisionWasRatified, TrailTellsTheVerdict, Decides, Serial

LEMMA OtherGates ==
    ASSUME IInv, UNCHANGED <<request, active>>,
           \A w \in Workers : at'[w] \in {"load", "commit"} => at'[w] = at[w],
           \A p \in Proposals : \A w \in Workers : Opens(p, request[w]) => Opens(p, request[w])'
    PROVE  GateInv'
<1> SUFFICES ASSUME NEW w \in Workers, at'[w] \in {"load", "commit"}, ~request[w].dry,
                    RequiresRatification(request[w])
             PROVE  \E p \in Proposals : Opens(p, request[w])'
  BY DEF GateInv, GateOf, RequiresRatification
<1>1. PICK p \in Proposals : Opens(p, request[w])
  BY DEF IInv, GateInv, GateOf
<1> QED BY <1>1

(* The rows of proposals and their trails, for steps that change one.      *)
ProposalRow == [status : Statuses \union {"none"}, draft : Drafts \union {NoDraft},
                ratifiedBy : BOOLEAN, decision : DecisionKeys \union {NoDecision}]

Counts == [raised : Nat, ratified : Nat, rejected : Nat]

LEMMA NoteType ==
    ASSUME trail \in [Proposals -> Counts], NEW p \in Proposals,
           NEW type \in {"raised", "ratified", "rejected"}, Note(p, type)
    PROVE  trail' \in [Proposals -> Counts]
<1>1. [trail[p] EXCEPT ![type] = trail[p][type] + 1] \in Counts
  <2>1. trail[p] \in Counts
    OBVIOUS
  <2>2. CASE type = "raised"
    BY <2>1, <2>2 DEF Counts
  <2>3. CASE type = "ratified"
    BY <2>1, <2>3 DEF Counts
  <2>4. CASE type = "rejected"
    BY <2>1, <2>4 DEF Counts
  <2> QED BY <2>2, <2>3, <2>4
<1> QED BY <1>1 DEF Note

LEMMA NewRow == ASSUME NEW d \in Drafts
                PROVE [NoRow EXCEPT !.status = "in_review", !.draft = d] \in ProposalRow
BY DEF NoRow, ProposalRow, Statuses

LEMMA RatifiedRow ==
    ASSUME NEW row \in ProposalRow, NEW k \in DecisionKeys \union {NoDecision}
    PROVE  [row EXCEPT !.status = "ratified", !.ratifiedBy = TRUE, !.decision = k] \in ProposalRow
BY DEF ProposalRow, Statuses

LEMMA RejectedRow ==
    ASSUME NEW row \in ProposalRow
    PROVE  [row EXCEPT !.status = "rejected"] \in ProposalRow
BY DEF ProposalRow, Statuses

LEMMA DeliberationType ==
    ASSUME IInv, Deliberate, UNCHANGED writeVars
    PROVE  TypeOK'
<1> USE DEF IInv, TypeOK, writeVars, writeRows, workVars, auxVars, rowVars, talkVars
<1>0. proposals \in [Proposals -> ProposalRow] /\ trail \in [Proposals -> Counts]
  BY DEF ProposalRow, Counts
<1>1. ASSUME NEW w \in Workers, NEW d \in Drafts, ProposeChange(w, d) PROVE TypeOK'
  BY <1>1 DEF ProposeChange, Arrives
<1>2. ASSUME NEW w \in Workers, FindByKey(w) PROVE TypeOK'
  BY <1>2 DEF FindByKey, KeyTaken
<1>3. ASSUME NEW w \in Workers, CommitProposal(w) PROVE TypeOK'
  <2>1. draft[w] \in Drafts
    BY <1>3 DEF CommitProposal, CallInv, Proposing
  <2>2. trail' \in [Proposals -> Counts]
    BY <1>0, <1>3, NoteType DEF CommitProposal
  <2>3. proposals' \in [Proposals -> ProposalRow]
    <3>1. [NoRow EXCEPT !.status = "in_review", !.draft = draft[w]] \in ProposalRow
      BY <2>1, NewRow
    <3> QED BY <1>0, <1>3, <3>1 DEF CommitProposal
  <2> QED BY <1>3, <2>2, <2>3 DEF CommitProposal, Returns, ProposalRow, Counts
<1>4. ASSUME NEW w \in Workers, NEW p \in Proposals, NEW stage \in {"lookup", "reject"},
             Review(w, p, stage) PROVE TypeOK'
  BY <1>4 DEF Review, Arrives
<1>5. ASSUME NEW w \in Workers, LookUpDecision(w) PROVE TypeOK'
  BY <1>5 DEF LookUpDecision, Decides
<1>6. ASSUME NEW w \in Workers, CommitRatification(w) PROVE TypeOK'
  <2> DEFINE p == about[w]
             k == IF Decides(p) THEN proposals[p].draft.decision ELSE NoDecision
  <2>1. p \in Proposals /\ proposals[p].draft.decision \in DecisionKeys
    BY <1>6, DraftShape DEF CommitRatification, CallInv, Reviewing, RowInv
  <2>2. decisions' \in [DecisionKeys -> [text : Proposals \union {"none", "seed"},
                                       proposal : Proposals \union {NoProposal}]]
    BY <1>6, <2>1 DEF CommitRatification
  <2>3. proposals' \in [Proposals -> ProposalRow]
    <3>1. [proposals[p] EXCEPT !.status = "ratified", !.ratifiedBy = TRUE, !.decision = k]
             \in ProposalRow
      BY <1>0, <2>1, RatifiedRow
    <3> QED BY <1>0, <1>6, <2>1, <3>1 DEF CommitRatification
  <2>4. trail' \in [Proposals -> Counts]
    BY <1>0, <1>6, <2>1, NoteType DEF CommitRatification
  <2> QED BY <1>6, <2>2, <2>3, <2>4
        DEF CommitRatification, Returns, InvalidateContextForScope, ProposalRow, Counts
<1>7. ASSUME NEW w \in Workers, CommitRejection(w) PROVE TypeOK'
  <2>1. about[w] \in Proposals
    BY <1>7 DEF CommitRejection, CallInv, Reviewing
  <2>2. proposals' \in [Proposals -> ProposalRow]
    <3>1. [proposals[about[w]] EXCEPT !.status = "rejected"] \in ProposalRow
      BY <1>0, <2>1, RejectedRow
    <3> QED BY <1>0, <1>7, <2>1, <3>1 DEF CommitRejection
  <2>3. trail' \in [Proposals -> Counts]
    BY <1>0, <1>7, <2>1, NoteType DEF CommitRejection
  <2> QED BY <1>7, <2>2, <2>3 DEF CommitRejection, Returns, ProposalRow, Counts
<1>8. ASSUME RunSeed PROVE TypeOK'
  BY <1>8 DEF RunSeed
<1> QED BY <1>1, <1>2, <1>3, <1>4, <1>5, <1>6, <1>7, <1>8 DEF Deliberate, RatifyProposal, RejectProposal

(* What a deliberation step must keep beside the types, and what it keeps  *)
(* because it leaves the rows of the write tools alone.                    *)
Deliberated == CallInv /\ RowInv /\ RatifiedInv /\ DecisionWasRatified /\ GateInv
               /\ SerialReviewInv /\ TrailTellsTheVerdict

LEMMA ArrivingStep ==
    ASSUME IInv, UNCHANGED <<writeVars, active, rowVars>>, NEW w \in Workers,
           at[w] = "idle", w \in active, NEW stage \in {"find", "lookup", "reject"},
           at' = [at EXCEPT ![w] = stage],
           stage = "find" => draft'[w] \in Drafts,
           stage \in Reviewing => /\ about'[w] \in Proposals
                                  /\ proposals[about'[w]].status # "none"
                                  /\ found'[w] = proposals[about'[w]].status,
           \A v \in Workers \ {w} : about'[v] = about[v] /\ draft'[v] = draft[v] /\ found'[v] = found[v]
    PROVE  Deliberated'
<1> USE DEF IInv, TypeOK, rowVars, writeVars, writeRows, workVars, auxVars
<1>1. CallInv'
  BY DEF CallInv, Reviewing, Proposing, WriteStages
<1>2. GateInv'
  BY OtherGates DEF Opens, Serial
<1>3. SerialReviewInv'
  BY DEF SerialReviewInv, Reviewing, Serial
<1> HIDE DEF IInv
<1> QED BY <1>1, <1>2, <1>3, SameRows DEF Deliberated

(* A step from one place of a handler to the next that only reads.         *)
LEMMA ReadingStep ==
    ASSUME IInv, UNCHANGED <<writeVars, active, rowVars, draft, found>>, NEW w \in Workers,
           \/ /\ at[w] = "find" /\ at' = [at EXCEPT ![w] = "propose"]
              /\ about'[w] # NoProposal => proposals[about'[w]].status # "none"
              /\ \A v \in Workers \ {w} : about'[v] = about[v]
           \/ /\ at[w] = "lookup" /\ at' = [at EXCEPT ![w] = "ratify"]
              /\ about' = about
    PROVE  Deliberated'
<1> USE DEF IInv, TypeOK, rowVars, writeVars, writeRows, workVars, auxVars
<1>1. CallInv'
  BY DEF CallInv, Reviewing, Proposing, WriteStages
<1>2. GateInv'
  BY OtherGates DEF Opens, Serial
<1>3. SerialReviewInv'
  BY DEF SerialReviewInv, Reviewing, Serial
<1> HIDE DEF IInv
<1> QED BY <1>1, <1>2, <1>3, SameRows DEF Deliberated

(* With one worker serving, no other one has a call.                       *)
LEMMA Alone ==
    ASSUME CallInv, Serial, NEW w \in active, NEW v \in Workers, at[v] # "idle"
    PROVE  v = w
BY DEF CallInv, Serial

(* A step that ends a deliberation call and changes the row of p at most.  *)
LEMMA CommittingStep ==
    ASSUME IInv, UNCHANGED <<writeVars, active, talkVars>>, NEW w \in Workers,
           at[w] \in Proposing \union Reviewing, at' = [at EXCEPT ![w] = "idle"],
           NEW p \in Proposals, proposals' \in [Proposals -> ProposalRow],
           \A o \in Proposals \ {p} : proposals'[o] = proposals[o],
           proposals[p].status # "none" => /\ proposals'[p].draft = proposals[p].draft
                                           /\ proposals'[p].status # "none",
           proposals[p].ratifiedBy => proposals'[p].ratifiedBy,
           Serial /\ proposals[p].ratifiedBy => proposals'[p].status = "ratified"
    PROVE  CallInv' /\ GateInv'
<1> USE DEF IInv, TypeOK, writeVars, writeRows, workVars, auxVars, talkVars
<1>0. \A o \in Proposals : proposals[o].status # "none" => proposals'[o].status # "none"
  OBVIOUS
<1>1. CallInv'
  <2> SUFFICES ASSUME NEW v \in Workers
               PROVE  /\ at'[v] # "idle" => v \in active
                      /\ at'[v] \in WriteStages => request[v] \in Requests
                      /\ at'[v] \in Proposing => draft[v] \in Drafts
                      /\ at'[v] = "propose" /\ about[v] # NoProposal => proposals'[about[v]].status # "none"
                      /\ at'[v] \in Reviewing => about[v] \in Proposals /\ proposals'[about[v]].status # "none"
    BY DEF CallInv
  <2>1. CASE v = w
    BY <2>1 DEF WriteStages, Proposing, Reviewing
  <2>2. CASE v # w
    BY <2>2, <1>0 DEF CallInv
  <2> QED BY <2>1, <2>2
<1>2. ASSUME NEW o \in Proposals, NEW v \in Workers, Opens(o, request[v])
      PROVE  Opens(o, request[v])'
  <2>1. proposals[o].status # "none"
    BY <1>2 DEF Opens, RowInv, NoRow
  <2> QED BY <1>2, <2>1, ZenonT(60) DEF Opens, Serial
<1>3. GateInv'
  BY <1>2, OtherGates DEF Proposing, Reviewing
<1> QED BY <1>1, <1>3

LEMMA CommitProposalStep ==
    ASSUME IInv, UNCHANGED writeVars, TypeOK', NEW w \in Workers, CommitProposal(w)
    PROVE  Deliberated'
<1> USE DEF writeVars, talkVars
<1>a. /\ TypeOK /\ CallInv /\ RowInv /\ RatifiedInv /\ DecisionWasRatified /\ SerialReviewInv
      /\ TrailTellsTheVerdict
  BY DEF IInv
<1>b. /\ at' = [at EXCEPT ![w] = "idle"] /\ at[w] = "propose" /\ active' = active
      /\ decisions' = decisions /\ UNCHANGED talkVars
  BY DEF CommitProposal, Returns
<1>c. draft[w] \in Drafts /\ proposals' \in [Proposals -> ProposalRow]
  BY <1>a, <1>b DEF CallInv, Proposing, TypeOK, ProposalRow
<1>0. IInv
  OBVIOUS
<1> USE <1>a, <1>b, <1>c
<1>1. ASSUME UNCHANGED proposals, NEW p \in Proposals, Note(p, "raised") \/ UNCHANGED trail
      PROVE  Deliberated'
  <2>1. CallInv' /\ GateInv'
    BY <1>0, <1>1, CommittingStep DEF Proposing, SerialReviewInv
  <2>2. RowInv' /\ RatifiedInv' /\ DecisionWasRatified'
    BY <1>0, <1>1 DEF RowInv, RatifiedInv, DecisionWasRatified, Serial, Decides
  <2>3. SerialReviewInv'
    BY <1>0, <1>1 DEF SerialReviewInv, Reviewing, Serial, TypeOK
  <2>4. TrailTellsTheVerdict'
    BY <1>0, <1>1 DEF TrailTellsTheVerdict, Note, Serial, TypeOK
  <2> QED BY <2>1, <2>2, <2>3, <2>4 DEF Deliberated
<1>2. ASSUME NEW p \in Proposals, proposals[p].status = "none",
             proposals' = [proposals EXCEPT ![p] =
                             [NoRow EXCEPT !.status = "in_review", !.draft = draft[w]]],
             Note(p, "raised")
      PROVE  Deliberated'
  <2>0. /\ proposals[p] = NoRow
        /\ \A o \in Proposals \ {p} : proposals'[o] = proposals[o]
        /\ proposals'[p].status = "in_review" /\ proposals'[p].draft = draft[w]
        /\ proposals'[p].ratifiedBy = FALSE /\ proposals[p].ratifiedBy = FALSE
    BY <1>0, <1>2 DEF RowInv, NoRow, TypeOK
  <2>1. CallInv' /\ GateInv'
    BY <1>0, <1>2, <2>0, CommittingStep DEF Proposing
  <2>2. RowInv' /\ RatifiedInv'
    BY <1>0, <2>0 DEF RowInv, RatifiedInv, Decides
  <2>3. DecisionWasRatified'
    <3>1. \A k \in DecisionKeys : decisions[k].proposal # NoProposal =>
             /\ decisions[k].proposal \in Proposals \ {p}
             /\ proposals'[decisions[k].proposal] = proposals[decisions[k].proposal]
      BY <2>0 DEF DecisionWasRatified, TypeOK
    <3> QED BY <3>1 DEF DecisionWasRatified, Serial
  <2>4. SerialReviewInv'
    <3>1. \A v \in Workers : at'[v] \in Reviewing =>
             at[v] = at'[v] /\ about[v] \in Proposals \ {p}
      BY <1>2 DEF Reviewing, TypeOK, CallInv
    <3> QED BY <2>0, <3>1 DEF SerialReviewInv, Serial
  <2>5. TrailTellsTheVerdict'
    BY <1>0, <1>2, <2>0 DEF TrailTellsTheVerdict, Note, Serial, TypeOK, NoRow
  <2> QED BY <2>1, <2>2, <2>3, <2>4, <2>5 DEF Deliberated
<1>3. \E p \in Proposals :
         \/ UNCHANGED proposals /\ (Note(p, "raised") \/ UNCHANGED trail)
         \/ /\ proposals[p].status = "none"
            /\ proposals' = [proposals EXCEPT ![p] =
                               [NoRow EXCEPT !.status = "in_review", !.draft = draft[w]]]
            /\ Note(p, "raised")
  BY DEF CommitProposal, KeyTaken
<1> QED BY <1>1, <1>2, <1>3

LEMMA Verdicts ==
    ASSUME NEW s
    PROVE  /\ "ratified" \in AllowedTransitions(s) => s = "in_review"
           /\ "rejected" \in AllowedTransitions(s) => s \in {"proposed", "in_review"}
BY DEF AllowedTransitions, Terminal

LEMMA CommitRatificationStep ==
    ASSUME IInv, UNCHANGED writeVars, TypeOK', NEW w \in Workers, CommitRatification(w)
    PROVE  Deliberated'
<1> DEFINE p == about[w]
           k == proposals[p].draft.decision
<1>a. /\ TypeOK /\ CallInv /\ RowInv /\ RatifiedInv /\ DecisionWasRatified /\ SerialReviewInv
      /\ TrailTellsTheVerdict
  BY DEF IInv
<1>b. /\ at' = [at EXCEPT ![w] = "idle"] /\ at[w] = "ratify" /\ active' = active
      /\ UNCHANGED <<draft, about, found, sawRow>> /\ UNCHANGED talkVars
  BY DEF CommitRatification, Returns, talkVars
<1>c. /\ w \in active /\ p \in Proposals /\ proposals[p].status # "none" /\ k \in DecisionKeys
      /\ proposals[p].draft \in Drafts /\ proposals' \in [Proposals -> ProposalRow]
  BY <1>a, <1>b, DraftShape DEF CallInv, Reviewing, RowInv, TypeOK, ProposalRow
<1>d. IInv /\ UNCHANGED writeVars
  OBVIOUS
<1>e. Serial => \A v \in Workers : at'[v] \notin Reviewing
  <2> SUFFICES ASSUME Serial, NEW v \in Workers, at'[v] \in Reviewing
               PROVE  FALSE
    OBVIOUS
  <2>1. v # w /\ at[v] # "idle"
    BY <1>a, <1>b, <1>c DEF TypeOK, Reviewing
  <2> QED BY <2>1, <1>a, <1>c, Alone
<1>1. CASE UNCHANGED rowVars
  <2>1. CallInv' /\ GateInv'
    BY <1>1, <1>a, <1>b, <1>c, <1>d, CommittingStep DEF rowVars, Reviewing, SerialReviewInv
  <2>2. SerialReviewInv'
    BY <1>1, <1>a, <1>b, <1>e DEF SerialReviewInv, Serial, rowVars
  <2> QED BY <1>1, <1>b, <1>d, <2>1, <2>2, SameRows DEF Deliberated
<1>2. CASE /\ "ratified" \in AllowedTransitions(found[w])
           /\ decisions' = IF Decides(p)
                           THEN [decisions EXCEPT ![k] = [text |-> p, proposal |-> p]]
                           ELSE decisions
           /\ proposals' = [proposals EXCEPT ![p] =
                              [@ EXCEPT !.status = "ratified", !.ratifiedBy = TRUE,
                                        !.decision = IF Decides(p) THEN k ELSE NoDecision]]
           /\ Note(p, "ratified")
  <2>1. /\ \A o \in Proposals \ {p} : proposals'[o] = proposals[o]
        /\ proposals'[p].status = "ratified" /\ proposals'[p].ratifiedBy = TRUE
        /\ proposals'[p].draft = proposals[p].draft
        /\ Decides(p) => proposals'[p].decision = k
    <3>1. proposals \in [Proposals -> ProposalRow]
      BY <1>a DEF TypeOK, ProposalRow
    <3>2. proposals[p] \in ProposalRow
      BY <1>c, <3>1
    <3>3. proposals' = [proposals EXCEPT ![p] =
                          [proposals[p] EXCEPT !.status = "ratified", !.ratifiedBy = TRUE,
                                    !.decision = IF Decides(p) THEN k ELSE NoDecision]]
      BY <1>2
    <3> QED BY <1>c, <3>1, <3>2, <3>3 DEF ProposalRow
  <2>2. Serial => proposals[p].status = "in_review"
    BY <1>2, <1>a, <1>b, Verdicts DEF SerialReviewInv, Reviewing
  <2>3. CallInv' /\ GateInv'
    BY <1>b, <1>c, <1>d, <2>1, CommittingStep DEF Reviewing
  <2>4. RowInv' /\ RatifiedInv'
    BY <1>a, <1>c, <2>1 DEF RowInv, RatifiedInv, Decides
  <2>5. DecisionWasRatified'
    <3>1. ASSUME NEW j \in DecisionKeys, decisions'[j].proposal # NoProposal
          PROVE  /\ decisions'[j].proposal \in Proposals
                 /\ proposals'[decisions'[j].proposal].ratifiedBy
                 /\ proposals'[decisions'[j].proposal].decision = j
                 /\ proposals'[decisions'[j].proposal].draft.kind = "decision"
                 /\ Serial => proposals'[decisions'[j].proposal].status = "ratified"
      <4>1. CASE decisions'[j].proposal = p /\ Decides(p) /\ j = k
        BY <4>1, <1>c, <2>1 DEF Decides
      <4>2. CASE decisions'[j] = decisions[j]
        <5> DEFINE o == decisions[j].proposal
        <5>1. /\ o \in Proposals /\ proposals[o].ratifiedBy /\ proposals[o].decision = j
              /\ proposals[o].draft.kind = "decision"
              /\ Serial => proposals[o].status = "ratified"
          BY <4>2, <3>1, <1>a DEF DecisionWasRatified, TypeOK
        <5>2. CASE o = p
          BY <5>1, <5>2, <4>2, <1>a, <2>1 DEF RatifiedInv, Decides
        <5>3. CASE o # p
          BY <5>1, <5>3, <4>2, <2>1
        <5> QED BY <5>2, <5>3
      <4>3. \/ decisions'[j] = decisions[j]
            \/ decisions'[j].proposal = p /\ Decides(p) /\ j = k
        <5>1. DOMAIN decisions = DecisionKeys
          BY <1>a DEF TypeOK
        <5>2. decisions' = IF Decides(p)
                           THEN [decisions EXCEPT ![k] = [text |-> p, proposal |-> p]]
                           ELSE decisions
          BY <1>2
        <5> QED BY <5>1, <5>2
      <4> QED BY <4>1, <4>2, <4>3
    <3> QED BY <3>1, <1>b DEF DecisionWasRatified, Serial
  <2>6. SerialReviewInv'
    BY <1>a, <1>b, <1>e, <2>1 DEF SerialReviewInv, Serial
  <2>7. TrailTellsTheVerdict'
    <3>1. /\ \A o \in Proposals \ {p} : trail'[o] = trail[o]
          /\ trail'[p].ratified = trail[p].ratified + 1 /\ trail'[p].rejected = trail[p].rejected
      <4>1. trail \in [Proposals -> Counts] /\ p \in Proposals
        BY <1>a, <1>c DEF TypeOK, Counts
      <4>2. PICK t : t = [trail[p] EXCEPT !["ratified"] = trail[p].ratified + 1]
        OBVIOUS
      <4>3. trail' = [trail EXCEPT ![p] = t]
        BY <1>2, <4>2 DEF Note
      <4>4. trail[p] \in Counts
        BY <4>1
      <4>5. t.ratified = trail[p].ratified + 1 /\ t.rejected = trail[p].rejected
        BY <4>2, <4>4 DEF Counts
      <4> QED BY <4>1, <4>3, <4>5
    <3>2. Serial' <=> Serial
      BY <1>b DEF Serial
    <3>3. ASSUME Serial, NEW o \in Proposals
          PROVE  /\ trail'[o].ratified = (IF proposals'[o].status = "ratified" THEN 1 ELSE 0)
                 /\ trail'[o].rejected = (IF proposals'[o].status = "rejected" THEN 1 ELSE 0)
      <4>1. /\ trail[o].ratified = (IF proposals[o].status = "ratified" THEN 1 ELSE 0)
            /\ trail[o].rejected = (IF proposals[o].status = "rejected" THEN 1 ELSE 0)
        BY <1>a, <3>3 DEF TrailTellsTheVerdict
      <4>2. CASE o # p
        BY <2>1, <3>1, <4>1, <4>2
      <4>3. CASE o = p
        BY <2>1, <2>2, <3>1, <3>3, <4>1, <4>3
      <4> QED BY <4>2, <4>3
    <3> QED BY <3>2, <3>3 DEF TrailTellsTheVerdict
  <2> QED BY <2>3, <2>4, <2>5, <2>6, <2>7 DEF Deliberated
<1> QED BY <1>1, <1>2 DEF CommitRatification

LEMMA CommitRejectionStep ==
    ASSUME IInv, UNCHANGED writeVars, TypeOK', NEW w \in Workers, CommitRejection(w)
    PROVE  Deliberated'
<1> DEFINE p == about[w]
<1>a. /\ TypeOK /\ CallInv /\ RowInv /\ RatifiedInv /\ DecisionWasRatified /\ SerialReviewInv
      /\ TrailTellsTheVerdict
  BY DEF IInv
<1>b. /\ at' = [at EXCEPT ![w] = "idle"] /\ at[w] = "reject" /\ active' = active
      /\ UNCHANGED <<draft, about, found, sawRow, decisions, canonical>> /\ UNCHANGED talkVars
  BY DEF CommitRejection, Returns, talkVars
<1>c. /\ w \in active /\ p \in Proposals /\ proposals[p].status # "none"
      /\ proposals' \in [Proposals -> ProposalRow]
  BY <1>a, <1>b DEF CallInv, Reviewing, TypeOK, ProposalRow
<1>d. IInv /\ UNCHANGED writeVars
  OBVIOUS
<1>e. Serial => \A v \in Workers : at'[v] \notin Reviewing
  <2> SUFFICES ASSUME Serial, NEW v \in Workers, at'[v] \in Reviewing
               PROVE  FALSE
    OBVIOUS
  <2>1. v # w /\ at[v] # "idle"
    BY <1>a, <1>b, <1>c DEF TypeOK, Reviewing
  <2> QED BY <2>1, <1>a, <1>c, Alone
<1>1. CASE UNCHANGED <<proposals, trail>>
  <2>1. CallInv' /\ GateInv'
    BY <1>1, <1>a, <1>b, <1>c, <1>d, CommittingStep DEF Reviewing, SerialReviewInv
  <2>2. SerialReviewInv'
    BY <1>1, <1>a, <1>b, <1>e DEF SerialReviewInv, Serial
  <2> QED BY <1>1, <1>b, <1>d, <2>1, <2>2, SameRows DEF Deliberated, rowVars
<1>2. CASE /\ "rejected" \in AllowedTransitions(found[w])
           /\ proposals' = [proposals EXCEPT ![p].status = "rejected"]
           /\ Note(p, "rejected")
  <2>1. /\ \A o \in Proposals \ {p} : proposals'[o] = proposals[o]
        /\ proposals'[p].status = "rejected"
        /\ proposals'[p].ratifiedBy = proposals[p].ratifiedBy
        /\ proposals'[p].draft = proposals[p].draft
        /\ proposals'[p].decision = proposals[p].decision
    BY <1>2, <1>a, <1>c DEF TypeOK
  <2>2. Serial => proposals[p].status \in {"proposed", "in_review"} /\ ~proposals[p].ratifiedBy
    BY <1>2, <1>a, <1>b, <1>c, Verdicts DEF SerialReviewInv, Reviewing
  <2>3. CallInv' /\ GateInv'
    BY <1>b, <1>c, <1>d, <2>1, <2>2, CommittingStep DEF Reviewing
  <2>4. RowInv' /\ RatifiedInv'
    BY <1>a, <1>c, <2>1 DEF RowInv, RatifiedInv, Decides
  <2>5. DecisionWasRatified'
    <3>1. \A j \in DecisionKeys : decisions[j].proposal # NoProposal =>
                                    decisions[j].proposal \in Proposals
      BY <1>a DEF TypeOK
    <3> QED BY <3>1, <1>a, <1>b, <2>1, <2>2 DEF DecisionWasRatified, Serial
  <2>6. SerialReviewInv'
    BY <1>a, <1>b, <1>e, <2>1, <2>2 DEF SerialReviewInv, Serial
  <2>7. TrailTellsTheVerdict'
    BY <1>2, <1>a, <1>b, <1>c, <2>1, <2>2 DEF TrailTellsTheVerdict, Note, Serial, TypeOK
  <2> QED BY <2>3, <2>4, <2>5, <2>6, <2>7 DEF Deliberated
<1> QED BY <1>1, <1>2 DEF CommitRejection

LEMMA RunSeedStep ==
    ASSUME IInv, UNCHANGED writeVars, RunSeed
    PROVE  Deliberated'
<1> USE DEF IInv, RunSeed, talkVars, writeVars, workVars
<1>1. CallInv'
  BY DEF CallInv
<1>2. RowInv' /\ RatifiedInv'
  BY DEF RowInv, RatifiedInv, Decides
<1>3. DecisionWasRatified'
  <2>1. \A k \in DecisionKeys : decisions'[k].proposal = decisions[k].proposal
    BY DEF TypeOK
  <2> QED BY <2>1 DEF DecisionWasRatified, Serial
<1>4. GateInv'
  BY OtherGates DEF Opens, Serial
<1>5. SerialReviewInv' /\ TrailTellsTheVerdict'
  BY DEF SerialReviewInv, TrailTellsTheVerdict, Serial
<1> QED BY <1>1, <1>2, <1>3, <1>4, <1>5 DEF Deliberated

LEMMA DeliberationInv ==
    ASSUME IInv, Deliberate, UNCHANGED writeVars
    PROVE  IInv'
<1>0. TypeOK'
  BY DeliberationType
<1>a. TypeOK /\ CallInv /\ IInv
  BY DEF IInv
<1>1. ASSUME NEW w \in Workers, NEW d \in Drafts, ProposeChange(w, d)
      PROVE  Deliberated'
  <2>1. /\ at[w] = "idle" /\ w \in active /\ at' = [at EXCEPT ![w] = "find"] /\ draft'[w] \in Drafts
        /\ UNCHANGED <<active, rowVars>> /\ about' = about /\ found' = found
        /\ \A v \in Workers \ {w} : draft'[v] = draft[v]
    BY <1>1, <1>a DEF ProposeChange, Arrives, TypeOK
  <2> QED BY <2>1, <1>a, ArrivingStep DEF Reviewing
<1>2. ASSUME NEW w \in Workers, FindByKey(w)
      PROVE  Deliberated'
  <2>1. /\ at[w] = "find" /\ at' = [at EXCEPT ![w] = "propose"]
        /\ UNCHANGED <<active, rowVars, draft, found>>
        /\ \A v \in Workers \ {w} : about'[v] = about[v]
    BY <1>2, <1>a DEF FindByKey, TypeOK
  <2>2. about'[w] # NoProposal => proposals[about'[w]].status # "none"
    BY <1>2, <1>a DEF FindByKey, TypeOK, KeyTaken
  <2> QED BY <2>1, <2>2, <1>a, ReadingStep
<1>3. ASSUME NEW w \in Workers, CommitProposal(w)
      PROVE  Deliberated'
  BY <1>0, <1>3, CommitProposalStep
<1>4. ASSUME NEW w \in Workers, NEW p \in Proposals, NEW stage \in {"lookup", "reject"},
             Review(w, p, stage)
      PROVE  Deliberated'
  <2>1. /\ at[w] = "idle" /\ w \in active /\ at' = [at EXCEPT ![w] = stage]
        /\ about'[w] = p /\ proposals[p].status # "none" /\ found'[w] = proposals[p].status
        /\ UNCHANGED <<active, rowVars>> /\ draft' = draft
        /\ \A v \in Workers \ {w} : about'[v] = about[v] /\ found'[v] = found[v]
    BY <1>4, <1>a DEF Review, Arrives, TypeOK
  <2> QED BY <2>1, <1>a, ArrivingStep
<1>5. ASSUME NEW w \in Workers, LookUpDecision(w)
      PROVE  Deliberated'
  <2>1. /\ at[w] = "lookup" /\ at' = [at EXCEPT ![w] = "ratify"] /\ about' = about
        /\ UNCHANGED <<active, rowVars, draft, found>>
    BY <1>5 DEF LookUpDecision
  <2> QED BY <2>1, <1>a, ReadingStep
<1>6. ASSUME NEW w \in Workers, CommitRatification(w)
      PROVE  Deliberated'
  BY <1>0, <1>6, CommitRatificationStep
<1>7. ASSUME NEW w \in Workers, CommitRejection(w)
      PROVE  Deliberated'
  BY <1>0, <1>7, CommitRejectionStep
<1>8. ASSUME RunSeed
      PROVE  Deliberated'
  BY <1>8, RunSeedStep
<1>9. Deliberated'
  BY <1>1, <1>2, <1>3, <1>4, <1>5, <1>6, <1>7, <1>8 DEF Deliberate, RatifyProposal, RejectProposal
<1>10. /\ active' = active
       /\ \/ at' = at
          \/ \E w \in Workers : \E stage \in {"idle"} \union Proposing \union Reviewing :
                at[w] \notin WriteStages /\ at' = [at EXCEPT ![w] = stage]
  BY ZenonT(60)
     DEF Deliberate, ProposeChange, FindByKey, CommitProposal, RatifyProposal, RejectProposal,
         Review, LookUpDecision, CommitRatification, CommitRejection, RunSeed, Arrives, Returns,
         Proposing, Reviewing, WriteStages
<1>11. /\ \A w \in Workers : at'[w] \in WriteStages => at'[w] = at[w]
       /\ \A w \in Workers : at[w] = "audit" \/ at'[w] = "audit" => at'[w] = at[w]
  BY <1>10, <1>a DEF TypeOK, WriteStages, Proposing, Reviewing
<1>12. ResultInv' /\ AuditInv' /\ BatchInv' /\ SerialCallInv' /\ SerialWriteInv'
  BY <1>10, <1>11, OtherCalls, OtherWrites
<1> QED BY <1>0, <1>9, <1>12 DEF IInv, Deliberated

(***************************************************************************)
(* Steps of the write tools.  They leave proposals and decisions alone.    *)
(***************************************************************************)
LEMMA OtherRowIsBoolean == ASSUME NEW q PROVE OtherRow(q) \in BOOLEAN
<1>1. CASE q.tool = "link_context_entities"
  BY <1>1 DEF OtherRow
<1>2. CASE q.tool = "apply_sync_batch"
  BY <1>2 DEF OtherRow
<1>3. CASE q.tool # "link_context_entities" /\ q.tool # "apply_sync_batch"
  BY <1>3 DEF OtherRow
<1> QED BY <1>1, <1>2, <1>3

(* The key of a call that has something to record.                         *)
LEMMA Recorded ==
    ASSUME IInv, NEW w \in Workers, at[w] \in WriteStages, request[w].key # NoKey
    PROVE  IdOf(w) \in Requested /\ request[w].key \in Keys
BY RequestShape DEF IInv, CallInv, IdOf

LEMMA WroteShape ==
    ASSUME IInv, NEW w \in Workers, Wrote(w)
    PROVE  IdOf(w) \in Requested /\ request[w].key # NoKey /\ at[w] = "audit"
BY Recorded, DeliberationOK DEF DeliberationOK, IInv, Wrote, ResultInv, ResultOf, WriteStages

LEMMA WriteType ==
    ASSUME IInv, Write
    PROVE  TypeOK'
<1> USE DEF IInv, TypeOK, Aside, writeRows, workVars, auxVars, rowVars, talkVars, writeVars, WriteStages
<1>1. ASSUME NEW w \in Workers, NEW q \in Requests, CallTool(w, q) PROVE TypeOK'
  BY <1>1 DEF CallTool, Arrives
<1>2. ASSUME NEW w \in Workers, Replay(w) PROVE TypeOK'
  <2>1. request[w].key # NoKey => IdOf(w) \in Requested
    BY <1>2, RequestShape DEF Replay, CallInv, IdOf
  <2>2. told' \subseteq Requested \X Results
    BY <1>2, <2>1 DEF Replay
  <2> QED BY <1>2, <2>2 DEF Replay, Steps, Returns
<1>3. ASSUME NEW w \in Workers, Gate(w) PROVE TypeOK'
  BY <1>3 DEF Gate, Steps, Returns
<1>4. ASSUME NEW w \in Workers, Load(w) PROVE TypeOK'
  <2>1. Item(w) \in Items
    BY <1>4, RequestShape DEF Load, CallInv, Item
  <2>2. Refusal(request[w]) \in Results \union {"none"}
    BY DEF Refusal, Results, Unwritten
  <2>3. OtherRow(request[w]) \in BOOLEAN
    BY OtherRowIsBoolean
  <2> QED BY <1>4, <2>1, <2>2, <2>3 DEF Load, Steps
<1>5. ASSUME NEW w \in Workers, CommitWrite(w) PROVE TypeOK'
  <2>1. /\ Item(w) \in Items /\ request[w].other \in Items /\ request[w].key \in Keys
        /\ IdOf(w) \in Requested
    BY <1>5, RequestShape DEF CommitWrite, CallInv, ResultInv, ResultOf, Item, IdOf
  <2>2. ASSUME NEW status \in {"none", "active", "archived"}, WritesBack(w, Item(w), status)
        PROVE  items' \in [Items -> [version : Nat, status : {"none", "active", "archived"}]]
    BY <2>1, <2>2 DEF WritesBack
  <2> DEFINE Typed == /\ items' \in [Items -> [version : Nat, status : {"none", "active", "archived"}]]
                      /\ links' \subseteq Items \X Items
                      /\ batches' \subseteq Keys
                      /\ result' \in [Workers -> Results \union {"none"}]
  <2>3. Typed
    <3> USE DEF Results, Written
    <3>1. CASE UpsertContextItem(w)
      <4>1. CASE WritesBack(w, Item(w), "active") /\ result' = [result EXCEPT ![w] = "updated"]
        BY <2>2, <3>1, <4>1 DEF UpsertContextItem
      <4>2. CASE /\ items' = [items EXCEPT ![Item(w)] = [version |-> 1, status |-> "active"]]
                 /\ result' = [result EXCEPT ![w] = "created"]
        BY <2>1, <3>1, <4>2 DEF UpsertContextItem
      <4> QED BY <3>1, <4>1, <4>2 DEF UpsertContextItem
    <3>2. CASE SetContextLabels(w)
      <4>1. seen[w].status \in {"none", "active", "archived"}
        OBVIOUS
      <4>2. items' \in [Items -> [version : Nat, status : {"none", "active", "archived"}]]
        BY <2>2, <3>2, <4>1 DEF SetContextLabels
      <4> QED BY <3>2, <4>2 DEF SetContextLabels
    <3>3. CASE ArchiveContextItem(w)
      BY <2>2, <3>3 DEF ArchiveContextItem
    <3>4. CASE LinkContextEntities(w)
      <4>1. items' = items /\ batches' = batches /\ links' = links \union {<<Item(w), request[w].other>>}
        BY <3>4 DEF LinkContextEntities
      <4>2. result' \in [Workers -> Results \union {"none"}]
        BY <3>4 DEF LinkContextEntities
      <4> QED BY <2>1, <4>1, <4>2
    <3>5. CASE AppendContextEvent(w)
      BY <3>5 DEF AppendContextEvent
    <3>6. CASE InsertSyncBatch(w)
      BY <2>1, <3>6 DEF InsertSyncBatch
    <3> QED BY <1>5, <3>1, <3>2, <3>3, <3>4, <3>5, <3>6 DEF CommitWrite
  <2>4. writes' \in [Requested -> Nat]
    BY <1>5, <2>1 DEF CommitWrite
  <2> QED BY <1>5, <2>3, <2>4 DEF CommitWrite, Steps
<1>6. ASSUME NEW w \in Workers, ReuseSyncBatch(w) PROVE TypeOK'
  BY <1>6 DEF ReuseSyncBatch, Steps, Results, Written
<1>7. ASSUME NEW w \in Workers, CutCall(w), \/ Clash(w) \/ Fault(w) PROVE TypeOK'
  <2>1. cut' \in [Requested -> Nat]
    BY <1>7, WroteShape DEF CutCall
  <2> QED BY <1>7, <2>1 DEF CutCall, Clash, Fault, Returns
<1>8. ASSUME NEW w \in Workers, RecordWriteAudit(w) PROVE TypeOK'
  <2>1. result[w] \in Results
    BY <1>8 DEF RecordWriteAudit, ResultInv, ResultOf
  <2> QED BY <1>8, <2>1 DEF RecordWriteAudit, Steps
<1>9. ASSUME NEW w \in Workers, RecordPublishAudit(w) PROVE TypeOK'
  <2>1. result[w] \in Results
    BY <1>9 DEF RecordPublishAudit, ResultInv, ResultOf
  <2>2. request[w].key # NoKey => IdOf(w) \in Requested
    BY <1>9, RequestShape DEF RecordPublishAudit, CallInv, IdOf
  <2> QED BY <1>9, <2>1, <2>2 DEF RecordPublishAudit, Returns
<1> QED BY <1>1, <1>2, <1>3, <1>4, <1>5, <1>6, <1>7, <1>8, <1>9 DEF Write, Clash, Fault

(* The worker w goes to s; proposals and decisions, and what the other     *)
(* workers have, stay.                                                     *)
Moves(w, s) ==
    /\ w \in active /\ at' = [at EXCEPT ![w] = s] /\ UNCHANGED <<active, rowVars, draft, about, found>>
    /\ \A v \in Workers \ {w} : /\ request'[v] = request[v] /\ seen'[v] = seen[v]
                                 /\ other'[v] = other[v] /\ result'[v] = result[v]

(* The tables and counters of the write tools only grow.                   *)
Grows ==
    /\ batches \subseteq batches'
    /\ \A tk \in Requested : writes[tk] <= writes'[tk] /\ (audit[tk] # "none" => audit'[tk] = audit[tk])

(* w owes a commit of tk, as far as w is concerned.                        *)
OwedBy(w, tk) == audit[tk] \in Written \/ (Wrote(w) /\ IdOf(w) = tk)

LEMMA OwedAlone ==
    ASSUME CallInv, Serial, NEW w \in active, w \in Workers, NEW tk
    PROVE  Owed(tk) <=> OwedBy(w, tk)
<1>1. \A v \in Workers : Wrote(v) => v = w
  BY Alone DEF Wrote
<1> QED BY <1>1 DEF Owed, OwedBy

LEMMA WriteFrame ==
    ASSUME IInv, TypeOK', NEW w \in Workers, NEW s \in WriteStages \union {"idle"},
           at[w] \in WriteStages \union {"idle"}, Moves(w, s), Grows,
           s # "idle" => request'[w] \in Requests,
           GateOf(w)', ResultOf(w)', BatchOf(w)', AuditInv', \A k \in Keys : BatchRow(k)',
           Serial => SerialCallOf(w)',
           Serial => \A tk \in Requested :
                       writes'[tk] <= cut'[tk] + (IF OwedBy(w, tk)' THEN 1 ELSE 0)
    PROVE  IInv'
<1>a. /\ IInv /\ TypeOK /\ CallInv /\ GateInv /\ ResultInv /\ BatchInv /\ SerialReviewInv
      /\ w \in active /\ active' = active /\ at' = [at EXCEPT ![w] = s] /\ UNCHANGED rowVars
      /\ \A v \in Workers \ {w} : /\ at'[v] = at[v] /\ request'[v] = request[v] /\ seen'[v] = seen[v]
                                   /\ other'[v] = other[v] /\ result'[v] = result[v]
      /\ at'[w] = s
  BY DEF IInv, Moves, TypeOK
<1>1. RowInv' /\ RatifiedInv' /\ DecisionWasRatified' /\ TrailTellsTheVerdict'
  BY <1>a, SameRows
<1>2. CallInv'
  <2>1. \A v \in Workers : at'[v] \in Proposing \union Reviewing => v # w /\ at'[v] = at[v]
    BY <1>a DEF WriteStages, Proposing, Reviewing
  <2>2. proposals' = proposals /\ about' = about /\ draft' = draft
    BY DEF Moves, rowVars
  <2> SUFFICES ASSUME NEW v \in Workers
               PROVE  /\ at'[v] # "idle" => v \in active
                      /\ at'[v] \in WriteStages => request'[v] \in Requests
                      /\ at'[v] \in Proposing => draft[v] \in Drafts
                      /\ at'[v] = "propose" /\ about[v] # NoProposal => proposals[about[v]].status # "none"
                      /\ at'[v] \in Reviewing => about[v] \in Proposals /\ proposals[about[v]].status # "none"
    BY <1>a, <2>2 DEF CallInv
  <2>3. CASE v = w
    BY <2>1, <2>3, <1>a DEF WriteStages, Proposing
  <2>4. CASE v # w
    BY <2>4, <1>a DEF CallInv
  <2> QED BY <2>3, <2>4
<1>3. GateInv'
  <2> SUFFICES ASSUME NEW v \in Workers, v # w PROVE GateOf(v)'
    BY DEF GateInv
  <2>1. ASSUME NEW p \in Proposals, Opens(p, request[v]) PROVE Opens(p, request[v])'
    BY <1>a, <2>1 DEF Opens, Serial, rowVars, TargetKey
  <2>2. GateOf(v)
    BY <1>a DEF GateInv
  <2>3. RequiresRatification(request[v])' <=> RequiresRatification(request[v])
    BY <1>a DEF RequiresRatification
  <2> QED BY <1>a, <2>1, <2>2, <2>3 DEF GateOf
<1>4. ResultInv'
  <2> SUFFICES ASSUME NEW v \in Workers, v # w PROVE ResultOf(v)'
    BY DEF ResultInv
  <2>1. ResultOf(v)
    BY <1>a DEF ResultInv
  <2>2. IdOf(v)' = IdOf(v)
    BY <1>a DEF IdOf
  <2>3. ASSUME at[v] = "publish" \/ at[v] = "audit", request[v].key # NoKey
        PROVE  /\ audit[IdOf(v)] # "none" => audit'[IdOf(v)] = audit[IdOf(v)]
               /\ writes[IdOf(v)] <= writes'[IdOf(v)] /\ writes[IdOf(v)] \in Nat
               /\ writes'[IdOf(v)] \in Nat
    BY <1>a, <2>3, Recorded DEF Grows, WriteStages, TypeOK
  <2>4. "none" \notin Results /\ NoKey \notin Keys
    BY DeliberationOK DEF DeliberationOK, Results, Written, Unwritten
  <2> QED BY <1>a, <2>1, <2>2, <2>3, <2>4 DEF ResultOf
<1>5. BatchInv'
  BY <1>a DEF BatchInv, BatchOf, Grows
<1>6. SerialReviewInv'
  BY <1>a DEF SerialReviewInv, Serial, Moves, rowVars, WriteStages, Reviewing
<1>7. SerialCallInv'
  <2> SUFFICES ASSUME Serial', NEW v \in Workers, v # w PROVE SerialCallOf(v)'
    BY <1>a DEF SerialCallInv, Serial
  <2>1. at[v] = "idle"
    BY <1>a, Alone DEF Serial
  <2> QED BY <1>a, <2>1 DEF SerialCallOf
<1>8. SerialWriteInv'
  <2> SUFFICES ASSUME Serial', NEW tk \in Requested
               PROVE  writes'[tk] <= cut'[tk] + (IF Owed(tk)' THEN 1 ELSE 0)
    BY DEF SerialWriteInv
  <2>1. Serial
    BY <1>a DEF Serial
  <2>2. \A v \in Workers : Wrote(v)' => v = w
    BY <1>a, <2>1, Alone DEF Wrote
  <2>3. Owed(tk)' <=> OwedBy(w, tk)'
    BY <2>2 DEF Owed, OwedBy
  <2> QED BY <2>1, <2>3
<1> QED BY <1>1, <1>2, <1>3, <1>4, <1>5, <1>6, <1>7, <1>8 DEF IInv

(* Steps that leave the audit rows, the batches and the counts alone.      *)
LEMMA QuietStep ==
    ASSUME IInv, UNCHANGED <<audit, writes, batches, told>>
    PROVE  AuditInv' /\ Grows /\ \A k \in Keys : BatchRow(k)'
BY DEF IInv, TypeOK, AuditInv, Grows, BatchInv, BatchRow

LEMMA StillOwed ==
    ASSUME IInv, NEW w \in Workers, w \in active, UNCHANGED <<writes, cut>>,
           \A tk \in Requested : OwedBy(w, tk) => OwedBy(w, tk)'
    PROVE  Serial => \A tk \in Requested : writes'[tk] <= cut'[tk] + (IF OwedBy(w, tk)' THEN 1 ELSE 0)
<1> SUFFICES ASSUME Serial, NEW tk \in Requested
             PROVE  writes[tk] <= cut[tk] + (IF OwedBy(w, tk)' THEN 1 ELSE 0)
  OBVIOUS
<1>1. writes[tk] <= cut[tk] + (IF Owed(tk) THEN 1 ELSE 0) /\ writes[tk] \in Nat /\ cut[tk] \in Nat
  BY DEF IInv, SerialWriteInv, TypeOK
<1>2. Owed(tk) => OwedBy(w, tk)'
  BY OwedAlone DEF IInv
<1> QED BY <1>1, <1>2

LEMMA CallToolStep ==
    ASSUME IInv, TypeOK', NEW w \in Workers, NEW q \in Requests, CallTool(w, q)
    PROVE  IInv'
<1>1. /\ at[w] = "idle" /\ Moves(w, "replay") /\ request'[w] \in Requests /\ at'[w] = "replay"
      /\ UNCHANGED <<audit, writes, batches, told>> /\ UNCHANGED <<writes, cut>>
  BY DEF CallTool, Arrives, Moves, Aside, talkVars, writeRows, auxVars, IInv, TypeOK
<1>2. GateOf(w)' /\ ResultOf(w)' /\ BatchOf(w)' /\ SerialCallOf(w)'
  BY <1>1 DEF GateOf, ResultOf, BatchOf, SerialCallOf
<1>3. \A tk \in Requested : OwedBy(w, tk) => OwedBy(w, tk)'
  BY <1>1 DEF OwedBy, Wrote
<1>4. AuditInv' /\ Grows /\ \A k \in Keys : BatchRow(k)'
  BY <1>1, QuietStep
<1>5. w \in active
  BY <1>1 DEF Moves
<1>6. Serial => \A tk \in Requested : writes'[tk] <= cut'[tk] + (IF OwedBy(w, tk)' THEN 1 ELSE 0)
  BY <1>1, <1>3, <1>5, StillOwed
<1> QED BY <1>1, <1>2, <1>4, <1>6, WriteFrame DEF WriteStages

LEMMA ReplayStep ==
    ASSUME IInv, TypeOK', NEW w \in Workers, Replay(w)
    PROVE  IInv'
<1> DEFINE known == request[w].key # NoKey /\ audit[IdOf(w)] # "none"
           s == IF known THEN "idle" ELSE "gate"
<1>1. /\ at[w] = "replay" /\ w \in active /\ request[w] \in Requests /\ request' = request
      /\ audit' = audit /\ UNCHANGED <<audit, writes, batches>> /\ UNCHANGED <<writes, cut>>
  BY DEF Replay, Aside, writeRows, workVars, IInv, CallInv, WriteStages
<1>2. Moves(w, s) /\ at'[w] = s /\ s \in {"idle", "gate"}
  BY <1>1 DEF Replay, Moves, Steps, Returns, Aside, talkVars, workVars, IInv, TypeOK
<1>3. GateOf(w)' /\ ResultOf(w)' /\ BatchOf(w)'
  BY <1>2 DEF GateOf, ResultOf, BatchOf
<1>4. SerialCallOf(w)'
  BY <1>1, <1>2 DEF SerialCallOf, IdOf
<1>5. told' \subseteq told \union {<<IdOf(w), audit[IdOf(w)]>>}
  BY DEF Replay
<1>6. AuditInv' /\ Grows /\ \A k \in Keys : BatchRow(k)'
  BY <1>1, <1>5 DEF IInv, TypeOK, AuditInv, Grows, BatchInv, BatchRow
<1>7. \A tk \in Requested : OwedBy(w, tk) => OwedBy(w, tk)'
  BY <1>1 DEF OwedBy, Wrote
<1>8. Serial => \A tk \in Requested : writes'[tk] <= cut'[tk] + (IF OwedBy(w, tk)' THEN 1 ELSE 0)
  BY <1>1, <1>7, StillOwed
<1> HIDE DEF s
<1> QED BY <1>1, <1>2, <1>3, <1>4, <1>6, <1>8, WriteFrame DEF WriteStages

LEMMA GateStep ==
    ASSUME IInv, TypeOK', NEW w \in Workers, Gate(w)
    PROVE  IInv'
<1>1. /\ at[w] = "gate" /\ w \in active /\ request[w] \in Requests /\ request' = request
      /\ UNCHANGED <<audit, writes, batches, told>> /\ UNCHANGED <<writes, cut>> /\ active' = active
      /\ proposals' = proposals
  BY DEF Gate, Aside, rowVars, writeVars, writeRows, workVars, auxVars, IInv, CallInv, WriteStages
<1>2. PICK s \in {"load", "idle"} :
        /\ Moves(w, s) /\ at'[w] = s
        /\ s = "load" => \/ request[w].dry \/ ~RequiresRatification(request[w])
                         \/ FindRatifiedProposal(TargetKey(request[w]))
  BY <1>1 DEF Gate, Moves, Steps, Returns, Aside, talkVars, writeVars, workVars, IInv, TypeOK
<1>3. GateOf(w)'
  <2>1. ASSUME FindRatifiedProposal(TargetKey(request[w]))
        PROVE  \E p \in Proposals : Opens(p, request[w])
    BY <2>1 DEF FindRatifiedProposal, Opens, IInv, RatifiedInv
  <2>2. ASSUME NEW p \in Proposals, Opens(p, request[w]) PROVE Opens(p, request[w])'
    BY <1>1, <2>2 DEF Opens, Serial, TargetKey
  <2>3. RequiresRatification(request[w])' <=> RequiresRatification(request[w])
    BY <1>1 DEF RequiresRatification
  <2> QED BY <1>1, <1>2, <2>1, <2>2, <2>3 DEF GateOf
<1>4. ResultOf(w)' /\ BatchOf(w)'
  BY <1>2 DEF ResultOf, BatchOf
<1>5. Serial => SerialCallOf(w)'
  BY <1>1, <1>2 DEF SerialCallOf, IdOf, IInv, SerialCallInv
<1>6. AuditInv' /\ Grows /\ \A k \in Keys : BatchRow(k)'
  BY <1>1, QuietStep
<1>7. \A tk \in Requested : OwedBy(w, tk) => OwedBy(w, tk)'
  BY <1>1 DEF OwedBy, Wrote
<1>8. Serial => \A tk \in Requested : writes'[tk] <= cut'[tk] + (IF OwedBy(w, tk)' THEN 1 ELSE 0)
  BY <1>1, <1>7, StillOwed
<1> QED BY <1>1, <1>2, <1>3, <1>4, <1>5, <1>6, <1>8, WriteFrame DEF WriteStages

LEMMA Refusals ==
    ASSUME NEW q
    PROVE  /\ Refusal(q) \in Unwritten \union {"none"}
           /\ Refusal(q) = "none" => ~q.dry
BY DEF Refusal, Unwritten

LEMMA LoadStep ==
    ASSUME IInv, TypeOK', NEW w \in Workers, Load(w)
    PROVE  IInv'
<1> DEFINE s == IF Refusal(request[w]) = "none" THEN "commit" ELSE "audit"
<1>1. /\ at[w] = "load" /\ w \in active /\ request[w] \in Requests /\ request' = request
      /\ UNCHANGED <<audit, writes, batches, told, items>> /\ UNCHANGED <<writes, cut>>
      /\ active' = active /\ proposals' = proposals /\ IdOf(w)' = IdOf(w)
  BY DEF Load, Aside, rowVars, writeRows, auxVars, IInv, CallInv, WriteStages, IdOf
<1>2. Moves(w, s) /\ at'[w] = s /\ s \in {"commit", "audit"}
  BY <1>1 DEF Load, Moves, Steps, Aside, talkVars, IInv, TypeOK
<1>3. /\ seen'[w] = items[Item(w)] /\ other'[w] = OtherRow(request[w])
      /\ result'[w] = Refusal(request[w])
  BY DEF Load, IInv, TypeOK
<1>4. GateOf(w)'
  <2>1. ASSUME NEW p \in Proposals, Opens(p, request[w]) PROVE Opens(p, request[w])'
    BY <1>1, <2>1 DEF Opens, Serial, TargetKey
  <2>2. RequiresRatification(request[w])' <=> RequiresRatification(request[w])
    BY <1>1 DEF RequiresRatification
  <2>3. GateOf(w)
    BY DEF IInv, GateInv
  <2> QED BY <1>1, <1>2, <2>1, <2>2, <2>3 DEF GateOf
<1>5. ResultOf(w)'
  BY <1>1, <1>2, <1>3, Refusals DEF ResultOf, Results, Written, Unwritten
<1>6. BatchOf(w)'
  BY <1>1, <1>3 DEF BatchOf, OtherRow
<1>7. Serial => SerialCallOf(w)'
  BY <1>1, <1>2, <1>3 DEF SerialCallOf, Item, IInv, SerialCallInv
<1>8. AuditInv' /\ Grows /\ \A k \in Keys : BatchRow(k)'
  BY <1>1, QuietStep
<1>9. \A tk \in Requested : OwedBy(w, tk) => OwedBy(w, tk)'
  BY <1>1 DEF OwedBy, Wrote
<1>10. Serial => \A tk \in Requested : writes'[tk] <= cut'[tk] + (IF OwedBy(w, tk)' THEN 1 ELSE 0)
  BY <1>1, <1>9, StillOwed
<1> HIDE DEF s
<1> QED BY <1>1, <1>2, <1>4, <1>5, <1>6, <1>7, <1>8, <1>10, WriteFrame DEF WriteStages

(* What the six domain transactions have in common.                        *)
LEMMA Transactions ==
    ASSUME TypeOK, NEW w \in Workers,
           \/ UpsertContextItem(w) \/ SetContextLabels(w) \/ ArchiveContextItem(w)
           \/ LinkContextEntities(w) \/ AppendContextEvent(w) \/ InsertSyncBatch(w)
    PROVE  /\ result'[w] \in Written
           /\ \A v \in Workers \ {w} : result'[v] = result[v]
           /\ batches' = IF request[w].tool = "apply_sync_batch"
                         THEN batches \union {request[w].key} ELSE batches
           /\ request[w].tool = "apply_sync_batch" => ~other[w] /\ request[w].key \notin batches
<1> USE DEF TypeOK, Written
<1>1. CASE UpsertContextItem(w)
  BY <1>1 DEF UpsertContextItem
<1>2. CASE SetContextLabels(w)
  BY <1>2 DEF SetContextLabels
<1>3. CASE ArchiveContextItem(w)
  BY <1>3 DEF ArchiveContextItem
<1>4. CASE LinkContextEntities(w)
  BY <1>4 DEF LinkContextEntities
<1>5. CASE AppendContextEvent(w)
  BY <1>5 DEF AppendContextEvent
<1>6. CASE InsertSyncBatch(w)
  BY <1>6 DEF InsertSyncBatch, OtherRow
<1> QED BY <1>1, <1>2, <1>3, <1>4, <1>5, <1>6

LEMMA CommitWriteStep ==
    ASSUME IInv, TypeOK', NEW w \in Workers, CommitWrite(w)
    PROVE  IInv'
<1> DEFINE tk0 == IdOf(w)
<1>0. TypeOK /\ AuditInv /\ BatchInv /\ ResultOf(w)
  BY DEF IInv, ResultInv
<1>1. /\ at[w] = "commit" /\ w \in active /\ request[w] \in Requests /\ request' = request
      /\ UNCHANGED <<audit, other, cut, told>> /\ IdOf(w)' = IdOf(w) /\ active' = active
      /\ writes' = [writes EXCEPT ![tk0] = @ + 1] /\ at' = [at EXCEPT ![w] = "audit"]
  BY DEF CommitWrite, Steps, Aside, IInv, CallInv, WriteStages, IdOf
<1>2. request[w].key \in Keys /\ tk0 \in Requested /\ tk0 = <<request[w].tool, request[w].key>>
  BY <1>0, <1>1, RequestShape DEF ResultOf, IdOf
<1>3. /\ result'[w] \in Written
      /\ \A v \in Workers \ {w} : result'[v] = result[v]
      /\ batches' = IF request[w].tool = "apply_sync_batch"
                    THEN batches \union {request[w].key} ELSE batches
      /\ request[w].tool = "apply_sync_batch" => ~other[w] /\ request[w].key \notin batches
  BY <1>0, Transactions DEF CommitWrite
<1>4. Moves(w, "audit") /\ at'[w] = "audit"
  BY <1>0, <1>1, <1>3 DEF CommitWrite, Moves, Aside, talkVars, TypeOK
<1>5. /\ writes'[tk0] = writes[tk0] + 1 /\ writes[tk0] \in Nat
      /\ \A tk \in Requested \ {tk0} : writes'[tk] = writes[tk]
  BY <1>0, <1>1, <1>2 DEF TypeOK
<1>6. GateOf(w)' /\ BatchOf(w)'
  BY <1>4 DEF GateOf, BatchOf
<1>7. ResultOf(w)'
  BY <1>1, <1>2, <1>3, <1>4, <1>5 DEF ResultOf, Results
<1>8. AuditInv' /\ Grows
  BY <1>0, <1>1, <1>3, <1>5 DEF AuditInv, Grows, TypeOK
<1>9. ASSUME NEW k \in Keys PROVE BatchRow(k)'
  <2>1. <<"apply_sync_batch", k>> \in Requested /\ BatchRow(k)
    BY <1>0 DEF Requested, WriteTools, BatchInv
  <2>2. CASE tk0 = <<"apply_sync_batch", k>>
    BY <2>1, <2>2, <1>2, <1>3, <1>5 DEF BatchRow
  <2>3. CASE tk0 # <<"apply_sync_batch", k>>
    BY <2>1, <2>3, <1>2, <1>3, <1>5 DEF BatchRow
  <2> QED BY <2>2, <2>3
<1>10. Serial => SerialCallOf(w)'
  BY <1>1, <1>4 DEF SerialCallOf, IInv, SerialCallInv
<1>11. ASSUME Serial, NEW tk \in Requested
       PROVE  writes'[tk] <= cut'[tk] + (IF OwedBy(w, tk)' THEN 1 ELSE 0)
  <2>1. /\ writes[tk] <= cut[tk] + (IF OwedBy(w, tk) THEN 1 ELSE 0)
        /\ cut[tk] \in Nat /\ writes[tk] \in Nat /\ cut' = cut
    BY <1>0, <1>1, <1>11, OwedAlone DEF IInv, SerialWriteInv, TypeOK
  <2>2. ~Wrote(w)
    BY <1>1 DEF Wrote
  <2>3. CASE tk = tk0
    <3>1. audit[tk0] = "none"
      BY <1>1, <1>2, <1>11, DeliberationOK DEF DeliberationOK, IInv, SerialCallInv, SerialCallOf
    <3>2. ~OwedBy(w, tk)
      BY <2>2, <2>3, <3>1 DEF OwedBy, Written
    <3>3. OwedBy(w, tk)'
      BY <1>1, <1>3, <1>4, <2>3 DEF OwedBy, Wrote
    <3> QED BY <2>1, <2>3, <3>2, <3>3, <1>5
  <2>4. CASE tk # tk0
    <3>1. OwedBy(w, tk) => OwedBy(w, tk)'
      BY <2>2, <1>1 DEF OwedBy
    <3>2. writes'[tk] = writes[tk]
      BY <2>4, <1>5
    <3> QED BY <2>1, <3>1, <3>2
  <2> QED BY <2>3, <2>4
<1> HIDE DEF tk0
<1> QED BY <1>1, <1>4, <1>6, <1>7, <1>8, <1>9, <1>10, <1>11, WriteFrame DEF WriteStages

LEMMA ReuseStep ==
    ASSUME IInv, TypeOK', NEW w \in Workers, ReuseSyncBatch(w)
    PROVE  IInv'
<1>0. TypeOK /\ BatchInv /\ ResultOf(w)
  BY DEF IInv, ResultInv
<1>1. /\ at[w] = "commit" /\ w \in active /\ request[w] \in Requests /\ request' = request
      /\ other' = other /\ UNCHANGED <<audit, writes, batches, told>> /\ UNCHANGED <<writes, cut>>
      /\ IdOf(w)' = IdOf(w) /\ request[w].tool = "apply_sync_batch" /\ other[w]
      /\ result' = [result EXCEPT ![w] = "applied"] /\ at' = [at EXCEPT ![w] = "audit"]
  BY DEF ReuseSyncBatch, Steps, writeRows, auxVars, IInv, CallInv, WriteStages, IdOf
<1>2. Moves(w, "audit") /\ at'[w] = "audit" /\ result'[w] = "applied"
  BY <1>0, <1>1 DEF ReuseSyncBatch, Moves, Aside, talkVars, TypeOK
<1>3. request[w].key \in batches /\ writes[IdOf(w)] = 1 /\ request[w].key \in Keys
  BY <1>0, <1>1, RequestShape DEF BatchInv, BatchOf, BatchRow, IdOf, ResultOf
<1>4. GateOf(w)' /\ BatchOf(w)'
  BY <1>2 DEF GateOf, BatchOf
<1>5. ResultOf(w)'
  BY <1>1, <1>2, <1>3 DEF ResultOf, Results, Written
<1>6. AuditInv' /\ Grows /\ \A k \in Keys : BatchRow(k)'
  BY <1>1, QuietStep
<1>7. Serial => SerialCallOf(w)'
  BY <1>1, <1>2 DEF SerialCallOf, IInv, SerialCallInv
<1>8. \A tk \in Requested : OwedBy(w, tk) => OwedBy(w, tk)'
  BY <1>1 DEF OwedBy, Wrote
<1>9. Serial => \A tk \in Requested : writes'[tk] <= cut'[tk] + (IF OwedBy(w, tk)' THEN 1 ELSE 0)
  BY <1>1, <1>8, StillOwed
<1> QED BY <1>1, <1>2, <1>4, <1>5, <1>6, <1>7, <1>9, WriteFrame DEF WriteStages

(* A call of a write tool is cut, where it clashes or anywhere.            *)
LEMMA CutCallStep ==
    ASSUME IInv, TypeOK', NEW w \in Workers, at[w] \in WriteStages, CutCall(w),
           UNCHANGED <<Aside, writeRows, workVars, writes, told>>
    PROVE  IInv'
<1>0. TypeOK /\ CallInv
  BY DEF IInv
<1>1. /\ w \in active /\ request[w] \in Requests /\ request' = request /\ IdOf(w)' = IdOf(w)
      /\ UNCHANGED <<audit, writes, batches, told>> /\ at' = [at EXCEPT ![w] = "idle"]
  BY <1>0 DEF CutCall, Returns, writeRows, workVars, CallInv, WriteStages, IdOf
<1>2. Moves(w, "idle") /\ at'[w] = "idle"
  BY <1>0, <1>1 DEF Moves, Aside, talkVars, workVars, TypeOK
<1>3. GateOf(w)' /\ BatchOf(w)' /\ ResultOf(w)' /\ SerialCallOf(w)'
  BY <1>2 DEF GateOf, BatchOf, ResultOf, SerialCallOf
<1>4. AuditInv' /\ Grows /\ \A k \in Keys : BatchRow(k)'
  BY <1>1, QuietStep
<1>5. ASSUME Serial, NEW tk \in Requested
      PROVE  writes'[tk] <= cut'[tk] + (IF OwedBy(w, tk)' THEN 1 ELSE 0)
  <2>1. /\ writes[tk] <= cut[tk] + (IF OwedBy(w, tk) THEN 1 ELSE 0)
        /\ cut[tk] \in Nat /\ writes[tk] \in Nat /\ writes'[tk] = writes[tk]
    BY <1>0, <1>1, <1>5, OwedAlone DEF IInv, SerialWriteInv, TypeOK
  <2>2. CASE Wrote(w) /\ IdOf(w) = tk
    <3>1. cut'[tk] = cut[tk] + 1
      BY <1>0, <2>2 DEF CutCall, TypeOK
    <3> QED BY <2>1, <3>1
  <2>3. CASE ~(Wrote(w) /\ IdOf(w) = tk)
    <3>1. cut'[tk] = cut[tk]
      BY <1>0, <2>3 DEF CutCall, TypeOK
    <3>2. OwedBy(w, tk) => OwedBy(w, tk)'
      BY <1>1, <2>3 DEF OwedBy
    <3> QED BY <2>1, <3>1, <3>2
  <2> QED BY <2>2, <2>3
<1> QED BY <1>1, <1>2, <1>3, <1>4, <1>5, WriteFrame

LEMMA RecordWriteAuditStep ==
    ASSUME IInv, TypeOK', NEW w \in Workers, RecordWriteAudit(w)
    PROVE  IInv'
<1>0. TypeOK /\ CallInv /\ ResultOf(w) /\ AuditInv /\ BatchInv
  BY DEF IInv, ResultInv
<1>1. /\ at[w] = "audit" /\ w \in active /\ request[w] \in Requests /\ request' = request
      /\ IdOf(w)' = IdOf(w) /\ UNCHANGED <<writes, cut>> /\ UNCHANGED <<writes, batches, told, result>>
      /\ at' = [at EXCEPT ![w] = "publish"]
      /\ request[w].key # NoKey => audit[IdOf(w)] = "none" /\ audit' = [audit EXCEPT ![IdOf(w)] = result[w]]
      /\ request[w].key = NoKey => audit' = audit
  BY <1>0 DEF RecordWriteAudit, AuditRefused, Steps, workVars, auxVars, CallInv, WriteStages, IdOf
<1>2. Moves(w, "publish") /\ at'[w] = "publish"
  BY <1>0, <1>1 DEF RecordWriteAudit, Moves, Aside, talkVars, workVars, TypeOK
<1>3. request[w].key # NoKey => IdOf(w) \in Requested /\ audit'[IdOf(w)] = result[w]
  BY <1>0, <1>1, RequestShape DEF TypeOK, IdOf
<1>4. \A tk \in Requested : audit'[tk] = audit[tk] \/ (tk = IdOf(w) /\ audit[tk] = "none" /\ audit'[tk] = result[w])
  BY <1>0, <1>1 DEF TypeOK
<1>5. GateOf(w)' /\ BatchOf(w)' /\ SerialCallOf(w)'
  BY <1>2 DEF GateOf, BatchOf, SerialCallOf
<1>6. ResultOf(w)'
  BY <1>0, <1>1, <1>2, <1>3 DEF ResultOf
<1>7. AuditInv'
  <2>0. told \subseteq Requested \X Results /\ "none" \notin Results
    BY <1>0 DEF TypeOK, Results, Written, Unwritten
  <2>1. \A answer \in told : answer[1] \in Requested /\ answer[2] # "none"
    BY <2>0
  <2> QED BY <2>1, <1>0, <1>1, <1>4 DEF AuditInv, ResultOf
<1>8. Grows /\ \A k \in Keys : BatchRow(k)'
  BY <1>0, <1>1, <1>4 DEF Grows, BatchInv, BatchRow, TypeOK
<1>9. \A tk \in Requested : OwedBy(w, tk) => OwedBy(w, tk)'
  <2> SUFFICES ASSUME NEW tk \in Requested, OwedBy(w, tk) PROVE OwedBy(w, tk)'
    OBVIOUS
  <2>1. CASE audit[tk] \in Written
    BY <2>1, <1>4 DEF OwedBy, Written
  <2>2. CASE Wrote(w) /\ IdOf(w) = tk
    BY <2>2, <1>3, WroteShape DEF OwedBy, Wrote
  <2> QED BY <2>1, <2>2 DEF OwedBy
<1>10. Serial => \A tk \in Requested : writes'[tk] <= cut'[tk] + (IF OwedBy(w, tk)' THEN 1 ELSE 0)
  BY <1>1, <1>9, StillOwed
<1> QED BY <1>1, <1>2, <1>5, <1>6, <1>7, <1>8, <1>10, WriteFrame DEF WriteStages

LEMMA RecordPublishAuditStep ==
    ASSUME IInv, TypeOK', NEW w \in Workers, RecordPublishAudit(w)
    PROVE  IInv'
<1>0. TypeOK /\ CallInv /\ ResultOf(w) /\ AuditInv /\ BatchInv
  BY DEF IInv, ResultInv
<1>1. /\ at[w] = "publish" /\ w \in active /\ request[w] \in Requests /\ request' = request
      /\ IdOf(w)' = IdOf(w) /\ UNCHANGED <<writes, cut>> /\ UNCHANGED <<audit, writes, batches>>
      /\ at' = [at EXCEPT ![w] = "idle"]
      /\ told' = IF request[w].key # NoKey THEN told \union {<<IdOf(w), result[w]>>} ELSE told
  BY <1>0 DEF RecordPublishAudit, Returns, writeRows, workVars, CallInv, WriteStages, IdOf
<1>2. Moves(w, "idle") /\ at'[w] = "idle"
  BY <1>0, <1>1 DEF RecordPublishAudit, Moves, Aside, talkVars, workVars, TypeOK
<1>3. GateOf(w)' /\ BatchOf(w)' /\ ResultOf(w)' /\ SerialCallOf(w)'
  BY <1>2 DEF GateOf, BatchOf, ResultOf, SerialCallOf
<1>4. AuditInv'
  BY <1>0, <1>1 DEF AuditInv, ResultOf
<1>5. Grows /\ \A k \in Keys : BatchRow(k)'
  BY <1>0, <1>1 DEF Grows, BatchInv, BatchRow, TypeOK
<1>6. \A tk \in Requested : OwedBy(w, tk) => OwedBy(w, tk)'
  BY <1>1 DEF OwedBy, Wrote
<1>7. Serial => \A tk \in Requested : writes'[tk] <= cut'[tk] + (IF OwedBy(w, tk)' THEN 1 ELSE 0)
  BY <1>1, <1>6, StillOwed
<1> QED BY <1>1, <1>2, <1>3, <1>4, <1>5, <1>7, WriteFrame DEF WriteStages

(* A deliberation call is cut: its transaction is rolled back.             *)
LEMMA CutDeliberationStep ==
    ASSUME IInv, TypeOK', NEW w \in Workers, at[w] \in Proposing \union Reviewing, CutCall(w),
           UNCHANGED <<Aside, writeRows, workVars, writes, told>>
    PROVE  IInv'
<1>a. TypeOK /\ CallInv /\ RowInv /\ SerialReviewInv /\ IInv
  BY DEF IInv
<1>b. /\ at' = [at EXCEPT ![w] = "idle"] /\ UNCHANGED rowVars /\ UNCHANGED talkVars
      /\ UNCHANGED <<active, rowVars>> /\ found' = found /\ about' = about
      /\ proposals' = proposals /\ proposals' \in [Proposals -> ProposalRow]
  BY <1>a DEF CutCall, Returns, Aside, rowVars, talkVars, TypeOK, ProposalRow
<1>c. UNCHANGED writeVars
  BY DEF CutCall, Wrote, Proposing, Reviewing, writeVars, auxVars
<1>1. ASSUME NEW p \in Proposals
      PROVE  CallInv' /\ GateInv'
  BY <1>a, <1>b, <1>c, CommittingStep DEF SerialReviewInv
<1>2. (Proposals = {}) => CallInv' /\ GateInv'
  <2> SUFFICES ASSUME Proposals = {} PROVE CallInv' /\ GateInv'
    OBVIOUS
  <2>1. CallInv'
    BY <1>a, <1>b, <1>c DEF CallInv, Proposing, Reviewing, TypeOK, WriteStages, writeVars, workVars, talkVars
  <2>2. GateInv'
    BY <1>a, <1>b, <1>c, OtherGates DEF writeVars, workVars, TypeOK
  <2> QED BY <2>1, <2>2
<1>3. CallInv' /\ GateInv'
  BY <1>1, <1>2
<1>4. RowInv' /\ RatifiedInv' /\ DecisionWasRatified' /\ TrailTellsTheVerdict'
  BY <1>a, <1>b, SameRows
<1>5. SerialReviewInv'
  BY <1>a, <1>b DEF SerialReviewInv, Serial, Reviewing, TypeOK
<1>6. /\ \A v \in Workers : at'[v] \in WriteStages => at'[v] = at[v]
      /\ \A v \in Workers : at[v] = "audit" \/ at'[v] = "audit" => at'[v] = at[v]
  BY <1>a, <1>b DEF TypeOK, WriteStages, Proposing, Reviewing
<1>7. ResultInv' /\ AuditInv' /\ BatchInv' /\ SerialCallInv' /\ SerialWriteInv'
  BY <1>a, <1>b, <1>c, <1>6, OtherCalls, OtherWrites
<1> QED BY <1>3, <1>4, <1>5, <1>7 DEF IInv

LEMMA NextInv == IInv /\ [Next]_vars => IInv'
<1> SUFFICES ASSUME IInv, [Next]_vars PROVE IInv'
  OBVIOUS
<1>1. CASE Deliberate /\ UNCHANGED writeVars
  BY <1>1, DeliberationInv
<1>2. CASE Write
  <2>0. TypeOK' /\ TypeOK
    BY <1>2, WriteType DEF IInv
  <2>1. ASSUME NEW w \in Workers, NEW q \in Requests, CallTool(w, q) PROVE IInv'
    BY <2>0, <2>1, CallToolStep
  <2>2. ASSUME NEW w \in Workers, Replay(w) PROVE IInv'
    BY <2>0, <2>2, ReplayStep
  <2>3. ASSUME NEW w \in Workers, Gate(w) PROVE IInv'
    BY <2>0, <2>3, GateStep
  <2>4. ASSUME NEW w \in Workers, Load(w) PROVE IInv'
    BY <2>0, <2>4, LoadStep
  <2>5. ASSUME NEW w \in Workers, CommitWrite(w) PROVE IInv'
    BY <2>0, <2>5, CommitWriteStep
  <2>6. ASSUME NEW w \in Workers, ReuseSyncBatch(w) PROVE IInv'
    BY <2>0, <2>6, ReuseStep
  <2>7. ASSUME NEW w \in Workers, Clash(w) \/ Fault(w) PROVE IInv'
    <3>1. CutCall(w) /\ UNCHANGED <<Aside, writeRows, workVars, writes, told>> /\ at[w] # "idle"
      BY <2>7 DEF Clash, Fault, Refused, AuditRefused
    <3>2. at[w] \in WriteStages \/ at[w] \in Proposing \union Reviewing
      BY <2>0, <3>1 DEF TypeOK, Proposing, Reviewing
    <3> QED BY <2>0, <3>1, <3>2, CutCallStep, CutDeliberationStep
  <2>8. ASSUME NEW w \in Workers, RecordWriteAudit(w) PROVE IInv'
    BY <2>0, <2>8, RecordWriteAuditStep
  <2>9. ASSUME NEW w \in Workers, RecordPublishAudit(w) PROVE IInv'
    BY <2>0, <2>9, RecordPublishAuditStep
  <2> QED BY <1>2, <2>1, <2>2, <2>3, <2>4, <2>5, <2>6, <2>7, <2>8, <2>9 DEF Write
<1>3. CASE UNCHANGED vars
  <2> USE <1>3 DEF vars, deliberationVars, writeVars, writeRows, workVars, auxVars, rowVars, talkVars
  <2>1. TypeOK' /\ CallInv' /\ RowInv' /\ RatifiedInv' /\ DecisionWasRatified'
    BY DEF IInv, TypeOK, CallInv, RowInv, RatifiedInv, DecisionWasRatified, Serial, Decides
  <2>2. GateInv'
    BY OtherGates DEF Opens, Serial
  <2>3. ResultInv' /\ AuditInv' /\ BatchInv' /\ SerialCallInv' /\ SerialWriteInv'
    BY OtherCalls, OtherWrites
  <2>4. SerialReviewInv' /\ TrailTellsTheVerdict'
    BY DEF IInv, SerialReviewInv, TrailTellsTheVerdict, Serial
  <2> QED BY <2>1, <2>2, <2>3, <2>4 DEF IInv
<1> QED BY <1>1, <1>2, <1>3 DEF Next

(***************************************************************************)
(* The theorems.                                                           *)
(***************************************************************************)
(* The invariant holds in every reachable state, for any number of workers, *)
(* any policy, any requests and any bound: TypeOK is its first part.        *)
THEOREM InvariantHolds == Spec => []IInv
BY InitInv, NextInv, PTL DEF Spec

THEOREM TypesHold == Spec => []TypeOK
BY InvariantHolds, PTL DEF IInv

LEMMA AnswersFromInv == IInv => AnswersAreTrue
<1> SUFFICES ASSUME IInv, NEW answer \in told
             PROVE  /\ answer[2] \in Written => writes[answer[1]] > 0
                    /\ Serial /\ answer[2] \in Unwritten => writes[answer[1]] <= cut[answer[1]]
  BY DEF AnswersAreTrue
<1> DEFINE tk == answer[1]
<1>1. tk \in Requested /\ audit[tk] = answer[2] /\ writes[tk] \in Nat /\ cut[tk] \in Nat
  BY DEF IInv, TypeOK, AuditInv
<1>2. answer[2] \in Written => writes[tk] > 0
  BY <1>1 DEF IInv, AuditInv
<1>3. ASSUME Serial, answer[2] \in Unwritten PROVE writes[tk] <= cut[tk]
  <2>1. answer[2] \notin Written /\ answer[2] # "none"
    BY <1>3 DEF Written, Unwritten
  <2>2. ASSUME NEW w \in Workers, Wrote(w), IdOf(w) = tk PROVE FALSE
    <3>1. audit[tk] = "none"
      BY <2>2, <1>3, WroteShape DEF IInv, SerialCallInv, SerialCallOf
    <3> QED BY <3>1, <2>1, <1>1
  <2>3. ~Owed(tk)
    BY <1>1, <2>1, <2>2 DEF Owed
  <2>4. writes[tk] <= cut[tk] + (IF Owed(tk) THEN 1 ELSE 0)
    BY <1>1, <1>3 DEF IInv, SerialWriteInv
  <2> QED BY <1>1, <2>3, <2>4
<1> QED BY <1>2, <1>3

(* What a client is told is true, replays included: the audit row that     *)
(* answers a request id stands for what was committed under it.            *)
THEOREM Answers == Spec => []AnswersAreTrue
BY InvariantHolds, AnswersFromInv, PTL

LEMMA WrittenFromInv == IInv => WrittenOnceUnlessCut
<1> SUFFICES ASSUME IInv, Serial, NEW tk \in Requested PROVE writes[tk] <= cut[tk] + 1
  BY DEF WrittenOnceUnlessCut
<1>1. /\ writes[tk] <= cut[tk] + (IF Owed(tk) THEN 1 ELSE 0)
      /\ writes[tk] \in Nat /\ cut[tk] \in Nat
  BY DEF IInv, SerialWriteInv, TypeOK
<1> QED BY <1>1

(* One worker repeats a write of a key only after a cut between its        *)
(* commits.                                                                *)
THEOREM WritesOnce == Spec => []WrittenOnceUnlessCut
BY InvariantHolds, WrittenFromInv, PTL

LEMMA BatchFromInv == IInv => BatchRecordedOnce
<1> SUFFICES ASSUME IInv, NEW k \in Keys PROVE writes[<<"apply_sync_batch", k>>] <= 1
  BY DEF BatchRecordedOnce
<1>1. BatchRow(k)
  BY DEF IInv, BatchInv
<1> QED BY <1>1 DEF BatchRow

(* A batch is recorded once per key, with any number of workers.           *)
THEOREM BatchOnce == Spec => []BatchRecordedOnce
BY InvariantHolds, BatchFromInv, PTL

(* A decision that names a proposal was made by its ratification.          *)
THEOREM DecisionsAreRatified == Spec => []DecisionWasRatified
BY InvariantHolds, PTL DEF IInv

(* With one worker the verdict on a proposal is final and recorded once.   *)
THEOREM VerdictsAreFinal == Spec => []TrailTellsTheVerdict
BY InvariantHolds, PTL DEF IInv

LEMMA GovernedStep ==
    ASSUME IInv, [Next]_vars, NEW w \in Workers,
           at[w] = "commit", writes' # writes, at'[w] = "audit", RequiresRatification(request[w])
    PROVE  \E p \in Proposals :
              /\ proposals[p].ratifiedBy
              /\ proposals[p].draft.kind = "context_item"
              /\ proposals[p].draft.target = TargetKey(request[w])
              /\ Serial => proposals[p].status = "ratified"
<1>1. GateOf(w) /\ ResultOf(w)
  BY DEF IInv, GateInv, ResultInv
<1> QED BY <1>1 DEF GateOf, ResultOf, Opens

(* A governed write commits only for a target somebody ratified.           *)
THEOREM GovernedWrites == Spec => GovernedWritesAreRatified
<1>1. IInv /\ [Next]_vars =>
        (\A w \in Workers :
           at[w] = "commit" /\ writes' # writes /\ at'[w] = "audit" /\ RequiresRatification(request[w])
           => \E p \in Proposals :
                /\ proposals[p].ratifiedBy
                /\ proposals[p].draft.kind = "context_item"
                /\ proposals[p].draft.target = TargetKey(request[w])
                /\ Serial => proposals[p].status = "ratified")
  BY GovernedStep
<1> QED BY <1>1, InvariantHolds, PTL DEF Spec, GovernedWritesAreRatified

(***************************************************************************)
(* Items.                                                                  *)
(***************************************************************************)
LEMMA ItemInit == Init => ItemInv
<1> SUFFICES ASSUME Init PROVE ItemInv
  OBVIOUS
<1>1. \A i \in Items : Described(items[i])
  BY DEF Init, Described, NoItem
<1> QED BY <1>1 DEF Init, InitRows, ItemInv, Described

(* Only the domain transactions change items.                              *)
LEMMA OnlyCommits ==
    ASSUME Next, items' # items
    PROVE  \E w \in Workers : CommitWrite(w)
BY DEF Next, writeVars, writeRows, Write, CallTool, Replay, Gate, Load, ReuseSyncBatch, Clash,
       Fault, RecordWriteAudit, RecordPublishAudit

(* A written row has a status and a version, and an archived one becomes   *)
(* active only by an upsert that saw it archived.                          *)
LEMMA ItemChange ==
    ASSUME IInv, ItemInv, NEW w \in Workers, CommitWrite(w), NEW i \in Items, items'[i] # items[i]
    PROVE  /\ i = Item(w) /\ items'[i].status # "none" /\ items'[i].version # 0
           /\ items[i].status = "archived" /\ items'[i].status # "archived" =>
                request[w].tool = "upsert_context_item" /\ seen[w].status = "archived"
<1> DEFINE Row == [version : Nat, status : {"none", "active", "archived"}]
<1>1. /\ at[w] = "commit" /\ items \in [Items -> Row] /\ seen[w] \in Row /\ Item(w) \in Items
      /\ Described(items[i]) /\ Described(seen[w])
      /\ seen[w] # NoItem => Exists(Item(w))
      /\ request[w].tool \in ByItemId => seen[w] # NoItem
  BY RequestShape DEF CommitWrite, IInv, TypeOK, CallInv, WriteStages, Item, ItemInv
<1>2. ASSUME NEW status \in {"active", "archived"}, WritesBack(w, Item(w), status), seen[w] # NoItem
      PROVE  /\ i = Item(w) /\ items'[i].status # "none" /\ items'[i].version # 0
             /\ items'[i].status \in {items[i].status, status}
             /\ seen[w].status = status => items'[i].status = items[i].status
  <2>1. i = Item(w)
    BY <1>1, <1>2 DEF WritesBack
  <2>2. /\ items'[i].version = seen[w].version + 1
        /\ items'[i].status = IF seen[w].status = status THEN items[i].status ELSE status
    BY <1>1, <1>2, <2>1 DEF WritesBack
  <2>3. items[i].status # "none"
    BY <1>1, <1>2, <2>1 DEF Described, Exists
  <2>4. seen[w].version + 1 # 0
    BY <1>1
  <2> QED BY <2>1, <2>2, <2>3, <2>4
<1>3. CASE UpsertContextItem(w)
  <2>1. CASE seen[w] # NoItem /\ WritesBack(w, Item(w), "active")
    <3>1. seen[w].status # "none"
      BY <1>1, <2>1 DEF Described
    <3>2. seen[w].status = "active" \/ seen[w].status = "archived"
      BY <1>1, <3>1
    <3> QED BY <1>2, <1>3, <2>1, <3>2 DEF UpsertContextItem
  <2>2. CASE ~Exists(Item(w)) /\ items' = [items EXCEPT ![Item(w)] = [version |-> 1, status |-> "active"]]
    <3>1. i = Item(w) /\ items'[i] = [version |-> 1, status |-> "active"]
      BY <1>1, <2>2
    <3>2. items[i].status = "none"
      BY <2>2, <3>1 DEF Exists, NoItem
    <3> QED BY <3>1, <3>2
  <2> QED BY <1>3, <2>1, <2>2 DEF UpsertContextItem
<1>4. CASE SetContextLabels(w)
  <2>1. seen[w] # NoItem /\ WritesBack(w, Item(w), seen[w].status)
    BY <1>1, <1>4 DEF SetContextLabels, ByItemId
  <2>2. seen[w].status \in {"active", "archived"}
    BY <1>1, <2>1 DEF Described
  <2> QED BY <1>2, <2>1, <2>2
<1>5. CASE ArchiveContextItem(w)
  <2>1. seen[w] # NoItem /\ WritesBack(w, Item(w), "archived")
    BY <1>1, <1>5 DEF ArchiveContextItem, ByItemId
  <2> QED BY <1>2, <2>1
<1>6. CASE LinkContextEntities(w) \/ AppendContextEvent(w) \/ InsertSyncBatch(w)
  BY <1>6 DEF LinkContextEntities, AppendContextEvent, InsertSyncBatch
<1> QED BY <1>3, <1>4, <1>5, <1>6 DEF CommitWrite

(* Only Load reads an item, and leads to the commit.                       *)
LEMMA OnlyLoads ==
    ASSUME IInv, Next, NEW w \in Workers
    PROVE  \/ Load(w)
           \/ /\ seen'[w] = seen[w]
              /\ at'[w] = "commit" => at[w] = "commit" /\ request'[w] = request[w]
<1> USE DEF IInv, TypeOK, Steps, Returns, Arrives
<1>1. ASSUME Deliberate /\ UNCHANGED writeVars
      PROVE  seen'[w] = seen[w] /\ (at'[w] = "commit" => at[w] = "commit" /\ request'[w] = request[w])
  <2>1. seen' = seen /\ request' = request
    BY <1>1 DEF writeVars, workVars
  <2>2. ASSUME NEW v \in Workers,
               \/ \E d \in Drafts : ProposeChange(v, d)
               \/ FindByKey(v) \/ CommitProposal(v)
        PROVE  at'[w] = "commit" => at[w] = "commit"
    BY <2>2 DEF ProposeChange, FindByKey, CommitProposal
  <2>3. ASSUME NEW v \in Workers,
               \/ \E p \in Proposals : RatifyProposal(v, p) \/ RejectProposal(v, p)
               \/ LookUpDecision(v)
        PROVE  at'[w] = "commit" => at[w] = "commit"
    BY <2>3 DEF RatifyProposal, RejectProposal, Review, LookUpDecision
  <2>4. ASSUME NEW v \in Workers, CommitRatification(v) \/ CommitRejection(v)
        PROVE  at'[w] = "commit" => at[w] = "commit"
    BY <2>4 DEF CommitRatification, CommitRejection
  <2>5. ASSUME RunSeed
        PROVE  at'[w] = "commit" => at[w] = "commit"
    BY <2>5 DEF RunSeed, talkVars
  <2> QED BY <1>1, <2>1, <2>2, <2>3, <2>4, <2>5 DEF Deliberate
<1>2. ASSUME NEW v \in Workers, NEW q \in Requests, CallTool(v, q)
      PROVE  seen'[w] = seen[w] /\ (at'[w] = "commit" => at[w] = "commit" /\ request'[w] = request[w])
  BY <1>2 DEF CallTool
<1>3. ASSUME NEW v \in Workers, Replay(v) \/ Gate(v) \/ CommitWrite(v) \/ ReuseSyncBatch(v)
      PROVE  seen'[w] = seen[w] /\ (at'[w] = "commit" => at[w] = "commit" /\ request'[w] = request[w])
  BY <1>3 DEF Replay, Gate, CommitWrite, ReuseSyncBatch, writeVars, workVars
<1>4. ASSUME NEW v \in Workers, Clash(v) \/ Fault(v) \/ RecordWriteAudit(v) \/ RecordPublishAudit(v)
      PROVE  seen'[w] = seen[w] /\ (at'[w] = "commit" => at[w] = "commit" /\ request'[w] = request[w])
  BY <1>4 DEF Clash, Fault, CutCall, RecordWriteAudit, RecordPublishAudit, workVars
<1>5. ASSUME NEW v \in Workers, Load(v), v # w
      PROVE  seen'[w] = seen[w] /\ (at'[w] = "commit" => at[w] = "commit" /\ request'[w] = request[w])
  BY <1>5 DEF Load
<1> QED BY <1>1, <1>2, <1>3, <1>4, <1>5 DEF Next, Write

LEMMA ItemStep == IInv /\ ItemInv /\ [Next]_vars => ItemInv'
<1> SUFFICES ASSUME IInv, ItemInv, [Next]_vars PROVE ItemInv'
  OBVIOUS
<1>1. CASE UNCHANGED vars
  BY <1>1 DEF vars, deliberationVars, writeVars, writeRows, workVars, ItemInv, Exists, Item
<1>2. CASE Next
  <2>1. ASSUME NEW i \in Items
        PROVE  \/ items'[i] = items[i]
               \/ items'[i].status # "none" /\ items'[i].version # 0
    BY <1>2, <2>1, OnlyCommits, ItemChange
  <2>2. \A i \in Items : Described(items'[i]) /\ (Exists(i) => Exists(i)')
    BY <2>1 DEF ItemInv, Described, Exists, NoItem
  <2>3. ASSUME NEW w \in Workers
        PROVE  /\ Described(seen'[w])
               /\ at'[w] = "commit" /\ seen'[w] # NoItem => Exists(Item(w))'
               /\ at'[w] = "commit" /\ request'[w].tool \in ByItemId => seen'[w] # NoItem
    <3>1. CASE Load(w)
      <4>1. /\ seen'[w] = items[Item(w)] /\ items' = items /\ request' = request
            /\ at'[w] = "commit" => Refusal(request[w]) = "none"
            /\ Item(w) \in Items
        BY <3>1, RequestShape DEF Load, Steps, writeRows, IInv, TypeOK, CallInv, WriteStages, Item
      <4>2. at'[w] = "commit" /\ request[w].tool \in ByItemId => Exists(request[w].item)
        BY <4>1 DEF Refusal
      <4> QED BY <4>1, <4>2 DEF ItemInv, Exists, Item
    <3>2. CASE /\ seen'[w] = seen[w]
               /\ at'[w] = "commit" => at[w] = "commit" /\ request'[w] = request[w]
      <4>1. at[w] = "commit" => Item(w) \in Items
        BY RequestShape DEF IInv, CallInv, WriteStages, Item
      <4> QED BY <2>2, <3>2, <4>1 DEF ItemInv, Item
    <3> QED BY <1>2, <3>1, <3>2, OnlyLoads
  <2> QED BY <2>2, <2>3 DEF ItemInv
<1> QED BY <1>1, <1>2

LEMMA ItemsHold == Spec => []ItemInv
BY ItemInit, ItemStep, InvariantHolds, PTL DEF Spec

(* Whatever calls interleave, an archived item becomes active again only   *)
(* by an upsert that has read it archived.                                 *)
THEOREM ArchivesAreKept == Spec => ArchiveIsKept
<1>1. IInv /\ ItemInv /\ [Next]_vars =>
        (\A i \in Items :
           items[i].status = "archived" /\ items'[i].status # "archived"
           => \E w \in Workers :
                /\ at[w] = "commit" /\ at'[w] = "audit"
                /\ request[w].tool = "upsert_context_item" /\ Item(w) = i
                /\ seen[w].status = "archived")
  <2> SUFFICES ASSUME IInv, ItemInv, [Next]_vars, NEW i \in Items,
                      items[i].status = "archived", items'[i].status # "archived"
               PROVE  \E w \in Workers :
                        /\ at[w] = "commit" /\ at'[w] = "audit"
                        /\ request[w].tool = "upsert_context_item" /\ Item(w) = i
                        /\ seen[w].status = "archived"
    OBVIOUS
  <2>1. PICK w \in Workers : CommitWrite(w)
    BY OnlyCommits DEF vars, writeVars, writeRows
  <2>2. at[w] = "commit" /\ at'[w] = "audit"
    BY <2>1 DEF CommitWrite, Steps, IInv, TypeOK
  <2> QED BY <2>1, <2>2, ItemChange
<1> QED BY <1>1, InvariantHolds, ItemsHold, PTL DEF Spec, ArchiveIsKept

LEMMA StaleStep ==
    ASSUME IInv, [Next]_vars, seeds' = seeds, decisions' # decisions
    PROVE  ~canonical'
<1>1. ~RunSeed
  BY DEF RunSeed, IInv, TypeOK
<1>2. PICK w \in Workers : CommitRatification(w)
  BY <1>1 DEF Next, vars, deliberationVars, rowVars, Aside, Write, CallTool, Replay, Gate, Load,
     CommitWrite, ReuseSyncBatch, Clash, Fault, RecordWriteAudit, RecordPublishAudit, Deliberate,
     ProposeChange, FindByKey, CommitProposal, RatifyProposal, RejectProposal, Review,
     LookUpDecision, CommitRejection
<1> QED BY <1>2 DEF CommitRatification, rowVars, InvalidateContextForScope

(* A ratification that changes a decision makes the scope stale.           *)
THEOREM CanonChanges == Spec => CanonChangeMakesStale
<1>1. IInv /\ [Next]_vars => (seeds' = seeds /\ decisions' # decisions => ~canonical')
  BY StaleStep
<1> QED BY <1>1, InvariantHolds, PTL DEF Spec, CanonChangeMakesStale

(***************************************************************************)
(* The write tools implement WriteLedger.                                  *)
(***************************************************************************)
LEMMA LedgerStarts == Init => Ledger!Init
BY DEF Init, InitRows, Serial, Ledger!Init

(* The deliberation tools, the seed, and the steps of a write call that    *)
(* commit no row of a key show the ledger nothing.                         *)
LEMMA Unseen == ASSUME UNCHANGED <<active, writes, audit, told>> PROVE UNCHANGED Ledger!ledgerVars
BY DEF Ledger!ledgerVars, Serial

(* The key of a call that is not idle in a write handler.                  *)
LEMMA Keyed ==
    ASSUME IInv, NEW w \in Workers, at[w] \in WriteStages, request[w].key # NoKey
    PROVE  IdOf(w) \in Requested
BY RequestShape DEF IInv, CallInv, IdOf

LEMMA CommitMaps ==
    ASSUME IInv, NEW w \in Workers, CommitWrite(w) PROVE Ledger!Next
<1>1. at[w] = "commit" /\ at[w] \in WriteStages /\ UNCHANGED <<active, audit, told>>
      /\ writes' = [writes EXCEPT ![IdOf(w)] = @ + 1]
  BY DEF CommitWrite, WriteStages, Aside
<1>2. request[w].key # NoKey /\ request[w].key \in Keys
  BY <1>1, RequestShape DEF IInv, CallInv, ResultInv, ResultOf
<1>3. IdOf(w) \in Requested
  BY <1>1, <1>2, Keyed
<1>4. Serial => audit[IdOf(w)] = "none"
  BY <1>1, <1>2 DEF IInv, SerialCallInv, SerialCallOf
<1>5. ASSUME IdOf(w) \in {"apply_sync_batch"} \X Keys PROVE writes[IdOf(w)] = 0
  <2>1. request[w].tool = "apply_sync_batch" /\ IdOf(w) = <<"apply_sync_batch", request[w].key>>
    BY <1>5 DEF IdOf
  <2>2. InsertSyncBatch(w)
    BY <2>1 DEF CommitWrite, UpsertContextItem, SetContextLabels, ArchiveContextItem,
                LinkContextEntities, AppendContextEvent
  <2>3. request[w].key \notin batches
    BY <2>1, <2>2 DEF InsertSyncBatch, OtherRow
  <2>4. BatchRow(request[w].key)
    BY <1>2 DEF IInv, BatchInv
  <2> QED BY <2>1, <2>3, <2>4 DEF BatchRow
<1>6. Ledger!Commit(IdOf(w))
  BY <1>1, <1>4, <1>5 DEF Ledger!Commit, Serial
<1> QED BY <1>3, <1>6 DEF Ledger!Next

LEMMA RecordMaps ==
    ASSUME IInv, NEW w \in Workers, RecordWriteAudit(w)
    PROVE  [Ledger!Next]_Ledger!ledgerVars
<1>1. at[w] = "audit" /\ at[w] \in WriteStages /\ UNCHANGED <<active, writes, told>>
  BY DEF RecordWriteAudit, WriteStages, Aside, auxVars
<1>2. CASE request[w].key = NoKey
  BY <1>1, <1>2, Unseen DEF RecordWriteAudit
<1>3. CASE request[w].key # NoKey
  <2>1. IdOf(w) \in Requested /\ audit[IdOf(w)] = "none"
    BY <1>1, <1>3, Keyed DEF RecordWriteAudit, AuditRefused
  <2>2. result[w] \in Results /\ (result[w] \in Written => writes[IdOf(w)] > 0)
    BY <1>1 DEF IInv, ResultInv, ResultOf
  <2>3. audit' = [audit EXCEPT ![IdOf(w)] = result[w]]
    BY <1>3 DEF RecordWriteAudit
  <2>4. Ledger!Record(IdOf(w), result[w])
    BY <1>1, <2>1, <2>2, <2>3 DEF Ledger!Record, Serial
  <2> QED BY <2>1, <2>2, <2>4 DEF Ledger!Next
<1> QED BY <1>2, <1>3

(* A client hears the recorded result: as a replay, or when its own call   *)
(* has recorded one.                                                       *)
LEMMA TellMaps ==
    ASSUME IInv, NEW w \in Workers, at[w] \in WriteStages, request[w].key # NoKey,
           audit[IdOf(w)] # "none", UNCHANGED <<active, writes, audit>>,
           told' = told \union {<<IdOf(w), audit[IdOf(w)]>>}
    PROVE  Ledger!Next
<1>1. Ledger!Tell(IdOf(w))
  BY DEF Ledger!Tell, Serial
<1> QED BY <1>1, Keyed DEF Ledger!Next

LEMMA ReplayMaps ==
    ASSUME IInv, NEW w \in Workers, Replay(w) PROVE [Ledger!Next]_Ledger!ledgerVars
<1>1. at[w] \in WriteStages /\ UNCHANGED <<active, writes, audit>>
  BY DEF Replay, WriteStages, Aside, writeRows
<1>2. CASE request[w].key # NoKey /\ audit[IdOf(w)] # "none"
  BY <1>1, <1>2, TellMaps DEF Replay
<1>3. CASE ~(request[w].key # NoKey /\ audit[IdOf(w)] # "none")
  BY <1>1, <1>3, Unseen DEF Replay
<1> QED BY <1>2, <1>3

LEMMA PublishMaps ==
    ASSUME IInv, NEW w \in Workers, RecordPublishAudit(w)
    PROVE  [Ledger!Next]_Ledger!ledgerVars
<1>1. at[w] = "publish" /\ at[w] \in WriteStages /\ UNCHANGED <<active, writes, audit>>
  BY DEF RecordPublishAudit, WriteStages, Aside, writeRows
<1>2. CASE request[w].key = NoKey
  BY <1>1, <1>2, Unseen DEF RecordPublishAudit
<1>3. CASE request[w].key # NoKey
  <2>1. audit[IdOf(w)] = result[w] /\ result[w] # "none"
    BY <1>1, <1>3 DEF IInv, ResultInv, ResultOf, Results, Written, Unwritten
  <2>2. told' = told \union {<<IdOf(w), audit[IdOf(w)]>>}
    BY <1>3, <2>1 DEF RecordPublishAudit
  <2> QED BY <1>1, <1>3, <2>1, <2>2, TellMaps
<1> QED BY <1>2, <1>3

LEMMA NextMaps == ASSUME IInv, Next PROVE [Ledger!Next]_Ledger!ledgerVars
<1>1. CASE Deliberate /\ UNCHANGED writeVars
  <2>1. UNCHANGED active
    BY <1>1 DEF Deliberate, ProposeChange, FindByKey, CommitProposal, RatifyProposal,
                RejectProposal, Review, LookUpDecision, CommitRatification, CommitRejection, RunSeed
  <2> QED BY <1>1, <2>1, Unseen DEF writeVars, writeRows, auxVars
<1>2. ASSUME NEW w \in Workers, NEW q \in Requests, CallTool(w, q)
      PROVE  [Ledger!Next]_Ledger!ledgerVars
  BY <1>2, Unseen DEF CallTool, Aside, writeRows, auxVars
<1>3. ASSUME NEW w \in Workers, Gate(w) \/ Load(w) \/ ReuseSyncBatch(w) \/ Clash(w) \/ Fault(w)
      PROVE  [Ledger!Next]_Ledger!ledgerVars
  BY <1>3, Unseen DEF Gate, Load, ReuseSyncBatch, Clash, Fault, Aside, writeVars, writeRows, auxVars
<1>4. ASSUME NEW w \in Workers, CommitWrite(w) PROVE [Ledger!Next]_Ledger!ledgerVars
  BY <1>4, CommitMaps
<1>5. ASSUME NEW w \in Workers, Replay(w) PROVE [Ledger!Next]_Ledger!ledgerVars
  BY <1>5, ReplayMaps
<1>6. ASSUME NEW w \in Workers, RecordWriteAudit(w) PROVE [Ledger!Next]_Ledger!ledgerVars
  BY <1>6, RecordMaps
<1>7. ASSUME NEW w \in Workers, RecordPublishAudit(w) PROVE [Ledger!Next]_Ledger!ledgerVars
  BY <1>7, PublishMaps
<1> QED BY <1>1, <1>2, <1>3, <1>4, <1>5, <1>6, <1>7 DEF Next, Write

(* The write tools keep the promise of WriteLedger: one answer per key, the *)
(* one every client hears, true to what was committed.                     *)
THEOREM RefinesLedger == Spec => ImplementsLedger
<1>1. IInv /\ [Next]_vars => [Ledger!Next]_Ledger!ledgerVars
  <2>1. ASSUME UNCHANGED vars PROVE UNCHANGED Ledger!ledgerVars
    BY <2>1, Unseen DEF vars, deliberationVars, writeVars, writeRows, auxVars
  <2> QED BY <2>1, NextMaps
<1> QED BY <1>1, LedgerStarts, InvariantHolds, PTL DEF Spec, Ledger!Spec, ImplementsLedger
=============================================================================
