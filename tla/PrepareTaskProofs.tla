------------------------- MODULE PrepareTaskProofs -------------------------
(***************************************************************************)
(* What localPrepareTask persists and answers, for any invocations,        *)
(* windows, keys, index and faults.                                        *)
(***************************************************************************)
EXTENDS PrepareTask, RetrievalProofs, TLAPS

(* What the tables hold of a task at each await of its invocation.         *)
Stage(p) ==
    /\ pc[p] # "idle" => win[p] \in Windows /\ key[p] \in Keys
    /\ pc[p] \in {"idle", "inspect", "resolve", "search", "supplement", "saveTask"} =>
         task[p] = [state |-> "none", ref |-> FALSE]
    /\ pc[p] \in {"saveContext", "saveRef"} => task[p] = [state |-> "draft", ref |-> FALSE]
    /\ pc[p] = "transition" => task[p] = [state |-> "draft", ref |-> TRUE]
    /\ pc[p] \in {"saveRef", "transition", "history", "record"} => p \in context
    /\ pc[p] = "history" => task[p].state \in {"prepared", "run"} /\ task[p].ref
    /\ pc[p] = "record" => Complete(p)

Recorded(k) ==
    record[k] # None => record[k] \in Preps /\ Complete(record[k]) /\ key[record[k]] = k

Drafted(w) ==
    draft[w] # None => draft[w] \in Preps /\ Complete(draft[w]) /\ win[draft[w]] = w

Told(p) ==
    /\ pc[p] # "done" => answer[p] = NoAnswer
    /\ answer[p].status = "ok" =>
         /\ answer[p].task \in Preps /\ Complete(answer[p].task) /\ key[answer[p].task] = key[p]
         /\ key[p] \in Keys /\ record[key[p]] # None

(* After an ok there is a stored answer: the invocation will replay it.    *)
Later(p) ==
    /\ pc[p] = "idle" => after[p] = {}
    /\ \A q \in after[p] :
         /\ pc[q] = "done"
         /\ answer[q].status = "ok" /\ key[q] = key[p] =>
              /\ task[p].state = "none" /\ ~answer[p].fresh
              /\ pc[p] \in {"inspect", "resolve", "done", "dead"}

(* No other invocation has the window, or had it since p started.          *)
Alone(p) ==
    apart[p] /\ \A q \in Preps : win[q] = win[p] /\ q # p => pc[q] = "idle" \/ q \in after[p]

Shelved(p) == Alone(p) /\ (pc[p] = "record" \/ answer[p].fresh) => draft[win[p]] = p

Busy(w) == runtime[w] = "running" => \E p \in Running : win[p] = w

PInv ==
    /\ TypeOK
    /\ \A p \in Preps : Stage(p) /\ Told(p) /\ Later(p) /\ Shelved(p)
    /\ \A k \in Keys : Recorded(k)
    /\ \A w \in Windows : Drafted(w) /\ Busy(w)

(* A task on offer is complete, and its invocation has all but answered;   *)
(* a store shows one whose window is open; and no other is ever run.       *)
Offered(p) ==
    /\ offer[p] # "no" => Complete(p) /\ pc[p] \in {"record"} \union Over
    /\ task[p].state = "run" => offer[p] # "no"

OInv ==
    /\ \A p \in Preps : Offered(p)
    /\ \A w \in Windows : draft[w] # None => offer[draft[w]] = "open"

LEMMA InitInv == Init => PInv
<1> SUFFICES ASSUME Init PROVE PInv
  OBVIOUS
<1>1. TypeOK
  BY DEF Init, TypeOK, NoAnswer
<1>2. ASSUME NEW p \in Preps PROVE Stage(p) /\ Told(p) /\ Later(p) /\ Shelved(p)
  BY <1>2 DEF Init, Stage, Told, Later, Shelved, NoAnswer
<1>3. ASSUME NEW k \in Keys PROVE Recorded(k)
  BY <1>3 DEF Init, Recorded
<1>4. ASSUME NEW w \in Windows PROVE Drafted(w) /\ Busy(w)
  BY <1>4 DEF Init, Drafted, Busy
<1> QED
  BY <1>1, <1>2, <1>3, <1>4 DEF PInv

(***************************************************************************)
(* A step of one invocation, and what it has to show.                      *)
(***************************************************************************)
Others(p) ==
    \A q \in Preps \ {p} :
        /\ pc'[q] = pc[q] /\ task'[q] = task[q] /\ answer'[q] = answer[q]
        /\ win'[q] = win[q] /\ key'[q] = key[q] /\ after'[q] = after[q]
        /\ apart'[q] => apart[q]
        /\ (q \in context' <=> q \in context) /\ (q \in history' <=> q \in history)

(* Only the invocation of a key or a window writes there, and only itself. *)
Writes(p) ==
    /\ \A k \in Keys : record'[k] = record[k] \/ (pc[p] = "record" /\ k = key[p] /\ record'[k] = p /\ Complete(p)')
    /\ \A w \in Windows : draft'[w] = draft[w] \/ (pc[p] = "history" /\ w = win[p] /\ draft'[w] = p /\ Complete(p)')

Advances(p) ==
    /\ pc[p] \notin Over /\ pc'[p] # "idle"
    /\ Complete(p) => Complete(p)'
    /\ pc[p] # "idle" => win'[p] = win[p] /\ key'[p] = key[p] /\ after'[p] = after[p]
    /\ \A w \in Windows : runtime'[w] = "running" =>
         \/ w = win'[p] /\ pc'[p] \notin Over
         \/ runtime[w] = "running" /\ (w # win[p] \/ pc'[p] \notin Over)

LEMMA Frame ==
    ASSUME PInv, NEW p \in Preps, TypeOK', Others(p), Writes(p), Advances(p),
           Stage(p)', Told(p)', Later(p)', Shelved(p)'
    PROVE  PInv'
<1> USE DEF Others
<1>1. TypeOK /\ Stage(p) /\ Told(p) /\ Later(p)
  BY DEF PInv
<1>2. ASSUME NEW t \in Preps, Complete(t)
      PROVE  Complete(t)' /\ key'[t] = key[t] /\ win'[t] = win[t]
  <2>1. CASE t = p
    BY <1>1, <1>2, <2>1 DEF Advances, Stage, Complete
  <2>2. CASE t # p
    BY <1>2, <2>2 DEF Complete
  <2> QED
    BY <2>1, <2>2
<1>3. ASSUME NEW k \in Keys PROVE Recorded(k)'
  <2>1. Recorded(k) /\ (record'[k] = record[k] \/ (pc[p] = "record" /\ k = key[p] /\ record'[k] = p /\ Complete(p)'))
    BY <1>3 DEF PInv, Writes
  <2>2. CASE record'[k] = record[k]
    BY <2>1, <2>2, <1>2 DEF Recorded
  <2>3. CASE pc[p] = "record" /\ k = key[p] /\ record'[k] = p /\ Complete(p)'
    BY <2>3 DEF Recorded, Advances
  <2> QED
    BY <2>1, <2>2, <2>3
<1>4. ASSUME NEW w \in Windows PROVE Drafted(w)'
  <2>1. Drafted(w) /\ (draft'[w] = draft[w] \/ (pc[p] = "history" /\ w = win[p] /\ draft'[w] = p /\ Complete(p)'))
    BY <1>4 DEF PInv, Writes
  <2>2. CASE draft'[w] = draft[w]
    BY <2>1, <2>2, <1>2 DEF Drafted
  <2>3. CASE pc[p] = "history" /\ w = win[p] /\ draft'[w] = p /\ Complete(p)'
    BY <2>3 DEF Drafted, Advances
  <2> QED
    BY <2>1, <2>2, <2>3
<1>5. ASSUME NEW q \in Preps \ {p} PROVE Stage(q)'
  BY <1>5 DEF PInv, Stage, Complete
<1>6. ASSUME NEW q \in Preps \ {p} PROVE Told(q)'
  <2>1. Told(q) /\ pc'[q] = pc[q] /\ answer'[q] = answer[q] /\ key'[q] = key[q]
    BY <1>6 DEF PInv
  <2>2. ASSUME answer[q].status = "ok" PROVE record'[key[q]] # None
    BY <2>1, <2>2, PrepareConstantsOK DEF Told, Writes, PrepareConstantsOK
  <2> QED
    BY <2>1, <2>2, <1>2 DEF Told
<1>7. ASSUME NEW q \in Preps \ {p} PROVE Later(q)'
  <2>1. Later(q) /\ pc'[q] = pc[q] /\ after'[q] = after[q] /\ answer'[q] = answer[q]
        /\ key'[q] = key[q] /\ task'[q] = task[q]
    BY <1>7 DEF PInv
  <2>2. \A r \in after[q] : r \in Preps \ {p}
    BY <2>1, <1>1 DEF Later, TypeOK, Advances, Over
  <2> QED
    BY <2>1, <2>2 DEF Later
<1>8. ASSUME NEW q \in Preps \ {p} PROVE Shelved(q)'
  <2> SUFFICES ASSUME Alone(q)', (pc[q] = "record" \/ answer[q].fresh) PROVE draft'[win[q]] = q
    BY DEF Shelved
  <2>1. Shelved(q) /\ Stage(q) /\ Told(q) /\ Later(q)
    BY <1>8 DEF PInv
  <2>2. win[q] \in Windows
    BY <2>1 DEF Stage, Told, NoAnswer
  <2>3. win'[p] # win[q]
    BY <2>1, <1>1, <1>8 DEF Alone, Advances, Later, Over
  <2>4. draft'[win[q]] = draft[win[q]]
    BY <2>2, <2>3, <1>1 DEF Writes, Advances, Stage, Complete, TypeOK
  <2>5. Alone(q)
    BY <1>1, <2>3, <1>8 DEF Alone, Advances
  <2> QED
    BY <2>1, <2>4, <2>5 DEF Shelved
<1>9. ASSUME NEW w \in Windows PROVE Busy(w)'
  <2> SUFFICES ASSUME runtime'[w] = "running" PROVE \E q \in Running' : win'[q] = w
    BY DEF Busy
  <2>1. CASE w = win'[p] /\ pc'[p] \notin Over
    BY <2>1 DEF Running, Advances
  <2>2. CASE runtime[w] = "running" /\ (w # win[p] \/ pc'[p] \notin Over)
    <3>1. PICK q \in Running : win[q] = w
      BY <2>2 DEF PInv, Busy
    <3>2. q = p \/ q \in Preps \ {p}
      BY DEF Running
    <3> QED
      BY <2>2, <3>1, <3>2 DEF Running, Advances
  <2> QED
    BY <2>1, <2>2 DEF Advances
<1> QED
  BY <1>3, <1>4, <1>5, <1>6, <1>7, <1>8, <1>9 DEF PInv

Tables ==
    /\ record \in [Keys -> Preps \union {None}]
    /\ task \in [Preps -> [state : {"none", "draft", "prepared", "run"}, ref : BOOLEAN]]
    /\ context \in SUBSET Preps /\ history \in SUBSET Preps
    /\ draft \in [Windows -> Preps \union {None}] /\ offer \in [Preps -> {"no", "open", "closed"}]

(* What a statement of p does to the tables and the stores.                *)
Stores(p) ==
    /\ Tables' /\ Writes(p)
    /\ Complete(p) => Complete(p)'
    /\ \A q \in Preps \ {p} :
         /\ task'[q] = task[q]
         /\ (q \in context' <=> q \in context) /\ (q \in history' <=> q \in history)

Active(p) == pc[p] \in Statements \union {"inspect"}

LEMMA NothingStored == ASSUME PInv, NEW p \in Preps, UNCHANGED tableVars, UNCHANGED <<draft, offer>>
                       PROVE  Stores(p)
BY DEF PInv, TypeOK, tableVars, Tables, Stores, Writes, Complete

(* The invocation goes on to its next await.                               *)
LEMMA GoesOnInv ==
    ASSUME PInv, NEW p \in Preps, NEW next \in Statements, Active(p),
           pc' = [pc EXCEPT ![p] = next], UNCHANGED <<answer, callVars>>, Stores(p),
           runtime' \in [Windows -> {"idle", "ready", "running", "error"}],
           \A w \in Windows : runtime'[w] = "running" => w = win[p] \/ runtime[w] = "running",
           next = "record" => draft'[win[p]] = p,
           Stage(p)', Later(p)'
    PROVE  PInv'
<1>1. TypeOK /\ Stage(p) /\ Told(p) /\ Later(p) /\ Shelved(p)
  BY DEF PInv
<1>2. /\ answer' = answer /\ win' = win /\ key' = key /\ after' = after /\ apart' = apart
      /\ pc'[p] = next /\ \A q \in Preps \ {p} : pc'[q] = pc[q]
  BY <1>1 DEF callVars, TypeOK
<1>3. TypeOK'
  BY <1>1, <1>2 DEF TypeOK, Stores, Tables
<1>4. Others(p) /\ Writes(p)
  BY <1>2 DEF Others, Stores
<1>5. pc[p] \notin Over /\ pc[p] # "idle" /\ next \notin Over /\ next # "idle"
  BY DEF Active, Over, Statements, Retrieving
<1>6. Advances(p)
  BY <1>2, <1>5 DEF Advances, Stores
<1>7. answer[p] = NoAnswer
  BY <1>1, <1>5 DEF Told, Over
<1>8. Told(p)'
  BY <1>2, <1>7 DEF Told, NoAnswer
<1>9. Shelved(p)'
  BY <1>2, <1>7 DEF Shelved, NoAnswer
<1> QED
  BY <1>3, <1>4, <1>6, <1>8, <1>9, Frame

LEMMA ReturnsFacts ==
    ASSUME TypeOK, NEW p \in Preps, NEW status \in {"ok", "error"}, NEW t \in Preps \union {None},
           NEW fresh \in BOOLEAN, Stage(p), Active(p), Returns(p, status, t, fresh)
    PROVE  /\ runtime' \in [Windows -> {"idle", "ready", "running", "error"}]
           /\ \A w \in Windows : runtime'[w] = "running" => w # win[p] /\ runtime[w] = "running"
           /\ pc' \in [Preps -> Statements \union Over \union {"idle"}]
           /\ pc'[p] = "done" /\ \A q \in Preps \ {p} : pc'[q] = pc[q]
           /\ answer' \in [Preps -> [status : {"none", "ok", "error"}, task : Preps \union {None},
                                     fresh : BOOLEAN]]
           /\ answer'[p] = [status |-> status, task |-> t, fresh |-> fresh]
           /\ \A q \in Preps \ {p} : answer'[q] = answer[q]
<1>1. win[p] \in Windows
  BY DEF Active, Stage, Statements, Retrieving
<1>2. /\ runtime' \in [Windows -> {"idle", "ready", "running", "error"}]
      /\ \A w \in Windows : runtime'[w] = "running" => w # win[p] /\ runtime[w] = "running"
  BY <1>1 DEF TypeOK, Returns, PushResult
<1>3. /\ pc' \in [Preps -> Statements \union Over \union {"idle"}]
      /\ pc'[p] = "done" /\ \A q \in Preps \ {p} : pc'[q] = pc[q]
  BY DEF TypeOK, Returns, Over
<1>4. /\ answer' \in [Preps -> [status : {"none", "ok", "error"}, task : Preps \union {None},
                                     fresh : BOOLEAN]]
      /\ answer'[p] = [status |-> status, task |-> t, fresh |-> fresh]
      /\ \A q \in Preps \ {p} : answer'[q] = answer[q]
  BY DEF TypeOK, Returns
<1> QED
  BY <1>2, <1>3, <1>4

(* The invocation is over.                                                 *)
LEMMA ReturnsInv ==
    ASSUME PInv, NEW p \in Preps, NEW status \in {"ok", "error"}, NEW t \in Preps \union {None},
           NEW fresh \in BOOLEAN, Active(p), Returns(p, status, t, fresh), UNCHANGED callVars,
           Stores(p),
           status = "ok" => /\ t \in Preps /\ Complete(t)' /\ key[t] = key[p]
                            /\ record'[key[p]] # None,
           fresh => pc[p] = "record" /\ UNCHANGED draft /\ t = p,
           pc[p] \in {"inspect", "resolve"} => UNCHANGED task
    PROVE  PInv'
<1>1. TypeOK /\ Stage(p) /\ Told(p) /\ Later(p) /\ Shelved(p)
  BY DEF PInv
<1>2. win' = win /\ key' = key /\ after' = after /\ apart' = apart
  BY DEF callVars
<1>3. /\ runtime' \in [Windows -> {"idle", "ready", "running", "error"}]
      /\ \A w \in Windows : runtime'[w] = "running" => w # win[p] /\ runtime[w] = "running"
      /\ pc' \in [Preps -> Statements \union Over \union {"idle"}]
      /\ pc'[p] = "done" /\ \A q \in Preps \ {p} : pc'[q] = pc[q]
      /\ answer' \in [Preps -> [status : {"none", "ok", "error"}, task : Preps \union {None},
                                     fresh : BOOLEAN]]
      /\ answer'[p] = [status |-> status, task |-> t, fresh |-> fresh]
      /\ \A q \in Preps \ {p} : answer'[q] = answer[q]
  BY <1>1, ReturnsFacts
<1>4. TypeOK'
  BY <1>1, <1>2, <1>3 DEF TypeOK, Stores, Tables
<1>5. Others(p) /\ Writes(p)
  BY <1>2, <1>3 DEF Others, Stores
<1>6. pc[p] \notin Over /\ pc[p] # "idle"
  BY DEF Active, Over, Statements, Retrieving
<1>7. Advances(p)
  BY <1>2, <1>3, <1>6 DEF Advances, Stores
<1>8. win[p] \in Windows /\ key[p] \in Keys
  BY <1>1, <1>6 DEF Stage
<1>9. Stage(p)'
  BY <1>2, <1>3, <1>8 DEF Stage
<1>10. Told(p)'
  BY <1>2, <1>3, <1>8 DEF Told
<1>11. Later(p)'
  <2> SUFFICES ASSUME NEW q \in after[p]
               PROVE  /\ pc'[q] = "done"
                      /\ answer'[q].status = "ok" /\ key[q] = key[p] =>
                           task'[p].state = "none" /\ ~fresh
    BY <1>2, <1>3 DEF Later
  <2>1. q \in Preps \ {p} /\ pc[q] = "done"
    BY <1>1, <1>6 DEF Later, TypeOK, Over
  <2>2. ASSUME answer[q].status = "ok", key[q] = key[p] PROVE task'[p].state = "none" /\ ~fresh
    <3>1. task[p].state = "none" /\ pc[p] \in {"inspect", "resolve"}
      BY <1>1, <1>6, <2>2 DEF Later, Over
    <3> QED
      BY <3>1
  <2> QED
    BY <1>3, <2>1, <2>2
<1>12. Shelved(p)'
  <2> SUFFICES ASSUME Alone(p)', fresh PROVE draft'[win[p]] = p
    BY <1>2, <1>3 DEF Shelved
  <2>1. Alone(p)
    BY <1>2, <1>3 DEF Alone
  <2> QED
    BY <1>1, <2>1 DEF Shelved
<1> QED
  BY <1>4, <1>5, <1>7, <1>9, <1>10, <1>11, <1>12, Frame

(* An exception: whatever the statement did, the answer is an error.       *)
LEMMA ThrowsInv ==
    ASSUME PInv, NEW p \in Preps, Active(p), Throws(p), UNCHANGED callVars, Stores(p),
           pc[p] \in {"inspect", "resolve"} => UNCHANGED task
    PROVE  PInv'
BY ReturnsInv DEF Throws

(***************************************************************************)
(* The steps.                                                              *)
(***************************************************************************)
LEMMA StartInv ==
    ASSUME PInv, NEW p \in Preps, NEW w \in Windows, NEW k \in Keys, Start(p, w, k)
    PROVE  PInv'
<1>1. TypeOK /\ Stage(p) /\ Told(p) /\ Later(p) /\ pc[p] = "idle"
  BY DEF PInv, Start
<1>2. /\ record' = record /\ task' = task /\ context' = context /\ history' = history
      /\ draft' = draft /\ offer' = offer /\ runtime' = runtime /\ answer' = answer
  BY DEF Start, tableVars, storeVars
<1>3. /\ pc'[p] = "inspect" /\ win'[p] = w /\ key'[p] = k /\ after'[p] = {q \in Preps : pc[q] = "done"}
      /\ \A q \in Preps \ {p} : pc'[q] = pc[q] /\ win'[q] = win[q] /\ key'[q] = key[q]
                                /\ after'[q] = after[q] /\ (apart'[q] => apart[q])
      /\ pc' \in [Preps -> Statements \union Over \union {"idle"}]
      /\ win' \in [Preps -> Windows \union {None}] /\ key' \in [Preps -> Keys \union {None}]
      /\ after' \in [Preps -> SUBSET Preps]
  BY <1>1 DEF Start, TypeOK, Statements
<1>4. apart' \in [Preps -> BOOLEAN]
  BY <1>1 DEF Start, TypeOK
<1>5. TypeOK'
  BY <1>1, <1>2, <1>3, <1>4 DEF TypeOK
<1>6. answer[p] = NoAnswer /\ task[p] = [state |-> "none", ref |-> FALSE]
  BY <1>1 DEF Told, Stage
<1>7. Others(p) /\ Writes(p)
  BY <1>2, <1>3 DEF Others, Writes
<1>8. Advances(p)
  BY <1>1, <1>2, <1>3 DEF Advances, Over, Complete
<1>9. Stage(p)'
  BY <1>2, <1>3, <1>6 DEF Stage
<1>10. Told(p)'
  BY <1>2, <1>6 DEF Told, NoAnswer
<1>11. Later(p)'
  BY <1>1, <1>2, <1>3, <1>6 DEF Later, NoAnswer
<1>12. Shelved(p)'
  BY <1>2, <1>3, <1>6 DEF Shelved, NoAnswer
<1> QED
  BY <1>5, <1>7, <1>8, <1>9, <1>10, <1>11, <1>12, Frame

LEMMA RefuseInv == ASSUME PInv, NEW p \in Preps, Refuse(p) PROVE PInv'
BY NothingStored, ReturnsInv, Zenon DEF Refuse, Active, tableVars

(* The tables are untouched; the invocation is at its next await.          *)
LEMMA MovesInv ==
    ASSUME PInv, NEW p \in Preps, Active(p),
           NEW next \in {"resolve", "search", "supplement", "saveTask"},
           pc[p] \in {"inspect", "resolve", "search", "supplement"},
           pc' = [pc EXCEPT ![p] = next], UNCHANGED <<tableVars, draft, offer, answer, callVars>>,
           runtime' = runtime \/ runtime' = [runtime EXCEPT ![win[p]] = "running"],
           next = "resolve" \/ pc[p] \in {"search", "supplement"} \/ record[key[p]] = None
    PROVE  PInv'
<1>1. TypeOK /\ Stage(p) /\ Told(p) /\ Later(p)
  BY DEF PInv
<1>2. task' = task /\ record' = record /\ answer' = answer /\ key' = key /\ win' = win /\ after' = after
      /\ context' = context /\ history' = history /\ draft' = draft /\ offer' = offer
  BY DEF tableVars, callVars
<1>3. Stores(p)
  BY NothingStored
<1>4. pc'[p] = next /\ \A q \in Preps \ {p} : pc'[q] = pc[q]
  BY <1>1 DEF TypeOK
<1>5. Stage(p)'
  BY <1>1, <1>2, <1>4 DEF Stage
<1>6. runtime' \in [Windows -> {"idle", "ready", "running", "error"}]
      /\ \A w \in Windows : runtime'[w] = "running" => w = win[p] \/ runtime[w] = "running"
  BY <1>1 DEF TypeOK
<1>7. Later(p)'
  <2> SUFFICES ASSUME NEW q \in after[p]
               PROVE  /\ pc'[q] = "done"
                      /\ answer[q].status = "ok" /\ key[q] = key[p] =>
                           /\ task[p].state = "none" /\ ~answer[p].fresh
                           /\ next \in {"inspect", "resolve", "done", "dead"}
    BY <1>2, <1>4 DEF Later
  <2>1. q \in Preps \ {p} /\ pc[q] = "done"
    BY <1>1 DEF Later, TypeOK
  <2>2. ASSUME answer[q].status = "ok", key[q] = key[p] PROVE next = "resolve"
    <3>1. record[key[p]] # None
      BY <2>1, <2>2 DEF PInv, Told
    <3> QED
      BY <1>1, <2>2, <3>1 DEF Later
  <2> QED
    BY <1>1, <1>4, <2>1, <2>2 DEF Later
<1>8. next \in Statements /\ next # "record"
  BY DEF Statements, Retrieving
<1> QED
  BY <1>3, <1>5, <1>6, <1>7, <1>8, GoesOnInv

LEMMA InspectInv == ASSUME PInv, NEW p \in Preps, Inspect(p) PROVE PInv'
<1>1. Active(p) /\ pc[p] = "inspect" /\ pc' = [pc EXCEPT ![p] = "resolve"]
      /\ runtime' = [runtime EXCEPT ![win[p]] = "running"]
      /\ UNCHANGED <<tableVars, draft, offer, answer, callVars>>
  BY DEF Inspect, Active
<1> QED
  BY <1>1, MovesInv

LEMMA ResolveInv == ASSUME PInv, NEW p \in Preps, ResolveIdempotentResult(p) PROVE PInv'
<1>1. Active(p) /\ pc[p] = "resolve" /\ UNCHANGED <<tableVars, draft, offer, callVars>>
  BY DEF ResolveIdempotentResult, Active, Statements
<1>2. key[p] \in Keys
  BY <1>1 DEF PInv, Stage
<1>3. ASSUME NEW t, t = record[key[p]], t # None, Returns(p, "ok", t, FALSE) PROVE PInv'
  <2>1. t \in Preps /\ Complete(t) /\ key[t] = key[p]
    BY <1>2, <1>3 DEF PInv, Recorded
  <2>2. record' = record /\ task' = task /\ context' = context /\ history' = history
    BY <1>1 DEF tableVars
  <2>3. Complete(t)' /\ record'[key[p]] # None
    BY <1>3, <2>1, <2>2 DEF Complete
  <2>4. Stores(p)
    BY <1>1, NothingStored
  <2> QED
    BY <1>1, <1>3, <2>1, <2>2, <2>3, <2>4, ReturnsInv
<1>4. CASE /\ record[key[p]] = None /\ UNCHANGED <<runtime, answer>>
           /\ \E next \in {"saveTask", "search"} : pc' = [pc EXCEPT ![p] = next]
  BY <1>1, <1>4, MovesInv
<1> QED
  BY <1>3, <1>4 DEF ResolveIdempotentResult

LEMMA SearchInv ==
    ASSUME PInv, NEW p \in Preps, QueryFiles(p) \/ QueryChunks(p) \/ Supplement(p) PROVE PInv'
<1>1. pc[p] \in {"search", "supplement"}
      /\ UNCHANGED <<tableVars, draft, offer, runtime, answer, callVars>>
  BY DEF QueryFiles, QueryChunks, Supplement, storeVars
<1>2. ASSUME NEW now, AfterSearch(p, now) 
      PROVE  UNCHANGED pc \/ \E next \in {"supplement", "saveTask"} : pc' = [pc EXCEPT ![p] = next]
  BY <1>2 DEF AfterSearch
<1>3. UNCHANGED pc \/ \E next \in {"supplement", "saveTask"} : pc' = [pc EXCEPT ![p] = next]
  BY <1>2 DEF QueryFiles, QueryChunks, Supplement
<1>4. CASE UNCHANGED pc
  <2>1. pc' = [pc EXCEPT ![p] = pc[p]]
    BY <1>4 DEF PInv, TypeOK
  <2> QED
    BY <1>1, <2>1, MovesInv DEF Active, Statements, Retrieving
<1>5. CASE \E next \in {"supplement", "saveTask"} : pc' = [pc EXCEPT ![p] = next]
  BY <1>1, <1>5, MovesInv DEF Active, Statements, Retrieving
<1> QED
  BY <1>3, <1>4, <1>5

(* Past the replay the key had no answer: Later speaks of no other.        *)
LEMMA PastReplay ==
    ASSUME PInv, NEW p \in Preps,
           pc[p] \in {"saveTask", "saveContext", "saveRef", "transition", "history", "record"},
           after' = after, answer' = answer, key' = key,
           NEW next \in Statements, pc' = [pc EXCEPT ![p] = next]
    PROVE  Later(p)'
<1>1. TypeOK /\ Later(p)
  BY DEF PInv
<1>2. pc'[p] = next /\ next # "idle" /\ \A q \in Preps \ {p} : pc'[q] = pc[q]
  BY <1>1 DEF TypeOK, Statements, Retrieving
<1>3. \A q \in after[p] : q \in Preps \ {p} /\ pc[q] = "done"
                          /\ ~(answer[q].status = "ok" /\ key[q] = key[p])
  BY <1>1 DEF Later, TypeOK
<1> QED
  BY <1>2, <1>3 DEF Later

(* A statement that is not the last: its reply comes, or is lost.          *)
LEMMA RepliesInv ==
    ASSUME PInv, NEW p \in Preps, NEW next \in {"saveContext", "saveRef", "transition", "history"},
           pc[p] \in {"saveTask", "saveContext", "saveRef", "transition"},
           Stores(p), UNCHANGED <<callVars, draft, offer>>,
           \/ pc' = [pc EXCEPT ![p] = next] /\ UNCHANGED <<runtime, answer>>
           \/ Throws(p),
           pc' = [pc EXCEPT ![p] = next] => Stage(p)'
    PROVE  PInv'
<1>1. Active(p) /\ pc[p] \notin {"inspect", "resolve"} /\ next \in Statements /\ next # "record"
  BY DEF Active, Statements, Retrieving
<1>2. CASE pc' = [pc EXCEPT ![p] = next] /\ UNCHANGED <<runtime, answer>>
  <2>1. Later(p)'
    BY <1>1, <1>2, PastReplay DEF callVars
  <2>2. runtime' = runtime /\ runtime \in [Windows -> {"idle", "ready", "running", "error"}]
    BY <1>2 DEF PInv, TypeOK
  <2> QED
    BY <1>1, <1>2, <2>1, <2>2, GoesOnInv
<1>3. CASE Throws(p)
  BY <1>1, <1>3, ThrowsInv
<1> QED
  BY <1>2, <1>3

(* What a write to the row of p's task is to the other tables.             *)
LEMMA TaskStored ==
    ASSUME PInv, NEW p \in Preps, ~Complete(p),
           NEW row \in [state : {"none", "draft", "prepared", "run"}, ref : BOOLEAN],
           task' = [task EXCEPT ![p] = row], UNCHANGED <<record, context, history, draft, offer>>
    PROVE  Stores(p) /\ task'[p] = row
BY DEF PInv, TypeOK, Tables, Stores, Writes

LEMMA SaveTaskInv == ASSUME PInv, NEW p \in Preps, SaveTask(p) PROVE PInv'
<1>1. TypeOK /\ Stage(p) /\ pc[p] = "saveTask" /\ task' = [task EXCEPT ![p] = [state |-> "draft", ref |-> FALSE]]
  BY DEF PInv, SaveTask
<1>2. ~Complete(p)
  BY <1>1 DEF Stage, Complete
<1>3. Stores(p) /\ task'[p] = [state |-> "draft", ref |-> FALSE]
  BY <1>1, <1>2, TaskStored DEF SaveTask
<1>4. ASSUME pc' = [pc EXCEPT ![p] = "saveContext"] PROVE Stage(p)'
  <2>1. pc'[p] = "saveContext" /\ win' = win /\ key' = key
    BY <1>1, <1>4 DEF TypeOK, SaveTask, callVars
  <2> QED
    BY <1>1, <1>3, <2>1 DEF Stage
<1>5. \/ pc' = [pc EXCEPT ![p] = "saveContext"] /\ UNCHANGED <<runtime, answer>>
      \/ Throws(p)
  BY DEF SaveTask
<1> QED
  BY <1>1, <1>3, <1>4, <1>5, RepliesInv DEF SaveTask

LEMMA SaveTaskContextInv == ASSUME PInv, NEW p \in Preps, SaveTaskContext(p) PROVE PInv'
<1>1. TypeOK /\ Stage(p) /\ pc[p] = "saveContext" /\ context' = context \union {p}
      /\ UNCHANGED <<record, task, history, draft, offer>>
  BY DEF PInv, SaveTaskContext
<1>2. Stores(p)
  BY <1>1 DEF TypeOK, Tables, Stores, Writes, Complete
<1>3. ASSUME pc' = [pc EXCEPT ![p] = "saveRef"] PROVE Stage(p)'
  <2>1. pc'[p] = "saveRef" /\ win' = win /\ key' = key
    BY <1>1, <1>3 DEF TypeOK, SaveTaskContext, callVars
  <2> QED
    BY <1>1, <2>1 DEF Stage
<1>4. \/ pc' = [pc EXCEPT ![p] = "saveRef"] /\ UNCHANGED <<runtime, answer>>
      \/ Throws(p)
  BY DEF SaveTaskContext, Replies, Goes
<1> QED
  BY <1>1, <1>2, <1>3, <1>4, RepliesInv DEF SaveTaskContext

LEMMA SaveTaskRefInv == ASSUME PInv, NEW p \in Preps, SaveTaskRef(p) PROVE PInv'
<1>1. TypeOK /\ Stage(p) /\ pc[p] = "saveRef" /\ task' = [task EXCEPT ![p] = [state |-> "draft", ref |-> TRUE]]
  BY DEF PInv, SaveTaskRef
<1>2. ~Complete(p)
  BY <1>1 DEF Stage, Complete
<1>3. Stores(p) /\ task'[p] = [state |-> "draft", ref |-> TRUE]
  BY <1>1, <1>2, TaskStored DEF SaveTaskRef
<1>4. ASSUME pc' = [pc EXCEPT ![p] = "transition"] PROVE Stage(p)'
  <2>1. pc'[p] = "transition" /\ win' = win /\ key' = key /\ context' = context
    BY <1>1, <1>4 DEF TypeOK, SaveTaskRef, callVars
  <2> QED
    BY <1>1, <1>3, <2>1 DEF Stage
<1>5. \/ pc' = [pc EXCEPT ![p] = "transition"] /\ UNCHANGED <<runtime, answer>>
      \/ Throws(p)
  BY DEF SaveTaskRef, Replies, Goes
<1> QED
  BY <1>1, <1>3, <1>4, <1>5, RepliesInv DEF SaveTaskRef

LEMMA TransitionInv == ASSUME PInv, NEW p \in Preps, TransitionTaskState(p) PROVE PInv'
<1>1. TypeOK /\ Stage(p) /\ pc[p] = "transition" /\ task' = [task EXCEPT ![p].state = "prepared"]
  BY DEF PInv, TransitionTaskState
<1>2. task[p] = [state |-> "draft", ref |-> TRUE]
  BY <1>1 DEF Stage
<1>3. ~Complete(p)
  BY <1>2 DEF Complete
<1>4. /\ task' \in [Preps -> [state : {"none", "draft", "prepared", "run"}, ref : BOOLEAN]]
      /\ task'[p].state = "prepared" /\ task'[p].ref /\ \A q \in Preps \ {p} : task'[q] = task[q]
  <2>1. /\ task' \in [Preps -> [state : {"none", "draft", "prepared", "run"}, ref : BOOLEAN]]
        /\ task'[p].state = "prepared" /\ task'[p].ref = task[p].ref
        /\ \A q \in Preps \ {p} : task'[q] = task[q]
    BY <1>1, SMTT(60) DEF TypeOK
  <2> QED
    BY <1>2, <2>1
<1>5. Stores(p)
  <2>1. record' = record /\ context' = context /\ history' = history /\ draft' = draft /\ offer' = offer
    BY DEF TransitionTaskState
  <2> QED
    BY <1>1, <1>3, <1>4, <2>1 DEF TypeOK, Tables, Stores, Writes
<1>6. ASSUME pc' = [pc EXCEPT ![p] = "history"] PROVE Stage(p)'
  <2>1. pc'[p] = "history" /\ win' = win /\ key' = key /\ context' = context
    BY <1>1, <1>6 DEF TypeOK, TransitionTaskState, callVars
  <2> QED
    BY <1>1, <1>4, <2>1 DEF Stage
<1>7. \/ pc' = [pc EXCEPT ![p] = "history"] /\ UNCHANGED <<runtime, answer>>
      \/ Throws(p)
  BY DEF TransitionTaskState, Replies, Goes
<1> QED
  BY <1>1, <1>5, <1>6, <1>7, RepliesInv DEF TransitionTaskState

LEMMA WriteHistoryInv == ASSUME PInv, NEW p \in Preps, WriteHistory(p) PROVE PInv'
<1>1. /\ TypeOK /\ Stage(p) /\ pc[p] = "history" /\ history' = history \union {p}
      /\ UNCHANGED <<record, task, context, callVars>> /\ Active(p)
  BY DEF PInv, WriteHistory, Active, Statements
<1>2. Complete(p)' /\ win[p] \in Windows
  BY <1>1 DEF Stage, Complete
<1>3. CASE pc' = [pc EXCEPT ![p] = "record"] /\ StoreDraft(p) /\ UNCHANGED answer
  <2>1. Stores(p)
    BY <1>1, <1>2, <1>3 DEF TypeOK, Tables, Stores, Writes, StoreDraft
  <2>2. pc'[p] = "record" /\ draft'[win[p]] = p /\ win' = win /\ key' = key
    BY <1>1, <1>2, <1>3 DEF TypeOK, StoreDraft, callVars
  <2>3. Stage(p)'
    BY <1>1, <1>2, <2>2 DEF Stage, Complete
  <2>4. runtime' \in [Windows -> {"idle", "ready", "running", "error"}]
        /\ \A w \in Windows : runtime'[w] = "running" => w = win[p] \/ runtime[w] = "running"
    BY <1>1, <1>3 DEF TypeOK, StoreDraft
  <2>5. Later(p)'
    BY <1>1, <1>3, PastReplay DEF callVars, Statements
  <2> QED
    BY <1>1, <1>3, <2>1, <2>2, <2>3, <2>4, <2>5, GoesOnInv DEF Statements
<1>4. CASE Throws(p) /\ UNCHANGED <<draft, offer>>
  <2>1. Stores(p)
    BY <1>1, <1>2, <1>4 DEF TypeOK, Tables, Stores, Writes
  <2> QED
    BY <1>1, <1>4, <2>1, ThrowsInv
<1> QED
  BY <1>3, <1>4 DEF WriteHistory

LEMMA SaveIdempotentResultInv ==
    ASSUME PInv, NEW p \in Preps, SaveIdempotentResult(p) PROVE PInv'
<1>1. /\ TypeOK /\ Stage(p) /\ pc[p] = "record" /\ record' = [record EXCEPT ![key[p]] = p]
      /\ UNCHANGED <<task, context, history, draft, offer, callVars>> /\ Active(p)
  BY DEF PInv, SaveIdempotentResult, Active, Statements
<1>2. Complete(p) /\ Complete(p)' /\ key[p] \in Keys /\ p # None
  BY <1>1, PrepareConstantsOK DEF Stage, Complete, PrepareConstantsOK
<1>3. record'[key[p]] = p
  BY <1>1, <1>2 DEF TypeOK
<1>4. Stores(p)
  BY <1>1, <1>2 DEF TypeOK, Tables, Stores, Writes
<1>5. CASE Returns(p, "ok", p, TRUE)
  BY <1>1, <1>2, <1>3, <1>4, <1>5, ReturnsInv
<1>6. CASE Throws(p)
  BY <1>1, <1>4, <1>6, ThrowsInv
<1> QED
  BY <1>5, <1>6 DEF SaveIdempotentResult

LEMMA StatementFailsInv == ASSUME PInv, NEW p \in Preps, StatementFails(p) PROVE PInv'
<1>1. Stores(p)
  BY NothingStored DEF StatementFails
<1> QED
  BY <1>1, ThrowsInv DEF StatementFails, Active, tableVars

(***************************************************************************)
(* What happens around an invocation.                                      *)
(***************************************************************************)
LEMMA UnseenInv ==
    ASSUME PInv, UNCHANGED <<tableVars, storeVars, pc, answer, callVars>> PROVE PInv'
BY DEF PInv, TypeOK, Stage, Told, Later, Shelved, Alone, Recorded, Drafted, Busy, Complete, Running,
   tableVars, storeVars, callVars

LEMMA RunDraftInv == ASSUME PInv, OInv, NEW t \in Preps, RunDraft(t) PROVE PInv'
<1>1. Complete(t) /\ task[t].state = "prepared" /\ task' = [task EXCEPT ![t].state = "run"]
  BY DEF OInv, Offered, RunDraft
<1>2. /\ UNCHANGED <<record, context, history, storeVars, pc, answer, callVars>>
  BY DEF RunDraft
<1>3. TypeOK
  BY DEF PInv
<1>4. /\ task' \in [Preps -> [state : {"none", "draft", "prepared", "run"}, ref : BOOLEAN]]
      /\ task'[t].state = "run" /\ task'[t].ref = task[t].ref
      /\ \A q \in Preps \ {t} : task'[q] = task[q]
  BY <1>1, <1>3 DEF TypeOK
<1>5. TypeOK'
  BY <1>2, <1>3, <1>4 DEF TypeOK, storeVars, callVars
<1>6. ASSUME NEW q \in Preps, Complete(q) PROVE Complete(q)'
  BY <1>2, <1>4, <1>6 DEF Complete
<1>7. ASSUME NEW q \in Preps PROVE Stage(q)' /\ Told(q)' /\ Later(q)' /\ Shelved(q)'
  <2>1. Stage(q) /\ Told(q) /\ Later(q) /\ Shelved(q)
    BY DEF PInv
  <2>2. Stage(q)'
    <3>1. CASE q = t
      <4>1. pc[t] \notin {"idle", "inspect", "resolve", "search", "supplement", "saveTask",
                          "saveContext", "saveRef", "transition"}
        BY <1>1, <2>1, <3>1 DEF Stage, Complete
      <4> QED
        BY <1>1, <1>2, <1>4, <2>1, <3>1, <4>1 DEF Stage, Complete, callVars
    <3>2. CASE q # t
      BY <1>2, <1>4, <2>1, <3>2 DEF Stage, Complete, callVars
    <3> QED
      BY <3>1, <3>2
  <2>3. Told(q)' /\ Shelved(q)'
    BY <1>2, <1>6, <2>1 DEF Told, Shelved, Alone, storeVars, callVars
  <2>4. Later(q)'
    BY <1>2, <1>1, <1>4, <2>1 DEF Later, callVars
  <2> QED
    BY <2>2, <2>3, <2>4
<1>8. ASSUME NEW k \in Keys PROVE Recorded(k)'
  BY <1>2, <1>6 DEF PInv, Recorded, callVars
<1>9. ASSUME NEW v \in Windows PROVE Drafted(v)' /\ Busy(v)'
  BY <1>2, <1>6 DEF PInv, Drafted, Busy, Running, storeVars, callVars
<1> QED
  BY <1>5, <1>7, <1>8, <1>9 DEF PInv

LEMMA WindowDiesInv == ASSUME PInv, NEW w \in Windows, WindowDies(w) PROVE PInv'
<1> DEFINE cut == {p \in Running : win[p] = w}
<1>1. /\ UNCHANGED <<tableVars, win, key, answer, after>>
      /\ draft' = [draft EXCEPT ![w] = None] /\ runtime' = [runtime EXCEPT ![w] = "idle"]
      /\ offer' = [p \in Preps |-> IF offer[p] = "open" /\ win[p] = w THEN "closed" ELSE offer[p]]
      /\ pc' = [p \in Preps |-> IF p \in cut THEN "dead" ELSE pc[p]]
      /\ apart' = [p \in Preps |-> apart[p] /\ win[p] # w]
  BY DEF WindowDies
<1>2. TypeOK
  BY DEF PInv
<1>3. TypeOK'
  <2>1. /\ draft' \in [Windows -> Preps \union {None}]
        /\ runtime' \in [Windows -> {"idle", "ready", "running", "error"}]
    BY <1>1, <1>2 DEF TypeOK
  <2>4. offer' \in [Preps -> {"no", "open", "closed"}]
    BY <1>1, <1>2 DEF TypeOK
  <2>2. pc' \in [Preps -> Statements \union Over \union {"idle"}]
    BY <1>1, <1>2 DEF TypeOK, Over
  <2>3. apart' \in [Preps -> BOOLEAN]
    BY <1>1, <1>2 DEF TypeOK
  <2> QED
    BY <1>1, <1>2, <2>1, <2>2, <2>3, <2>4 DEF TypeOK, tableVars
<1>4. ASSUME NEW p \in Preps
      PROVE  \/ pc'[p] = pc[p] /\ (p \in Running => win[p] # w)
             \/ pc'[p] = "dead" /\ pc[p] \notin {"idle", "done", "dead"} /\ win[p] = w
  BY <1>1 DEF Running, Over
<1>5. ASSUME NEW p \in Preps PROVE Stage(p)' /\ Told(p)' /\ Later(p)'
  <2>1. Stage(p) /\ Told(p) /\ Later(p)
    BY DEF PInv
  <2>2. Stage(p)'
    BY <1>1, <1>4, <2>1 DEF Stage, Complete, tableVars
  <2>3. Told(p)'
    BY <1>1, <1>4, <2>1 DEF Told, Complete, tableVars
  <2>4. Later(p)'
    <3>1. \A q \in after[p] : pc[q] = "done" /\ pc'[q] = "done"
      BY <1>2, <1>4, <2>1 DEF Later, TypeOK
    <3> QED
      BY <1>1, <1>4, <2>1, <3>1 DEF Later, tableVars
  <2> QED
    BY <2>2, <2>3, <2>4
<1>6. ASSUME NEW p \in Preps PROVE Shelved(p)'
  <2> SUFFICES ASSUME Alone(p)', pc'[p] = "record" \/ answer[p].fresh PROVE draft'[win[p]] = p
    BY <1>1 DEF Shelved
  <2>1. apart[p] /\ win[p] # w
    BY <1>1 DEF Alone
  <2>2. pc'[p] = pc[p]
    BY <1>4, <2>1
  <2>3. Alone(p)
    <3>1. \A q \in Preps : pc'[q] = "idle" => pc[q] = "idle"
      BY <1>4
    <3> QED
      BY <1>1, <2>1, <3>1 DEF Alone
  <2>4. draft[win[p]] = p
    BY <2>2, <2>3 DEF PInv, Shelved
  <2>5. win[p] \in Windows
    BY <2>2 DEF PInv, Stage, Told, NoAnswer
  <2> QED
    BY <1>1, <1>2, <2>1, <2>4, <2>5 DEF TypeOK
<1>7. ASSUME NEW k \in Keys PROVE Recorded(k)'
  BY <1>1 DEF PInv, Recorded, Complete, tableVars
<1>8. ASSUME NEW v \in Windows PROVE Drafted(v)' /\ Busy(v)'
  <2>1. Drafted(v)'
    BY <1>1, <1>2 DEF PInv, TypeOK, Drafted, Complete, tableVars
  <2>2. Busy(v)'
    <3> SUFFICES ASSUME runtime'[v] = "running" PROVE \E p \in Running' : win[p] = v
      BY <1>1 DEF Busy
    <3>1. v # w /\ runtime[v] = "running"
      BY <1>1, <1>2 DEF TypeOK
    <3>2. PICK p \in Running : win[p] = v
      BY <3>1 DEF PInv, Busy
    <3>3. p \in Preps /\ pc'[p] = pc[p]
      BY <1>4, <3>1, <3>2 DEF Running
    <3> QED
      BY <3>2, <3>3 DEF Running
  <2> QED
    BY <2>1, <2>2
<1> QED
  BY <1>3, <1>5, <1>6, <1>7, <1>8 DEF PInv

(***************************************************************************)
(* The theorems.                                                           *)
(***************************************************************************)
LEMMA NextPInv == PInv /\ OInv /\ [Next]_vars => PInv'
<1> SUFFICES ASSUME PInv, OInv, [Next]_vars PROVE PInv'
  OBVIOUS
<1>1. ASSUME NEW p \in Preps, Prepare(p) PROVE PInv'
  BY <1>1, StartInv, RefuseInv, InspectInv, ResolveInv, SearchInv, SaveTaskInv, SaveTaskContextInv,
     SaveTaskRefInv, TransitionInv, WriteHistoryInv, SaveIdempotentResultInv, StatementFailsInv
     DEF Prepare
<1>2. ASSUME NEW f \in Paths, NEW text \in Texts \union {"gone"}, Reindex(f, text) PROVE PInv'
  BY <1>2, UnseenInv DEF Reindex
<1>3. ASSUME NEW t \in Preps, RunDraft(t) PROVE PInv'
  BY <1>3, RunDraftInv
<1>4. ASSUME NEW w \in Windows, WindowDies(w) PROVE PInv'
  BY <1>4, WindowDiesInv
<1>5. CASE UNCHANGED vars
  BY <1>5, UnseenInv DEF vars
<1> QED
  BY <1>1, <1>2, <1>3, <1>4, <1>5 DEF Next

(***************************************************************************)
(* The offers.                                                             *)
(***************************************************************************)
Shelves(p) ==
    /\ pc[p] = "history" /\ pc'[p] = "record" /\ task' = task
    /\ draft' = [draft EXCEPT ![win[p]] = p] /\ offer' = [offer EXCEPT ![p] = "open"]

(* What a step of an invocation does to the tasks and the store.           *)
LEMMA Effects ==
    ASSUME PInv, NEW p \in Preps, Prepare(p)
    PROVE  /\ \A q \in Preps \ {p} : pc'[q] = pc[q] /\ task'[q] = task[q]
           /\ context \subseteq context' /\ history \subseteq history'
           /\ pc[p] \notin Over
           /\ pc[p] = "record" => task' = task /\ pc'[p] = "done"
           /\ task'[p].state = "run" => task[p].state = "run"
           /\ UNCHANGED <<draft, offer>> \/ (Shelves(p) /\ p \in history')
<1> USE DEF Goes, Throws, Replies, Returns, Over, Statements, Retrieving
<1>0. TypeOK /\ Stage(p)
  BY DEF PInv
<1>1. CASE (\E w \in Windows, k \in Keys : Start(p, w, k)) \/ Refuse(p) \/ Inspect(p)
  BY <1>0, <1>1 DEF TypeOK, Start, Refuse, Inspect, storeVars, tableVars
<1>2. CASE ResolveIdempotentResult(p)
  BY <1>0, <1>2 DEF TypeOK, ResolveIdempotentResult, tableVars
<1>3. CASE QueryFiles(p) \/ QueryChunks(p) \/ Supplement(p)
  BY <1>0, <1>3 DEF TypeOK, QueryFiles, QueryChunks, Supplement, AfterSearch, storeVars, tableVars
<1>4. CASE SaveTask(p) \/ SaveTaskContext(p)
  BY <1>0, <1>4 DEF TypeOK, SaveTask, SaveTaskContext
<1>5. CASE SaveTaskRef(p) \/ TransitionTaskState(p)
  BY <1>0, <1>5 DEF TypeOK, SaveTaskRef, TransitionTaskState
<1>6. CASE WriteHistory(p)
  BY <1>0, <1>6 DEF TypeOK, WriteHistory, StoreDraft, Shelves
<1>7. CASE SaveIdempotentResult(p) \/ StatementFails(p)
  BY <1>0, <1>7 DEF TypeOK, SaveIdempotentResult, StatementFails, tableVars
<1> QED
  BY <1>1, <1>2, <1>3, <1>4, <1>5, <1>6, <1>7 DEF Prepare

LEMMA InitOInv == Init => OInv
BY DEF Init, OInv, Offered

LEMMA PrepareOInv == ASSUME PInv, OInv, NEW p \in Preps, Prepare(p) PROVE OInv'
<1>0. /\ TypeOK /\ Stage(p) /\ PInv' /\ Stage(p)'
  BY NextPInv DEF PInv, Next
<1>1. ASSUME NEW q \in Preps \ {p} PROVE Offered(q)'
  <2>1. Offered(q) /\ offer'[q] = offer[q] /\ pc'[q] = pc[q] /\ task'[q] = task[q]
    BY <1>0, <1>1, Effects DEF OInv, TypeOK, Shelves
  <2>2. Complete(q) => Complete(q)'
    BY <2>1, Effects DEF Complete
  <2> QED
    BY <2>1, <2>2 DEF Offered
<1>2. Offered(p)'
  <2>1. CASE UNCHANGED <<draft, offer>>
    <3>1. offer[p] # "no" => Complete(p)' /\ pc'[p] = "done"
      BY Effects DEF OInv, Offered, Complete
    <3> QED
      BY <2>1, <3>1, Effects DEF OInv, Offered, Over
  <2>2. CASE Shelves(p)
    BY <1>0, <2>2 DEF Shelves, Offered, Stage, TypeOK
  <2> QED
    BY <2>1, <2>2, Effects
<1>3. ASSUME NEW w \in Windows, draft'[w] # None PROVE offer'[draft'[w]] = "open"
  <2>1. CASE UNCHANGED <<draft, offer>>
    BY <1>3, <2>1 DEF OInv
  <2>2. CASE Shelves(p)
    BY <1>0, <1>3, <2>2 DEF Shelves, OInv, TypeOK
  <2> QED
    BY <2>1, <2>2, Effects
<1> QED
  BY <1>1, <1>2, <1>3 DEF OInv

LEMMA RunDraftOInv == ASSUME PInv, OInv, NEW t \in Preps, RunDraft(t) PROVE OInv'
<1>1. /\ task'[t].state = "run" /\ task'[t].ref = task[t].ref
      /\ \A q \in Preps \ {t} : task'[q] = task[q]
      /\ UNCHANGED <<draft, offer, pc, context, history>> /\ offer[t] = "open"
  BY DEF PInv, TypeOK, RunDraft, storeVars
<1> QED
  BY <1>1 DEF OInv, Offered, Complete

LEMMA WindowDiesOInv == ASSUME PInv, OInv, NEW w \in Windows, WindowDies(w) PROVE OInv'
<1>1. /\ UNCHANGED <<task, context, history, win>>
      /\ draft'[w] = None /\ \A v \in Windows \ {w} : draft'[v] = draft[v]
      /\ \A p \in Preps : /\ offer'[p] = IF offer[p] = "open" /\ win[p] = w THEN "closed" ELSE offer[p]
                          /\ pc'[p] \in {pc[p], "dead"}
  BY DEF PInv, TypeOK, WindowDies, tableVars
<1>2. \A p \in Preps : Offered(p)'
  BY <1>1 DEF OInv, Offered, Complete, Over
<1>3. ASSUME NEW v \in Windows, draft'[v] # None PROVE offer'[draft'[v]] = "open"
  <2>1. v # w /\ draft'[v] = draft[v] /\ draft[v] \in Preps /\ win[draft[v]] = v
    BY <1>1, <1>3 DEF PInv, Drafted
  <2> QED
    BY <1>1, <1>3, <2>1 DEF OInv
<1> QED
  BY <1>2, <1>3 DEF OInv

Inv == PInv /\ OInv

LEMMA InvInit == Init => Inv
BY InitInv, InitOInv DEF Inv

LEMMA NextInv == Inv /\ [Next]_vars => Inv'
<1> SUFFICES ASSUME PInv, OInv, [Next]_vars PROVE OInv'
  BY NextPInv DEF Inv
<1>1. ASSUME UNCHANGED <<draft, offer, pc, task, context, history>> PROVE OInv'
  BY <1>1 DEF OInv, Offered, Complete
<1>2. ASSUME NEW f \in Paths, NEW text \in Texts \union {"gone"}, Reindex(f, text) PROVE OInv'
  BY <1>1, <1>2 DEF Reindex, tableVars, storeVars
<1>3. CASE UNCHANGED vars
  BY <1>1, <1>3 DEF vars, tableVars, storeVars
<1> QED
  BY <1>2, <1>3, PrepareOInv, RunDraftOInv, WindowDiesOInv DEF Next

(* Every variable keeps its type.                                          *)
THEOREM TypeCorrect == Spec => []TypeOK
<1>1. Inv => TypeOK
  BY DEF Inv, PInv
<1> QED
  BY <1>1, InvInit, NextInv, PTL DEF Spec

(* Whatever fails, an answer, a stored answer and a draft name a task that *)
(* is prepared with its context and its history (localCommandService.ts).  *)
THEOREM NamedAreComplete == Spec => []NamedTasksAreComplete
<1>1. Inv => NamedTasksAreComplete
  BY PrepareConstantsOK DEF Inv, PInv, Recorded, Told, Drafted, NamedTasksAreComplete
<1> QED
  BY <1>1, InvInit, NextInv, PTL DEF Spec

(* An invocation that begins after its key was answered ok saves no task.  *)
THEOREM RetriesReplay == Spec => []OkIsNotRepeated
<1>1. Inv => OkIsNotRepeated
  BY DEF Inv, PInv, Later, OkIsNotRepeated
<1> QED
  BY <1>1, InvInit, NextInv, PTL DEF Spec

(* A fresh answer names the draft of its window, which is not left running. *)
THEOREM StoreFollows == Spec => []StoreTellsTheAnswer
<1>1. Inv => StoreTellsTheAnswer
  BY DEF Inv, PInv, Shelved, Alone, Busy, StoreTellsTheAnswer
<1> QED
  BY <1>1, InvInit, NextInv, PTL DEF Spec

(***************************************************************************)
(* The context.  While an invocation retrieves, what the index shows is in *)
(* shown, and so is what it has fetched.                                   *)
(***************************************************************************)
Held(g) == g = [asked |-> g.asked, files |-> g.files, chunks |-> g.chunks,
                ctx |-> g.ctx, shown |-> g.shown]

Gathers(g, files) ==
    /\ Shows(files) \subseteq g.shown /\ g.files \subseteq Paths /\ OnePerPlace(g.chunks)
    /\ \A c \in g.chunks : <<c.path, c.text>> \in g.shown

Keeps(g) == IsFrom(g.ctx, g.shown) /\ KeepsBudget(g.ctx) /\ StarvesNone(g.ctx)

Holds(p, g, files) ==
    /\ Held(g)
    /\ pc[p] \in {"idle", "inspect", "resolve"} => g = Nothing
    /\ pc[p] \in Retrieving => Gathers(g, files)
    /\ pc[p] = "saveTask" => Keeps(g)

RInv ==
    /\ index \in Index /\ got = [p \in Preps |-> got[p]]
    /\ \A p \in Preps : Holds(p, got[p], index)

LEMMA NothingHeld == Held(Nothing)
BY DEF Held, Nothing

LEMMA InitRInv == Init => RInv
<1> SUFFICES ASSUME Init PROVE RInv
  OBVIOUS
<1>1. index \in Index
  BY DEF Init, Index
<1>2. got = [p \in Preps |-> Nothing] /\ \A p \in Preps : pc[p] = "idle"
  BY DEF Init
<1> QED
  BY <1>1, <1>2, NothingHeld DEF RInv, Holds, Retrieving

(* A step of p that leaves the index alone.                                *)
LEMMA HoldsInv ==
    ASSUME TypeOK, RInv, NEW p \in Preps, NEW g, got' = [got EXCEPT ![p] = g], UNCHANGED index,
           \A q \in Preps \ {p} : pc'[q] = pc[q],
           Held(g), pc'[p] \in {"idle", "inspect", "resolve"} => g = Nothing,
           pc'[p] \in Retrieving => Gathers(g, index), pc'[p] = "saveTask" => Keeps(g)
    PROVE  RInv'
<1>1. got' = [q \in Preps |-> IF q = p THEN g ELSE got[q]]
  BY DEF RInv
<1>2. got' = [q \in Preps |-> got'[q]]
  BY <1>1
<1>3. ASSUME NEW q \in Preps PROVE Holds(q, got[q], index)'
  <2>1. CASE q = p
    BY <1>1, <2>1 DEF Holds
  <2>2. CASE q # p
    <3>1. Holds(q, got[q], index) /\ got'[q] = got[q] /\ pc'[q] = pc[q]
      BY <1>1, <2>2 DEF RInv
    <3> QED
      BY <3>1 DEF Holds
  <2> QED
    BY <2>1, <2>2
<1> QED
  BY <1>2, <1>3 DEF RInv

(* A step that does not concern the retrieval.                             *)
LEMMA ElsewhereInv ==
    ASSUME TypeOK, RInv, NEW p \in Preps, UNCHANGED <<got, index>>,
           \A q \in Preps \ {p} : pc'[q] = pc[q],
           \/ pc'[p] = pc[p] \/ pc'[p] \notin Retrieving \union {"idle", "inspect", "resolve", "saveTask"}
           \/ pc[p] \in {"idle", "inspect"} /\ pc'[p] \in {"inspect", "resolve"}
    PROVE  RInv'
<1>1. got' = got /\ index' = index /\ Holds(p, got[p], index)
  BY DEF RInv
<1>2. Holds(p, got[p], index)'
  BY <1>1 DEF Holds, Retrieving
<1>3. ASSUME NEW q \in Preps \ {p} PROVE Holds(q, got[q], index)'
  <2>1. Holds(q, got[q], index) /\ pc'[q] = pc[q]
    BY DEF RInv
  <2> QED
    BY <1>1, <2>1 DEF Holds
<1> QED
  BY <1>1, <1>2, <1>3 DEF RInv

LEMMA ReturnsRInv ==
    ASSUME TypeOK, RInv, NEW p \in Preps, NEW status, NEW t, NEW fresh, Returns(p, status, t, fresh),
           UNCHANGED index
    PROVE  RInv'
<1>1. pc'[p] = "done" /\ \A q \in Preps \ {p} : pc'[q] = pc[q]
  BY DEF TypeOK, Returns
<1>2. got' = [got EXCEPT ![p] = Nothing]
  BY DEF Returns
<1> QED
  BY <1>1, <1>2, NothingHeld, HoldsInv DEF Retrieving

LEMMA GoesRInv ==
    ASSUME TypeOK, RInv, NEW p \in Preps, NEW next \in {"saveRef", "transition", "history", "record"},
           pc' = [pc EXCEPT ![p] = next], UNCHANGED <<got, index>>
    PROVE  RInv'
<1>1. pc'[p] = next /\ \A q \in Preps \ {p} : pc'[q] = pc[q]
  BY DEF TypeOK
<1> QED
  BY <1>1, ElsewhereInv DEF Retrieving

LEMMA BeginsRInv ==
    ASSUME TypeOK, RInv, NEW p \in Preps, pc[p] = "resolve", BeginsRetrieval(p),
           pc' = [pc EXCEPT ![p] = "search"]
    PROVE  RInv'
<1>1. pc'[p] = "search" /\ \A q \in Preps \ {p} : pc'[q] = pc[q]
  BY DEF TypeOK
<1>2. PICK g : g = [Nothing EXCEPT !.shown = Shows(index')]
  OBVIOUS
<1>3. Held(g) /\ g.files = {} /\ g.chunks = {} /\ g.shown = Shows(index')
  BY <1>2 DEF Held, Nothing
<1>4. got[p] = Nothing
  BY DEF RInv, Holds
<1>5. got' = [q \in Preps |-> IF q = p THEN g ELSE got[q]]
  BY <1>2, <1>4 DEF RInv, BeginsRetrieval
<1>6. index' \in Index
  BY DEF BeginsRetrieval, RInv
<1>7. Gathers(g, index')
  <2>1. OnePerPlace({})
    BY FS_EmptySet DEF OnePerPlace
  <2> QED
    BY <1>3, <2>1 DEF Gathers
<1>8. ASSUME NEW q \in Preps PROVE Holds(q, got[q], index)'
  <2>1. CASE q = p
    BY <1>1, <1>3, <1>5, <1>7, <2>1 DEF Holds
  <2>2. CASE q # p
    <3>1. Holds(q, got[q], index) /\ got'[q] = got[q] /\ pc'[q] = pc[q]
      BY <1>1, <1>5, <2>2 DEF RInv
    <3>2. pc[q] \in Retrieving => index' = index
      BY DEF BeginsRetrieval
    <3> QED
      BY <3>1, <3>2 DEF Holds
  <2> QED
    BY <2>1, <2>2
<1> QED
  BY <1>5, <1>6, <1>8 DEF RInv

LEMMA ResolveRInv ==
    ASSUME TypeOK, RInv, NEW p \in Preps, ResolveIdempotentResult(p)
    PROVE  RInv'
<1>1. pc[p] = "resolve" /\ got[p] = Nothing
  BY DEF ResolveIdempotentResult, RInv, Holds
<1>2. CASE \E t : Returns(p, "ok", t, FALSE) /\ UNCHANGED index
  BY <1>2, ReturnsRInv
<1>3. CASE pc' = [pc EXCEPT ![p] = "search"] /\ BeginsRetrieval(p)
  BY <1>1, <1>3, BeginsRInv
<1>4. CASE /\ pc' = [pc EXCEPT ![p] = "saveTask"]
           /\ got' = [got EXCEPT ![p].ctx = Fallback] /\ UNCHANGED index
  <2>1. pc'[p] = "saveTask" /\ \A q \in Preps \ {p} : pc'[q] = pc[q]
    BY <1>4 DEF TypeOK
  <2>2. PICK g : g = [Nothing EXCEPT !.ctx = Fallback]
    OBVIOUS
  <2>3. Held(g) /\ g.ctx = Fallback
    BY <2>2 DEF Held, Nothing
  <2>4. got' = [got EXCEPT ![p] = g]
    BY <1>1, <1>4, <2>2
  <2>5. Keeps(g)
    BY <2>3, FallbackKeeps DEF Keeps
  <2> QED
    BY <1>4, <2>1, <2>3, <2>4, <2>5, HoldsInv DEF Retrieving
<1> QED
  BY <1>2, <1>3, <1>4 DEF ResolveIdempotentResult

(* What a query has returned, and what comes after it.                     *)
LEMMA AfterSearchRInv ==
    ASSUME TypeOK, RInv, NEW p \in Preps, pc[p] = "search", NEW now, AfterSearch(p, now),
           UNCHANGED index, Held(now), Gathers(now, index)
    PROVE  RInv'
<1>1. CASE got' = [got EXCEPT ![p] = now] /\ UNCHANGED pc
  BY <1>1, HoldsInv DEF Retrieving
<1>2. CASE got' = [got EXCEPT ![p] = now] /\ pc' = [pc EXCEPT ![p] = "supplement"]
  <2>1. pc'[p] = "supplement" /\ \A q \in Preps \ {p} : pc'[q] = pc[q]
    BY <1>2 DEF TypeOK
  <2> QED
    BY <1>2, <2>1, HoldsInv DEF Retrieving
<1>3. CASE got' = [got EXCEPT ![p] = [now EXCEPT !.ctx = Fallback]] /\ pc' = [pc EXCEPT ![p] = "saveTask"]
  <2>1. pc'[p] = "saveTask" /\ \A q \in Preps \ {p} : pc'[q] = pc[q]
    BY <1>3 DEF TypeOK
  <2>2. PICK g : g = [now EXCEPT !.ctx = Fallback]
    OBVIOUS
  <2>3. Held(g) /\ g.ctx = Fallback
    BY <2>2 DEF Held
  <2>4. Keeps(g)
    BY <2>3, FallbackKeeps DEF Keeps
  <2> QED
    BY <1>3, <2>1, <2>2, <2>3, <2>4, HoldsInv DEF Retrieving
<1> QED
  BY <1>1, <1>2, <1>3 DEF AfterSearch

LEMMA QueriesRInv ==
    ASSUME TypeOK, RInv, NEW p \in Preps, QueryFiles(p) \/ QueryChunks(p)
    PROVE  RInv'
<1>1. pc[p] = "search" /\ UNCHANGED index
  BY DEF QueryFiles, QueryChunks, indexVars
<1>2. index \in Index /\ Held(got[p]) /\ Gathers(got[p], index)
  BY <1>1 DEF RInv, Holds, Retrieving
<1>3. /\ SearchIndexedFiles(index) \subseteq Paths
      /\ OnePerPlace(SearchFileChunks(index)) /\ ShownBy(SearchFileChunks(index), index)
  BY <1>2, QueriesFacts
<1>4. CASE QueryFiles(p)
  <2>1. PICK now : /\ now = [got[p] EXCEPT !.asked = @ \union {"files"}, !.files = SearchIndexedFiles(index)]
                   /\ AfterSearch(p, now)
    BY <1>4 DEF QueryFiles
  <2>2. Held(now) /\ now.files = SearchIndexedFiles(index) /\ now.chunks = got[p].chunks
        /\ now.shown = got[p].shown
    BY <1>2, <2>1 DEF Held
  <2>3. Gathers(now, index)
    BY <1>2, <1>3, <2>2 DEF Gathers
  <2> QED
    BY <1>1, <2>1, <2>2, <2>3, AfterSearchRInv
<1>5. CASE QueryChunks(p)
  <2>1. PICK now : /\ now = [got[p] EXCEPT !.asked = @ \union {"chunks"}, !.chunks = SearchFileChunks(index)]
                   /\ AfterSearch(p, now)
    BY <1>5 DEF QueryChunks
  <2>2. Held(now) /\ now.chunks = SearchFileChunks(index) /\ now.files = got[p].files
        /\ now.shown = got[p].shown
    BY <1>2, <2>1 DEF Held
  <2>3. \A c \in SearchFileChunks(index) : <<c.path, c.text>> \in Shows(index)
    BY <1>3 DEF ShownBy, Shows
  <2>4. Gathers(now, index)
    BY <1>2, <1>3, <2>2, <2>3 DEF Gathers
  <2> QED
    BY <1>1, <2>1, <2>2, <2>4, AfterSearchRInv
<1> QED
  BY <1>4, <1>5

LEMMA SupplementRInv ==
    ASSUME TypeOK, RInv, NEW p \in Preps, Supplement(p)
    PROVE  RInv'
<1>1. pc[p] = "supplement" /\ UNCHANGED index
  BY DEF Supplement, indexVars
<1>2. pc'[p] = "saveTask" /\ \A q \in Preps \ {p} : pc'[q] = pc[q]
  BY DEF Supplement, TypeOK
<1>3. PICK g : g = got[p]
  OBVIOUS
<1>4. index \in Index /\ Held(g) /\ Gathers(g, index)
  BY <1>1, <1>3 DEF RInv, Holds, Retrieving
<1>5. PICK extra : extra = GetFileChunksByFileIds(index, CandidateFiles(g))
  OBVIOUS
<1>6. PICK ctx : ctx = Retrieved(g.files, g.chunks, extra)
  OBVIOUS
<1>7. PICK now : now = [g EXCEPT !.ctx = ctx]
  OBVIOUS
<1>8. got' = [got EXCEPT ![p] = now]
  BY <1>3, <1>5, <1>6, <1>7 DEF Supplement
<1>9. Held(now) /\ now.ctx = ctx /\ now.shown = g.shown
  BY <1>4, <1>7 DEF Held
<1>10. g.files \subseteq Paths /\ OnePerPlace(g.chunks) /\ Shows(index) \subseteq g.shown
       /\ \A c \in g.chunks : <<c.path, c.text>> \in g.shown
  BY <1>4 DEF Gathers
<1>11. CandidateFiles(g) \subseteq Paths
  <2>1. \A c \in g.chunks : c.path \in Paths
    BY <1>10, ChunkFacts DEF OnePerPlace
  <2> QED
    BY <1>10, <2>1 DEF CandidateFiles
<1>12. OnePerPlace(extra) /\ ShownBy(extra, index)
  BY <1>4, <1>5, <1>11, QueriesFacts
<1>13. \A c \in extra : <<c.path, c.text>> \in Shows(index)
  BY <1>12 DEF ShownBy, Shows
<1>14. \A c \in g.chunks \union extra : <<c.path, c.text>> \in g.shown
  BY <1>10, <1>13
<1>15. Fetch(g.files, g.chunks, extra)
  BY <1>10, <1>12 DEF Fetch
<1>16. IsFrom(ctx, g.shown) /\ KeepsBudget(ctx) /\ StarvesNone(ctx)
  BY <1>6, <1>14, <1>15, RetrievedKeeps
<1>17. Keeps(now)
  BY <1>9, <1>16 DEF Keeps
<1> QED
  BY <1>1, <1>2, <1>8, <1>9, <1>17, HoldsInv DEF Retrieving

LEMMA ReindexRInv ==
    ASSUME TypeOK, RInv, NEW f \in Paths, NEW text \in Texts \union {"gone"}, Reindex(f, text)
    PROVE  RInv'
<1>1. /\ text \in Versions[f] \union {"gone"} /\ index' = [index EXCEPT ![f] = text] /\ pc' = pc
      /\ got' = [p \in Preps |-> IF pc[p] \in Retrieving /\ text # "gone"
                                 THEN [got[p] EXCEPT !.shown = @ \union {<<f, text>>}] ELSE got[p]]
  BY DEF Reindex
<1>2. index \in Index
  BY DEF RInv
<1>3. index' \in Index
  BY <1>1, <1>2 DEF Index
<1>4. /\ text # "gone" => Shows(index') \subseteq Shows(index) \union {<<f, text>>}
      /\ text = "gone" => Shows(index') \subseteq Shows(index)
  <2>1. \A q \in Paths : index'[q] = IF q = f THEN text ELSE index[q]
    BY <1>1, <1>2 DEF Index
  <2> QED
    BY <2>1 DEF Shows
<1>5. ASSUME NEW p \in Preps PROVE Holds(p, got[p], index)'
  <2>1. Holds(p, got[p], index) /\ pc'[p] = pc[p]
    BY <1>1 DEF RInv
  <2>2. CASE pc[p] \in Retrieving /\ text # "gone"
    <3>1. Held(got[p]) /\ Gathers(got[p], index)
      BY <2>1, <2>2 DEF Holds
    <3>2. PICK g : g = got'[p] /\ g = [got[p] EXCEPT !.shown = got[p].shown \union {<<f, text>>}]
      BY <1>1, <2>2
    <3>3. /\ Held(g) /\ g.files = got[p].files /\ g.chunks = got[p].chunks
          /\ g.shown = got[p].shown \union {<<f, text>>}
      BY <3>1, <3>2 DEF Held
    <3>4. Gathers(g, index')
      BY <1>4, <2>2, <3>1, <3>3 DEF Gathers
    <3> QED
      BY <2>1, <2>2, <3>2, <3>3, <3>4 DEF Holds, Retrieving
  <2>3. CASE pc[p] \in Retrieving /\ text = "gone"
    <3>1. Held(got[p]) /\ Gathers(got[p], index) /\ got'[p] = got[p]
      BY <1>1, <2>1, <2>3 DEF Holds
    <3>2. Gathers(got[p], index')
      BY <1>4, <2>3, <3>1 DEF Gathers
    <3> QED
      BY <2>1, <2>3, <3>1, <3>2 DEF Holds, Retrieving
  <2>4. CASE pc[p] \notin Retrieving
    <3>1. got'[p] = got[p]
      BY <1>1, <2>4
    <3> QED
      BY <2>1, <2>4, <3>1 DEF Holds
  <2> QED
    BY <2>2, <2>3, <2>4
<1> QED
  BY <1>1, <1>3, <1>5 DEF RInv

LEMMA WindowDiesRInv == ASSUME TypeOK, RInv, NEW w \in Windows, WindowDies(w) PROVE RInv'
<1>1. PICK cut : cut = {p \in Running : win[p] = w}
  OBVIOUS
<1>2. /\ index' = index
      /\ got' = [p \in Preps |-> IF p \in cut THEN Nothing ELSE got[p]]
      /\ \A p \in Preps : pc'[p] = IF p \in cut THEN "dead" ELSE pc[p]
  BY <1>1 DEF WindowDies, indexVars
<1>3. ASSUME NEW p \in Preps PROVE Holds(p, got[p], index)'
  <2>1. Holds(p, got[p], index)
    BY DEF RInv
  <2>2. CASE p \in cut
    BY <1>2, <2>2, NothingHeld DEF Holds, Retrieving
  <2>3. CASE p \notin cut
    <3>1. got'[p] = got[p] /\ pc'[p] = pc[p]
      BY <1>2, <2>3
    <3> QED
      BY <1>2, <2>1, <3>1 DEF Holds
  <2> QED
    BY <2>2, <2>3
<1>4. index' \in Index /\ got' = [p \in Preps |-> got'[p]]
  BY <1>2 DEF RInv
<1> QED
  BY <1>3, <1>4 DEF RInv

LEMMA PrepareRInv == ASSUME TypeOK, RInv, NEW p \in Preps, Prepare(p) PROVE RInv'
<1>1. CASE \E w \in Windows, k \in Keys : Start(p, w, k)
  <2>1. /\ pc[p] = "idle" /\ pc'[p] = "inspect" /\ UNCHANGED <<got, index>>
        /\ \A q \in Preps \ {p} : pc'[q] = pc[q]
    BY <1>1 DEF TypeOK, Start, indexVars
  <2> QED
    BY <2>1, ElsewhereInv
<1>2. CASE Inspect(p)
  <2>1. /\ pc[p] = "inspect" /\ pc'[p] = "resolve" /\ UNCHANGED <<got, index>>
        /\ \A q \in Preps \ {p} : pc'[q] = pc[q]
    BY <1>2 DEF TypeOK, Inspect, indexVars
  <2> QED
    BY <2>1, ElsewhereInv
<1>3. CASE Refuse(p) \/ StatementFails(p)
  BY <1>3, ReturnsRInv DEF Refuse, StatementFails, Throws, indexVars
<1>4. CASE ResolveIdempotentResult(p) \/ QueryFiles(p) \/ QueryChunks(p) \/ Supplement(p)
  BY <1>4, ResolveRInv, QueriesRInv, SupplementRInv
<1>5. CASE SaveTask(p)
  <2>1. CASE pc' = [pc EXCEPT ![p] = "saveContext"] /\ got' = [got EXCEPT ![p] = Nothing]
    <3>1. pc'[p] = "saveContext" /\ UNCHANGED index /\ \A q \in Preps \ {p} : pc'[q] = pc[q]
      BY <1>5, <2>1 DEF TypeOK, SaveTask, indexVars
    <3> QED
      BY <2>1, <3>1, NothingHeld, HoldsInv DEF Retrieving
  <2>2. CASE Throws(p)
    BY <1>5, <2>2, ReturnsRInv DEF SaveTask, Throws, indexVars
  <2> QED
    BY <1>5, <2>1, <2>2 DEF SaveTask
<1>6. CASE SaveTaskContext(p) \/ SaveTaskRef(p) \/ TransitionTaskState(p)
  <2>1. UNCHANGED index
    BY <1>6 DEF SaveTaskContext, SaveTaskRef, TransitionTaskState, indexVars
  <2>2. Replies(p, "saveRef") \/ Replies(p, "transition") \/ Replies(p, "history")
    BY <1>6 DEF SaveTaskContext, SaveTaskRef, TransitionTaskState
  <2> QED
    BY <2>1, <2>2, GoesRInv, ReturnsRInv DEF Replies, Goes, Throws
<1>7. CASE WriteHistory(p)
  BY <1>7, GoesRInv, ReturnsRInv DEF WriteHistory, Throws, indexVars
<1>8. CASE SaveIdempotentResult(p)
  BY <1>8, ReturnsRInv DEF SaveIdempotentResult, Throws, indexVars
<1> QED
  BY <1>1, <1>2, <1>3, <1>4, <1>5, <1>6, <1>7, <1>8 DEF Prepare

LEMMA NextRInv == Inv /\ RInv /\ [Next]_vars => RInv'
<1> SUFFICES ASSUME Inv, RInv, [Next]_vars PROVE RInv'
  OBVIOUS
<1>1. TypeOK
  BY DEF Inv, PInv
<1>2. ASSUME UNCHANGED <<got, index, pc>> PROVE RInv'
  BY <1>2 DEF RInv, Holds
<1>3. ASSUME NEW t \in Preps, RunDraft(t) PROVE RInv'
  BY <1>2, <1>3 DEF RunDraft, indexVars
<1>4. CASE UNCHANGED vars
  BY <1>2, <1>4 DEF vars, indexVars
<1> QED
  BY <1>1, <1>3, <1>4, PrepareRInv, ReindexRInv, WindowDiesRInv DEF Next

(* A context holds what the index showed while it was retrieved, and no    *)
(* place of a file twice (hybridContextRetriever.ts 92-176).               *)
THEOREM FromTheIndex == Spec => []ContextIsFromTheIndex
<1>1. RInv => ContextIsFromTheIndex
  BY DEF RInv, Holds, Keeps, ContextIsFromTheIndex, Fetched
<1> QED
  BY <1>1, InvInit, NextInv, InitRInv, NextRInv, PTL DEF Spec

(* A selection keeps every limit of its budget, is truncated if and only   *)
(* if something ranked was left out, and says why (retrievalBudget.ts).    *)
THEOREM BudgetKept == Spec => []BudgetIsKept
<1>1. RInv => BudgetIsKept
  BY DEF RInv, Holds, Keeps, BudgetIsKept, Fetched
<1> QED
  BY <1>1, InvInit, NextInv, InitRInv, NextRInv, PTL DEF Spec

(* No file has a second chunk in a context while the best one of another   *)
(* was left out that would have fitted (retrievalBudget.ts).               *)
THEOREM NobodyStarves == Spec => []NoFileStarves
<1>1. RInv => NoFileStarves
  BY DEF RInv, Holds, Keeps, NoFileStarves, Fetched
<1> QED
  BY <1>1, InvInit, NextInv, InitRInv, NextRInv, PTL DEF Spec

(***************************************************************************)
(* PrepareTask implements TaskSource: only the reply of the history row    *)
(* offers a task, RunDraft takes it, a dying window closes its store.      *)
(***************************************************************************)
State == [p \in Preps |-> Standing(p)]

LEMMA StandingNext ==
    ASSUME NEW p \in Preps
    PROVE  Standing(p)' = IF offer'[p] = "no" THEN "absent"
                          ELSE IF task'[p].state = "run" THEN "taken"
                          ELSE IF offer'[p] = "open" THEN "offered" ELSE "lapsed"
BY DEF Standing

LEMMA DropsNothing ==
    ASSUME draft' = draft, \A p \in Preps : Standing(p)' = Standing(p)
    PROVE  Source!Drop
<1>1. State' = [p \in Preps |-> Standing(p)']
  BY DEF State
<1>2. PICK lapsed : lapsed \in SUBSET {p \in Preps : State[p] = "offered"} /\ lapsed = {}
  OBVIOUS
<1>3. State' = [p \in Preps |-> IF p \in lapsed THEN "lapsed" ELSE State[p]]
  BY <1>1, <1>2 DEF State
<1> QED
  BY <1>2, <1>3 DEF Source!Drop, Source!Lapse, State

LEMMA PrepareSource == ASSUME Inv, NEW p \in Preps, Prepare(p) PROVE Source!Next
<1>0. TypeOK /\ TypeOK' /\ Stage(p) /\ Offered(p)
  BY NextInv DEF Inv, PInv, OInv, Next
<1>1. /\ \A q \in Preps \ {p} : task'[q] = task[q]
      /\ pc[p] \notin Over
      /\ pc[p] = "record" => task' = task
      /\ UNCHANGED <<draft, offer>> \/ Shelves(p)
  BY Effects DEF Inv
<1>2. CASE UNCHANGED <<draft, offer>>
  <2>1. ASSUME NEW q \in Preps PROVE Standing(q)' = Standing(q)
    <3>1. offer[q] = "no" \/ task'[q] = task[q]
      BY <1>0, <1>1 DEF Offered
    <3> QED
      BY <1>2, <3>1, StandingNext DEF Standing
  <2> QED
    BY <1>2, <2>1, DropsNothing DEF Source!Next
<1>3. CASE Shelves(p)
  <2>1. /\ pc[p] = "history" /\ task' = task /\ win[p] \in Windows
        /\ draft' = [draft EXCEPT ![win[p]] = p]
        /\ offer'[p] = "open" /\ \A q \in Preps \ {p} : offer'[q] = offer[q]
    BY <1>0, <1>3 DEF Shelves, TypeOK, Stage
  <2>2. offer[p] = "no" /\ task[p].state # "run"
    BY <1>0, <2>1 DEF Offered, Over
  <2>3. Standing(p) = "absent" /\ Standing(p)' = "offered"
    BY <2>1, <2>2, StandingNext DEF Standing
  <2>4. \A q \in Preps \ {p} : Standing(q)' = Standing(q)
    BY <2>1, StandingNext DEF Standing
  <2>5. PICK offering : offering = [State EXCEPT ![p] = "offered"]
    OBVIOUS
  <2>6. State' = [q \in Preps |-> Standing(q)']
    BY DEF State
  <2>7. PICK lapsed : lapsed \in SUBSET {q \in Preps : offering[q] = "offered"} /\ lapsed = {}
    OBVIOUS
  <2>8. State' = [q \in Preps |-> IF q \in lapsed THEN "lapsed" ELSE offering[q]]
    BY <2>3, <2>4, <2>5, <2>6, <2>7 DEF State
  <2>9. Source!Offer(win[p], p)
    BY <2>1, <2>3, <2>5, <2>7, <2>8 DEF Source!Offer, Source!Lapse, State
  <2> QED
    BY <2>1, <2>9 DEF Source!Next
<1> QED
  BY <1>1, <1>2, <1>3

LEMMA RunDraftSource == ASSUME Inv, NEW t \in Preps, RunDraft(t) PROVE Source!Take(t)
<1>1. /\ task'[t].state = "run" /\ \A q \in Preps \ {t} : task'[q] = task[q]
      /\ UNCHANGED <<draft, offer>> /\ offer[t] = "open" /\ task[t].state = "prepared"
  BY DEF Inv, PInv, TypeOK, RunDraft, storeVars
<1>2. Standing(t) = "offered" /\ Standing(t)' = "taken"
  BY <1>1, StandingNext DEF Standing
<1>3. \A q \in Preps \ {t} : Standing(q)' = Standing(q)
  BY <1>1, StandingNext DEF Standing
<1>4. State' = [q \in Preps |-> Standing(q)']
  BY DEF State
<1>5. State' = [State EXCEPT ![t] = "taken"]
  BY <1>2, <1>3, <1>4 DEF State
<1> QED
  BY <1>1, <1>2, <1>5 DEF Source!Take, State

LEMMA WindowDiesSource == ASSUME Inv, NEW w \in Windows, WindowDies(w) PROVE Source!Close(w)
<1>1. /\ task' = task /\ draft' = [draft EXCEPT ![w] = None]
      /\ draft'[w] = None /\ \A v \in Windows \ {w} : draft'[v] = draft[v]
      /\ \A p \in Preps : offer'[p] = IF offer[p] = "open" /\ win[p] = w THEN "closed" ELSE offer[p]
  BY DEF Inv, PInv, TypeOK, WindowDies, tableVars
<1>2. PICK lapsed : lapsed = {p \in Preps : /\ offer[p] = "open" /\ win[p] = w
                                            /\ task[p].state # "run"}
  OBVIOUS
<1>3. \A v \in Windows : draft'[v] \notin lapsed
  BY <1>1, <1>2, PrepareConstantsOK DEF Inv, PInv, Drafted, PrepareConstantsOK
<1>4. ASSUME NEW p \in Preps
      PROVE  /\ p \in lapsed => Standing(p) = "offered"
             /\ Standing(p)' = IF p \in lapsed THEN "lapsed" ELSE Standing(p)
  BY <1>1, <1>2, StandingNext DEF Standing
<1>5. lapsed \in SUBSET {p \in Preps : State[p] = "offered"}
  BY <1>2, <1>4 DEF State
<1>6. State' = [p \in Preps |-> IF p \in lapsed THEN "lapsed" ELSE State[p]]
  <2>1. State' = [p \in Preps |-> Standing(p)']
    BY DEF State
  <2> QED
    BY <1>4, <2>1 DEF State
<1> QED
  BY <1>1, <1>3, <1>5, <1>6 DEF Source!Close, Source!Lapse, State

(* localPrepareTask offers a task to localRunCodex once, with all its rows *)
(* in place, and no retry, replay or fault offers one again that was taken *)
(* or was in the store of a window that is gone.                           *)
THEOREM RefinesSource == Spec => ImplementsSource
<1>1. Init => Source!Init
  <2> SUFFICES ASSUME Init PROVE Source!Init
    OBVIOUS
  <2>1. draft = [w \in Windows |-> None] /\ \A p \in Preps : Standing(p) = "absent"
    BY DEF Init, Standing
  <2> QED
    BY <2>1 DEF Source!Init
<1>2. Inv /\ [Next]_vars => [Source!Next]_Source!sourceVars
  <2> SUFFICES ASSUME Inv, [Next]_vars PROVE Source!Next
    OBVIOUS
  <2>1. ASSUME UNCHANGED <<draft, offer, task>> PROVE Source!Next
    <3>1. \A p \in Preps : Standing(p)' = Standing(p)
      BY <2>1, StandingNext DEF Standing
    <3> QED
      BY <2>1, <3>1, DropsNothing DEF Source!Next
  <2>2. CASE \E f \in Paths, text \in Texts \union {"gone"} : Reindex(f, text)
    BY <2>1, <2>2 DEF Reindex, tableVars, storeVars
  <2>3. CASE UNCHANGED vars
    BY <2>1, <2>3 DEF vars, tableVars, storeVars
  <2>4. ASSUME NEW t \in Preps, RunDraft(t) PROVE Source!Next
    BY <2>4, RunDraftSource DEF Source!Next
  <2>5. ASSUME NEW w \in Windows, WindowDies(w) PROVE Source!Next
    BY <2>5, WindowDiesSource DEF Source!Next
  <2> QED
    BY <2>2, <2>3, <2>4, <2>5, PrepareSource DEF Next
<1> QED
  BY <1>1, <1>2, InvInit, NextInv, PTL DEF Spec, Source!Spec, ImplementsSource
=============================================================================
