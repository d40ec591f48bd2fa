----------------------------- MODULE MCRunPlane -----------------------------
(* Instances of RunPlane for TLC: which window makes which invocation, and *)
(* which project a task belongs to.                                        *)
EXTENDS RunPlaneInv, TLC

CONSTANTS r1, r2, r3, w1, w2, t1, t2, p1, p2

(* Two invocations in one window (a double click, or a retry): they share  *)
(* the draft, so they contend for the task, the claim and the lock.        *)
OneWindow == [r \in Runs |-> w1]

(* Two windows on one project: they contend for the lock only.             *)
TwoWindows == [r \in Runs |-> IF r = r2 THEN w2 ELSE w1]

(* The windows of TwoWindows change places with their invocations.         *)
Mirrored ==
    {f \in Permutations({r1, r2, w1, w2}) :
        {f[r1], f[r2]} = {r1, r2} /\ (f[r1] = r1 <=> f[w1] = w1) /\ (f[r2] = r2 <=> f[w2] = w2)}

(* No statement reads the evidence, nobody reads the locals of a crashed   *)
(* invocation, and a lease that has expired stays so.  No property of      *)
(* run_windows tells two states apart that differ in these.                *)
Left(expires) == IF expires <= now THEN 0 ELSE expires

WindowsView ==
    <<task, draft, now, faults, crashes, pc, started, hb, child,
      [p \in Projects |-> <<lock[p].owner, Left(lock[p].expires)>>],
      [k \in Keys |-> <<claim[k].status, claim[k].owner, Left(claim[k].lease)>>],
      [r \in Runs |-> IF pc[r] = "crashed" THEN <<>>
                      ELSE <<req[r], outcome[r], lost[r], aborted[r]>>]>>

OneHome == [t \in Tasks |-> p1]
=============================================================================
