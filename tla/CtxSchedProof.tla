--------------------------- MODULE CtxSchedProof ---------------------------
(***************************************************************************)
(* Proofs about CtxSched for any contexts, any number of address spaces,   *)
(* jobs and other references: the reference counts balance, contexts with  *)
(* a reference have a space of their own, only scheduled ones may submit,  *)
(* a fault finds its context, and the tables in the registers are those of *)
(* the owner.                                                              *)
(***************************************************************************)
EXTENDS CtxSched, TLAPS

(* A context that is not scheduled is used by nobody, but for a suspend    *)
(* that met it on its way in; then it is not dying.                        *)
OutMeansUnused ==
    \A c \in Contexts \ scheduled :
        /\ jobs[c] = 0 /\ ~Faulting(c)
        /\ held[c] > 0 => sched.pc = "commit" /\ sched.ctx = c /\ c \notin dying

(* The one being scheduled is not yet, the victim and the one that has to  *)
(* leave still are; a space was freed for the second attempt.              *)
InTransaction ==
    /\ sched.pc # "idle" => sched.ctx \in live
    /\ sched.pc \in {"retain", "find", "evict", "again", "commit"} => sched.ctx \notin scheduled
    /\ sched.pc = "evict" => sched.victim \in scheduled
    /\ sched.pc = "leave" => sched.ctx \in scheduled
    /\ sched.pc = "again" => free # {}
    /\ sched.pc \in {"find", "evict"} => asNr[sched.ctx] = Invalid

NoneDiesMeanwhile == Suspending => dying = {}

(* Also without a reference, as long as it has its number.                 *)
TablesLoaded ==
    power = "on" =>
        \A c \in Contexts : asNr[c] # Invalid =>
            \/ hw[asNr[c]] = c
            \/ hw[asNr[c]] = NoCtx /\ c \in killed

(* FaultFindsContext without the reference, which the balance implies.     *)
FaultsKnown ==
    \A i \in Spaces : fault[i] # NoFault => fault[i].ctx = toKctx[i] /\ toKctx[i] # NoCtx

IInv ==
    /\ TypeOK /\ OwnSpace /\ RefsBalance /\ OutMeansUnused /\ InTransaction
    /\ NoneDiesMeanwhile /\ SubmitMeansScheduled /\ FaultsKnown /\ TablesLoaded

(* References other than that of being scheduled.                          *)
Users(c) == jobs[c] + held[c] + (IF Faulting(c) THEN 1 ELSE 0) + (IF InHand(c) THEN 1 ELSE 0)

USE ConstantsAssumption DEF Spaces, Invalid, NoFault, NoSched, schedVars, hwVars, useVars

LEMMA UsersCount ==
    ASSUME TypeOK, NEW c \in Contexts
    PROVE  /\ Users(c) \in Nat /\ jobs[c] \in Nat /\ held[c] \in Nat
           /\ Users(c) = 0 <=> jobs[c] = 0 /\ held[c] = 0 /\ ~Faulting(c) /\ ~InHand(c)
<1>1. jobs[c] \in Nat /\ held[c] \in Nat BY DEF TypeOK
<1>2. CASE Faulting(c) /\ InHand(c) BY <1>1, <1>2 DEF Users
<1>3. CASE ~Faulting(c) /\ InHand(c) BY <1>1, <1>3 DEF Users
<1>4. CASE Faulting(c) /\ ~InHand(c) BY <1>1, <1>4 DEF Users
<1>5. CASE ~Faulting(c) /\ ~InHand(c) BY <1>1, <1>5 DEF Users
<1> QED BY <1>2, <1>3, <1>4, <1>5

(* What the balance says of one context.                                   *)
LEMMA Balance ==
    ASSUME TypeOK, RefsBalance, NEW c \in Contexts
    PROVE  /\ refs[c] \in Nat
           /\ c \in scheduled => refs[c] = Users(c) + 1
           /\ c \notin scheduled => refs[c] = Users(c)
<1>1. /\ Users(c) \in Nat /\ jobs[c] \in Nat /\ held[c] \in Nat BY UsersCount
<1>2. refs[c] \in Nat BY DEF TypeOK
<1>3. refs[c] = jobs[c] + held[c] + (IF c \in scheduled THEN 1 ELSE 0)
                  + (IF Faulting(c) THEN 1 ELSE 0) + (IF InHand(c) THEN 1 ELSE 0)
  BY DEF RefsBalance
<1>4. CASE c \in scheduled /\ Faulting(c) /\ InHand(c) BY <1>1, <1>3, <1>4, <1>2 DEF Users
<1>5. CASE c \in scheduled /\ ~Faulting(c) /\ InHand(c) BY <1>1, <1>3, <1>5, <1>2 DEF Users
<1>6. CASE c \in scheduled /\ Faulting(c) /\ ~InHand(c) BY <1>1, <1>3, <1>6, <1>2 DEF Users
<1>7. CASE c \in scheduled /\ ~Faulting(c) /\ ~InHand(c) BY <1>1, <1>3, <1>7, <1>2 DEF Users
<1>8. CASE c \notin scheduled BY <1>1, <1>3, <1>8, <1>2 DEF Users
<1> QED BY <1>4, <1>5, <1>6, <1>7, <1>8

(* Back again, in the next state.                                          *)
LEMMA BalanceNext ==
    ASSUME TypeOK',
           \A c \in Contexts : /\ c \in scheduled' => refs'[c] = Users(c)' + 1
                               /\ c \notin scheduled' => refs'[c] = Users(c)'
    PROVE  RefsBalance'
<1> SUFFICES ASSUME NEW c \in Contexts
             PROVE  refs'[c] = jobs'[c] + held'[c] + (IF c \in scheduled' THEN 1 ELSE 0)
                  + (IF Faulting(c)' THEN 1 ELSE 0) + (IF InHand(c)' THEN 1 ELSE 0)
  BY DEF RefsBalance
<1>1. jobs'[c] \in Nat /\ held'[c] \in Nat BY DEF TypeOK
<1>4. CASE c \in scheduled' /\ Faulting(c)' /\ InHand(c)' BY <1>1, <1>4 DEF Users
<1>5. CASE c \in scheduled' /\ ~Faulting(c)' /\ InHand(c)' BY <1>1, <1>5 DEF Users
<1>6. CASE c \in scheduled' /\ Faulting(c)' /\ ~InHand(c)' BY <1>1, <1>6 DEF Users
<1>7. CASE c \in scheduled' /\ ~Faulting(c)' /\ ~InHand(c)' BY <1>1, <1>7 DEF Users
<1>8. CASE c \notin scheduled' BY <1>1, <1>8 DEF Users
<1> QED BY <1>4, <1>5, <1>6, <1>7, <1>8

(* A scheduled context gives back a reference that somebody else counts:   *)
(* if it was the last of those the context may go, and then altogether.    *)
LEMMA ReleaseKeeps ==
    ASSUME TypeOK, OwnSpace, RefsBalance, SubmitMeansScheduled,
           NEW c \in scheduled, ReleaseInternal(c), UNCHANGED <<asNr, toKctx>>,
           Users(c) > 0,
           \A d \in Contexts : Users(d)' = IF d = c THEN Users(d) - 1 ELSE Users(d)
    PROVE  /\ refs' \in [Contexts -> Nat] /\ free' \subseteq Spaces /\ submit' \subseteq submit
           /\ scheduled' \in {scheduled, scheduled \ {c}}
           /\ c \notin scheduled' => Users(c)' = 0 /\ free' # {}
           /\ \A d \in Contexts : /\ d \in scheduled' => refs'[d] = Users(d)' + 1
                                  /\ d \notin scheduled' => refs'[d] = Users(d)'
           /\ OwnSpace' /\ SubmitMeansScheduled'
<1>c. c \in Contexts BY DEF TypeOK
<1>1. refs[c] = Users(c) + 1 /\ Users(c) \in Nat /\ refs \in [Contexts -> Nat]
  BY <1>c, Balance, UsersCount DEF TypeOK
<1>2. asNr[c] \in Spaces \ free /\ toKctx[asNr[c]] = c
  BY <1>c, <1>1 DEF OwnSpace, TypeOK
<1>3. \A d \in Contexts : /\ refs[d] \in Nat /\ Users(d) \in Nat
                          /\ d \in scheduled => refs[d] = Users(d) + 1
                          /\ d \notin scheduled => refs[d] = Users(d)
  BY Balance, UsersCount
<1>4. free \subseteq Spaces /\ submit \subseteq Spaces BY DEF TypeOK
<1>5. \A d \in Contexts : asNr[d] = asNr[c] => d = c
  BY <1>2, <1>c DEF OwnSpace
<1>6. CASE refs[c] = 2 /\ (~SubmitAllowed(c) \/ Suspending)
  <2>1. /\ refs' = [refs EXCEPT ![c] = 0]
        /\ free' = free \cup {asNr[c]} /\ submit' = submit \ {asNr[c]}
        /\ scheduled' = scheduled \ {c}
    BY <1>6 DEF ReleaseInternal
  <2>2. \A d \in Contexts : refs'[d] = IF d = c THEN 0 ELSE refs[d]
    BY <2>1, <1>1
  <2>3. Users(c)' = 0 BY <1>6, <1>1, <1>c
  <2>4. OwnSpace'
    <3>1. \A d \in Contexts : refs'[d] > 0 => asNr[d] \in Spaces \ free'
      BY <2>1, <2>2, <1>5 DEF OwnSpace
    <3>2. \A i \in Spaces \ free' : toKctx[i] # NoCtx /\ refs'[toKctx[i]] > 0
      <4> TAKE i \in Spaces \ free'
      <4>1. i \in Spaces \ free /\ i # asNr[c] BY <2>1
      <4>2. toKctx[i] # NoCtx /\ refs[toKctx[i]] > 0 /\ asNr[toKctx[i]] = i
        BY <4>1 DEF OwnSpace
      <4>3. toKctx[i] \in Contexts BY <4>2, <4>1 DEF TypeOK
      <4> QED BY <4>1, <4>2, <4>3, <2>2
    <3> QED BY <3>1, <3>2 DEF OwnSpace
  <2>5. SubmitMeansScheduled'
    <3> SUFFICES ASSUME NEW i \in submit'
                 PROVE  toKctx[i] \in scheduled' /\ refs'[toKctx[i]] > 0
      BY DEF SubmitMeansScheduled
    <3>1. i \in submit /\ i \in Spaces /\ i # asNr[c] BY <2>1, <1>4
    <3>2. toKctx[i] \in scheduled /\ refs[toKctx[i]] > 0 BY <3>1 DEF SubmitMeansScheduled
    <3>3. toKctx[i] \in Contexts /\ toKctx[i] # NoCtx BY <3>2 DEF TypeOK
    <3>4. toKctx[i] # c BY <3>1, <3>3 DEF OwnSpace
    <3> QED BY <3>2, <3>3, <3>4, <2>1, <2>2
  <2>6. refs' \in [Contexts -> Nat] BY <2>1, <1>1
  <2>7. \A d \in Contexts : /\ d \in scheduled' => refs'[d] = Users(d)' + 1
                            /\ d \notin scheduled' => refs'[d] = Users(d)'
    BY <2>1, <2>2, <2>3, <1>3
  <2> QED BY <2>1, <2>3, <2>4, <2>5, <2>6, <2>7, <1>2, <1>4
<1>7. CASE ~(refs[c] = 2 /\ (~SubmitAllowed(c) \/ Suspending))
  <2>1. refs' = [refs EXCEPT ![c] = @ - 1] /\ free' = free /\ UNCHANGED <<scheduled, submit>>
    BY <1>7, <1>1 DEF ReleaseInternal, Release
  <2>2. \A d \in Contexts : refs'[d] = IF d = c THEN refs[d] - 1 ELSE refs[d]
    BY <2>1, <1>1
  <2>3. refs' \in [Contexts -> Nat] BY <2>1, <1>1, <1>c
  <2>4. \A d \in Contexts : refs'[d] > 0 <=> refs[d] > 0
    BY <2>2, <1>3, <1>1
  <2>5. OwnSpace'
    <3>1. \A i \in Spaces : toKctx[i] # NoCtx => toKctx[i] \in Contexts BY DEF TypeOK
    <3> QED BY <3>1, <2>1, <2>4 DEF OwnSpace
  <2>6. SubmitMeansScheduled'
    <3>1. \A i \in submit : toKctx[i] \in scheduled => toKctx[i] \in Contexts BY DEF TypeOK
    <3> QED BY <3>1, <2>1, <2>4 DEF SubmitMeansScheduled
  <2>7. \A d \in Contexts : /\ d \in scheduled' => refs'[d] = Users(d)' + 1
                            /\ d \notin scheduled' => refs'[d] = Users(d)'
    BY <2>1, <2>2, <1>3, <1>c
  <2> QED BY <2>1, <2>3, <2>5, <2>6, <2>7, <1>4
<1> QED BY <1>6, <1>7

(* UsersCount of the next state.                                           *)
LEMMA UsersCountNext ==
    ASSUME TypeOK', NEW c \in Contexts
    PROVE  /\ Users(c)' \in Nat
           /\ Users(c)' = 0 => jobs'[c] = 0 /\ held'[c] = 0 /\ ~Faulting(c)'
<1>1. jobs'[c] \in Nat /\ held'[c] \in Nat BY DEF TypeOK
<1>2. CASE Faulting(c)' /\ InHand(c)' BY <1>1, <1>2 DEF Users
<1>3. CASE ~Faulting(c)' /\ InHand(c)' BY <1>1, <1>3 DEF Users
<1>4. CASE Faulting(c)' /\ ~InHand(c)' BY <1>1, <1>4 DEF Users
<1>5. CASE ~Faulting(c)' /\ ~InHand(c)' BY <1>1, <1>5 DEF Users
<1> QED BY <1>2, <1>3, <1>4, <1>5

(* Contexts that have a reference get one more, for which somebody counts. *)
LEMMA RetainKeeps ==
    ASSUME TypeOK, OwnSpace, RefsBalance, SubmitMeansScheduled,
           NEW D \in SUBSET Contexts,
           UNCHANGED <<asNr, toKctx, free, scheduled>>, submit' \subseteq submit,
           refs' \in [Contexts -> Nat],
           \A d \in D : refs[d] > 0,
           \A d \in Contexts : refs'[d] = IF d \in D THEN refs[d] + 1 ELSE refs[d],
           \A d \in Contexts : Users(d)' = IF d \in D THEN Users(d) + 1 ELSE Users(d)
    PROVE  /\ \A d \in Contexts : /\ d \in scheduled' => refs'[d] = Users(d)' + 1
                                  /\ d \notin scheduled' => refs'[d] = Users(d)'
           /\ OwnSpace' /\ SubmitMeansScheduled'
<1>1. \A d \in Contexts : /\ refs[d] \in Nat /\ Users(d) \in Nat
                          /\ d \in scheduled => refs[d] = Users(d) + 1
                          /\ d \notin scheduled => refs[d] = Users(d)
  BY Balance, UsersCount
<1>2. \A d \in Contexts : refs'[d] > 0 <=> refs[d] > 0
  BY <1>1
<1>3. OwnSpace'
  <2>1. \A i \in Spaces : toKctx[i] # NoCtx => toKctx[i] \in Contexts BY DEF TypeOK
  <2> QED BY <2>1, <1>2 DEF OwnSpace
<1>4. SubmitMeansScheduled'
  <2>1. \A i \in submit : toKctx[i] \in scheduled => toKctx[i] \in Contexts BY DEF TypeOK
  <2> QED BY <2>1, <1>2 DEF SubmitMeansScheduled
<1>5. \A d \in Contexts : /\ d \in scheduled' => refs'[d] = Users(d)' + 1
                          /\ d \notin scheduled' => refs'[d] = Users(d)'
  BY <1>1
<1> QED BY <1>3, <1>4, <1>5

(* All that a release through ReleaseInternal leaves intact.               *)
LEMMA ReleaseInv ==
    ASSUME IInv, sched.pc # "commit", NEW c \in scheduled, ReleaseInternal(c), Users(c) > 0,
           UNCHANGED <<live, dying, asNr, toKctx, power, suspend, setup, hw, killed>>,
           jobs' \in [Contexts -> Nat], held' \in [Contexts -> Nat],
           fault' \in [Spaces -> [ctx : Contexts \cup {NoCtx}, done : BOOLEAN]],
           sched' \in [pc : {"idle", "retain", "find", "evict", "again", "commit", "leave"},
                       ctx : live \cup {NoCtx}, victim : Contexts \cup {NoCtx}, i : Nat],
           \A d \in Contexts : Users(d)' = IF d = c THEN Users(d) - 1 ELSE Users(d),
           \A d \in Contexts : d # c => jobs'[d] = jobs[d] /\ held'[d] = held[d],
           \A i \in Spaces : fault'[i] # NoFault => fault'[i] = fault[i]
    PROVE  /\ TypeOK' /\ OwnSpace' /\ RefsBalance' /\ OutMeansUnused'
           /\ NoneDiesMeanwhile' /\ SubmitMeansScheduled' /\ FaultsKnown' /\ TablesLoaded'
           /\ scheduled' \in {scheduled, scheduled \ {c}}
           /\ c \notin scheduled' => free' # {}
<1>i. /\ TypeOK /\ OwnSpace /\ RefsBalance /\ OutMeansUnused
      /\ NoneDiesMeanwhile /\ SubmitMeansScheduled /\ FaultsKnown /\ TablesLoaded
  BY DEF IInv
<1>1. /\ refs' \in [Contexts -> Nat] /\ free' \subseteq Spaces /\ submit' \subseteq submit
      /\ scheduled' \in {scheduled, scheduled \ {c}}
      /\ c \notin scheduled' => Users(c)' = 0 /\ free' # {}
      /\ \A d \in Contexts : /\ d \in scheduled' => refs'[d] = Users(d)' + 1
                             /\ d \notin scheduled' => refs'[d] = Users(d)'
      /\ OwnSpace' /\ SubmitMeansScheduled'
  BY <1>i, ReleaseKeeps
<1>2. TypeOK' BY <1>i, <1>1 DEF TypeOK
<1>3. RefsBalance' BY <1>1, <1>2, BalanceNext
<1>4. OutMeansUnused'
  <2> SUFFICES ASSUME NEW d \in Contexts \ scheduled'
               PROVE  jobs'[d] = 0 /\ ~Faulting(d)' /\ ~(held'[d] > 0)
    BY DEF OutMeansUnused
  <2>1. CASE d = c BY <2>1, <1>1, <1>2, UsersCountNext
  <2>2. CASE d # c BY <2>2, <1>1, <1>i DEF OutMeansUnused, Faulting
  <2> QED BY <2>1, <2>2
<1>5. NoneDiesMeanwhile' /\ FaultsKnown' /\ TablesLoaded'
  BY <1>i DEF NoneDiesMeanwhile, FaultsKnown, TablesLoaded, Suspending
<1> QED BY <1>1, <1>2, <1>3, <1>4, <1>5

(* The atom's reference is held until it is released, and a context that   *)
(* may submit again is scheduled: its atom held it there.                  *)
LEMMA JobDoneStep ==
    ASSUME IInv, NEW c \in Contexts, JobDone(c)
    PROVE  IInv'
<1>i. /\ TypeOK /\ OwnSpace /\ RefsBalance /\ OutMeansUnused /\ InTransaction
      /\ NoneDiesMeanwhile /\ SubmitMeansScheduled /\ FaultsKnown /\ TablesLoaded
  BY DEF IInv
<1>t. jobs \in [Contexts -> Nat] /\ held \in [Contexts -> Nat] BY <1>i DEF TypeOK
<1>u. UNCHANGED <<live, dying, scheduled, refs, asNr, toKctx, free, fault, sched, power, suspend,
                  setup, hw, killed>>
  BY DEF JobDone
<1>1. c \in scheduled BY <1>i, <1>t DEF OutMeansUnused, JobDone
<1>2. \A d \in Contexts : /\ jobs'[d] = IF d = c THEN jobs[d] - 1 ELSE jobs[d]
                          /\ held'[d] = IF d = c THEN held[d] + 1 ELSE held[d]
  BY <1>t DEF JobDone
<1>3. ASSUME NEW d \in Contexts PROVE Users(d)' = Users(d)
  <2>1. jobs[d] \in Nat /\ held[d] \in Nat BY <1>i, UsersCount
  <2>2. Faulting(d)' = Faulting(d) /\ InHand(d)' = InHand(d) BY <1>u DEF Faulting, InHand
  <2>3. jobs'[d] + held'[d] = jobs[d] + held[d] BY <1>2, <2>1
  <2>4. Users(d)' = (jobs'[d] + held'[d]) + (IF Faulting(d)' THEN 1 ELSE 0)
                        + (IF InHand(d)' THEN 1 ELSE 0)
    BY DEF Users
  <2> QED BY <2>2, <2>3, <2>4 DEF Users
<1>4. refs[c] > 0
  <2>1. refs[c] = Users(c) + 1 /\ Users(c) \in Nat BY <1>i, <1>1, Balance, UsersCount
  <2> QED BY <2>1
<1>5. asNr[c] \in Spaces /\ toKctx[asNr[c]] = c
  BY <1>i, <1>4 DEF OwnSpace, TypeOK
<1>6. submit' \subseteq submit \cup {asNr[c]} BY DEF JobDone
<1>7. TypeOK'
  <2>1. jobs' \in [Contexts -> Nat] /\ held' \in [Contexts -> Nat] BY <1>t DEF JobDone
  <2>2. submit' \subseteq Spaces BY <1>i, <1>5, <1>6 DEF TypeOK
  <2> QED BY <1>i, <1>u, <2>1, <2>2 DEF TypeOK
<1>8. RefsBalance'
  <2>1. \A d \in Contexts : /\ d \in scheduled' => refs'[d] = Users(d)' + 1
                            /\ d \notin scheduled' => refs'[d] = Users(d)'
    BY <1>i, <1>u, <1>3, Balance
  <2> QED BY <2>1, <1>7, BalanceNext
<1>9. SubmitMeansScheduled'
  BY <1>i, <1>u, <1>1, <1>4, <1>5, <1>6 DEF SubmitMeansScheduled
<1>10. OutMeansUnused'
  <2>1. \A d \in Contexts \ scheduled' : jobs'[d] = jobs[d] /\ held'[d] = held[d]
    BY <1>1, <1>2, <1>u
  <2> QED BY <2>1, <1>i, <1>u DEF OutMeansUnused, Faulting
<1>11. OwnSpace' /\ InTransaction' /\ NoneDiesMeanwhile' /\ FaultsKnown' /\ TablesLoaded'
  BY <1>i, <1>u DEF OwnSpace, InTransaction, NoneDiesMeanwhile, FaultsKnown, TablesLoaded, Suspending
<1> QED BY <1>7, <1>8, <1>9, <1>10, <1>11 DEF IInv

(* An atom that failed only takes the permission to submit away.           *)
LEMMA JobFailsStep ==
    ASSUME IInv, NEW c \in Contexts, JobFails(c)
    PROVE  IInv'
<1>i. /\ TypeOK /\ OwnSpace /\ RefsBalance /\ OutMeansUnused /\ InTransaction
      /\ NoneDiesMeanwhile /\ SubmitMeansScheduled /\ FaultsKnown /\ TablesLoaded
  BY DEF IInv
<1>u. /\ UNCHANGED <<live, dying, scheduled, refs, asNr, toKctx, free, jobs, held, fault, sched,
                     power, suspend, setup, hw, killed>>
      /\ submit' \subseteq submit
  BY DEF JobFails
<1>1. TypeOK' /\ SubmitMeansScheduled'
  BY <1>i, <1>u DEF TypeOK, SubmitMeansScheduled
<1>2. OwnSpace' /\ RefsBalance' /\ OutMeansUnused'
  BY <1>i, <1>u DEF OwnSpace, RefsBalance, OutMeansUnused, Faulting, InHand
<1>3. InTransaction' /\ NoneDiesMeanwhile' /\ FaultsKnown' /\ TablesLoaded'
  BY <1>i, <1>u DEF InTransaction, NoneDiesMeanwhile, FaultsKnown, TablesLoaded, Suspending
<1> QED BY <1>1, <1>2, <1>3 DEF IInv

LEMMA HeldReleaseStep ==
    ASSUME IInv, NEW c \in Contexts, HeldRelease(c)
    PROVE  IInv'
<1>i. TypeOK /\ OutMeansUnused /\ InTransaction BY DEF IInv
<1>t. held \in [Contexts -> Nat] BY <1>i DEF TypeOK
<1>u. UNCHANGED <<live, dying, asNr, toKctx, jobs, fault, sched, power, suspend, setup, hw, killed>>
  BY DEF HeldRelease
<1>5. ReleaseInternal(c) /\ sched.pc = "idle" BY DEF HeldRelease, QueueFree
<1>1. c \in scheduled BY <1>i, <1>t, <1>5 DEF OutMeansUnused, HeldRelease
<1>2. \A d \in Contexts : held'[d] = IF d = c THEN held[d] - 1 ELSE held[d]
  BY <1>t DEF HeldRelease
<1>3. ASSUME NEW d \in Contexts PROVE Users(d)' = IF d = c THEN Users(d) - 1 ELSE Users(d)
  <2>1. jobs[d] \in Nat /\ held[d] \in Nat BY <1>i, UsersCount
  <2>2. Faulting(d)' = Faulting(d) /\ InHand(d)' = InHand(d) BY <1>u DEF Faulting, InHand
  <2> QED BY <1>2, <1>u, <2>1, <2>2 DEF Users
<1>4. Users(c) > 0 BY <1>i, <1>t, UsersCount DEF HeldRelease
<1>6. held' \in [Contexts -> Nat] BY <1>t DEF HeldRelease
<1>7. /\ TypeOK' /\ OwnSpace' /\ RefsBalance' /\ OutMeansUnused'
      /\ NoneDiesMeanwhile' /\ SubmitMeansScheduled' /\ FaultsKnown' /\ TablesLoaded'
  BY <1>i, <1>u, <1>1, <1>2, <1>3, <1>4, <1>5, <1>6, ReleaseInv DEF TypeOK
<1>8. InTransaction' BY <1>u, <1>5 DEF InTransaction
<1> QED BY <1>7, <1>8 DEF IInv

(* The context that the worker finds is the one that the fault retained.   *)
LEMMA FaultReleaseStep ==
    ASSUME IInv, NEW i \in Spaces, FaultRelease(i)
    PROVE  IInv'
<1> DEFINE c == toKctx[i]
<1>i. TypeOK /\ OwnSpace /\ OutMeansUnused /\ InTransaction /\ FaultsKnown BY DEF IInv
<1>t. c \in Contexts /\ asNr[c] = i BY <1>i DEF TypeOK, OwnSpace, FaultRelease
<1>u. UNCHANGED <<live, dying, asNr, toKctx, jobs, held, sched, power, suspend, setup, hw, killed>>
  BY DEF FaultRelease
<1>5. ReleaseInternal(c) /\ sched.pc = "idle" BY DEF FaultRelease, QueueFree
<1>0. fault[i] # NoFault /\ fault' = [fault EXCEPT ![i] = NoFault]
  <2>1. fault[i].done = TRUE BY <1>i DEF FaultRelease, TypeOK
  <2> QED BY <2>1 DEF FaultRelease
<1>f. Faulting(c) BY <1>0, <1>t DEF Faulting
<1>1. c \in scheduled BY <1>i, <1>t, <1>f DEF OutMeansUnused
<1>2. \A j \in Spaces : fault'[j] = IF j = i THEN NoFault ELSE fault[j]
  BY <1>0, <1>i DEF TypeOK
<1>3. ASSUME NEW d \in Contexts PROVE Users(d)' = IF d = c THEN Users(d) - 1 ELSE Users(d)
  <2>1. jobs[d] \in Nat /\ held[d] \in Nat BY <1>i, UsersCount
  <2>2. InHand(d)' = InHand(d) BY <1>u DEF InHand
  <2>3. CASE d = c
    <3>1. ~Faulting(d)' BY <2>3, <1>2, <1>t, <1>u DEF Faulting
    <3> QED BY <3>1, <2>1, <2>2, <2>3, <1>u, <1>f DEF Users
  <2>4. CASE d # c
    <3>1. asNr[d] # i BY <2>4, <1>i, <1>t DEF OwnSpace
    <3>2. Faulting(d)' = Faulting(d) BY <3>1, <1>2, <1>u DEF Faulting
    <3> QED BY <3>2, <2>1, <2>2, <2>4, <1>u DEF Users
  <2> QED BY <2>3, <2>4
<1>4. Users(c) > 0 BY <1>i, <1>t, <1>f, UsersCount
<1>6. fault' \in [Spaces -> [ctx : Contexts \cup {NoCtx}, done : BOOLEAN]]
  BY <1>0, <1>i DEF TypeOK
<1>7. /\ TypeOK' /\ OwnSpace' /\ RefsBalance' /\ OutMeansUnused'
      /\ NoneDiesMeanwhile' /\ SubmitMeansScheduled' /\ FaultsKnown' /\ TablesLoaded'
  BY <1>i, <1>u, <1>1, <1>2, <1>3, <1>4, <1>5, <1>6, ReleaseInv DEF TypeOK
<1>8. InTransaction' BY <1>u, <1>5 DEF InTransaction
<1> QED BY <1>7, <1>8 DEF IInv

LEMMA EvictStep ==
    ASSUME IInv, Evict
    PROVE  IInv'
<1> DEFINE c == sched.victim
<1>i. TypeOK /\ OwnSpace /\ OutMeansUnused /\ InTransaction BY DEF IInv
<1>u. UNCHANGED <<live, dying, asNr, toKctx, jobs, held, fault, power, suspend, setup, hw, killed>>
  BY DEF Evict, useVars
<1>5. ReleaseInternal(c) /\ sched.pc = "evict" BY DEF Evict
<1>1. c \in scheduled /\ c \in Contexts BY <1>i, <1>5 DEF InTransaction, TypeOK
<1>s. /\ sched'.pc \in {"find", "again"} /\ sched'.victim = NoCtx
      /\ sched'.ctx = sched.ctx /\ sched'.i = sched.i
      /\ sched'.pc = "again" <=> c \notin scheduled'
      /\ sched' \in [pc : {"idle", "retain", "find", "evict", "again", "commit", "leave"},
                     ctx : live \cup {NoCtx}, victim : Contexts \cup {NoCtx}, i : Nat]
  BY <1>i DEF Evict, TypeOK
<1>f. InHand(c) /\ \A d \in Contexts : ~InHand(d)' BY <1>5, <1>s DEF InHand
<1>3. ASSUME NEW d \in Contexts PROVE Users(d)' = IF d = c THEN Users(d) - 1 ELSE Users(d)
  <2>1. jobs[d] \in Nat /\ held[d] \in Nat BY <1>i, UsersCount
  <2>2. Faulting(d)' = Faulting(d) BY <1>u DEF Faulting
  <2>3. CASE d = c BY <2>1, <2>2, <2>3, <1>f, <1>u DEF Users
  <2>4. CASE d # c
    <3>1. ~InHand(d) /\ ~InHand(d)' BY <2>4, <1>5, <1>f DEF InHand
    <3> QED BY <3>1, <2>1, <2>2, <2>4, <1>u DEF Users
  <2> QED BY <2>3, <2>4
<1>4. Users(c) > 0 BY <1>i, <1>1, <1>f, UsersCount
<1>7. /\ TypeOK' /\ OwnSpace' /\ RefsBalance' /\ OutMeansUnused'
      /\ NoneDiesMeanwhile' /\ SubmitMeansScheduled' /\ FaultsKnown' /\ TablesLoaded'
      /\ scheduled' \in {scheduled, scheduled \ {c}}
      /\ c \notin scheduled' => free' # {}
  BY <1>i, <1>u, <1>1, <1>s, <1>3, <1>4, <1>5, ReleaseInv DEF TypeOK
<1>8. InTransaction' BY <1>i, <1>u, <1>5, <1>s, <1>7 DEF InTransaction
<1> QED BY <1>7, <1>8 DEF IInv

LEMMA LeaveStep ==
    ASSUME IInv, Leave
    PROVE  IInv'
<1> DEFINE c == sched.ctx
<1>i. TypeOK /\ OwnSpace /\ OutMeansUnused /\ InTransaction BY DEF IInv
<1>u. UNCHANGED <<live, dying, asNr, toKctx, jobs, held, fault, power, suspend, setup, hw, killed>>
  BY DEF Leave, useVars
<1>5. ReleaseInternal(c) /\ sched.pc = "leave" /\ sched' = NoSched BY DEF Leave
<1>1. c \in scheduled /\ c \in Contexts BY <1>i, <1>5 DEF InTransaction, TypeOK
<1>f. InHand(c) /\ \A d \in Contexts : ~InHand(d)' BY <1>5 DEF InHand
<1>3. ASSUME NEW d \in Contexts PROVE Users(d)' = IF d = c THEN Users(d) - 1 ELSE Users(d)
  <2>1. jobs[d] \in Nat /\ held[d] \in Nat BY <1>i, UsersCount
  <2>2. Faulting(d)' = Faulting(d) BY <1>u DEF Faulting
  <2>3. CASE d = c BY <2>1, <2>2, <2>3, <1>f, <1>u DEF Users
  <2>4. CASE d # c
    <3>1. ~InHand(d) /\ ~InHand(d)' BY <2>4, <1>5, <1>f DEF InHand
    <3> QED BY <3>1, <2>1, <2>2, <2>4, <1>u DEF Users
  <2> QED BY <2>3, <2>4
<1>4. Users(c) > 0 BY <1>i, <1>1, <1>f, UsersCount
<1>7. /\ TypeOK' /\ OwnSpace' /\ RefsBalance' /\ OutMeansUnused'
      /\ NoneDiesMeanwhile' /\ SubmitMeansScheduled' /\ FaultsKnown' /\ TablesLoaded'
  BY <1>i, <1>u, <1>1, <1>3, <1>4, <1>5, ReleaseInv DEF TypeOK
<1>8. InTransaction' BY <1>5 DEF InTransaction
<1> QED BY <1>7, <1>8 DEF IInv

(* All that a step leaves intact that only adds references.                *)
LEMMA RetainInv ==
    ASSUME IInv, NEW D \in SUBSET Contexts,
           UNCHANGED <<live, scheduled, asNr, toKctx, free, power, setup, hw, killed>>,
           submit' \subseteq submit, dying' \subseteq live, suspend' \in {"no", "begun", "js"},
           refs' \in [Contexts -> Nat], jobs' \in [Contexts -> Nat], held' \in [Contexts -> Nat],
           fault' \in [Spaces -> [ctx : Contexts \cup {NoCtx}, done : BOOLEAN]],
           sched' \in [pc : {"idle", "retain", "find", "evict", "again", "commit", "leave"},
                       ctx : live \cup {NoCtx}, victim : Contexts \cup {NoCtx}, i : Nat],
           \A d \in D : refs[d] > 0,
           \A d \in Contexts : refs'[d] = IF d \in D THEN refs[d] + 1 ELSE refs[d],
           \A d \in Contexts : Users(d)' = IF d \in D THEN Users(d) + 1 ELSE Users(d)
    PROVE  TypeOK' /\ OwnSpace' /\ RefsBalance' /\ SubmitMeansScheduled' /\ TablesLoaded'
<1>i. TypeOK /\ OwnSpace /\ RefsBalance /\ SubmitMeansScheduled /\ TablesLoaded
  BY DEF IInv
<1>1. /\ \A d \in Contexts : /\ d \in scheduled' => refs'[d] = Users(d)' + 1
                             /\ d \notin scheduled' => refs'[d] = Users(d)'
      /\ OwnSpace' /\ SubmitMeansScheduled'
  BY <1>i, RetainKeeps
<1>2. TypeOK' BY <1>i DEF TypeOK
<1>3. RefsBalance' BY <1>1, <1>2, BalanceNext
<1>4. TablesLoaded' BY <1>i DEF TablesLoaded
<1> QED BY <1>1, <1>2, <1>3, <1>4

(* A reference outside the scheduler's hand means a scheduled context.     *)
LEMMA RetainedIsScheduled ==
    ASSUME IInv, NEW c \in Contexts, refs[c] > 0, ~InHand(c)
    PROVE  c \in scheduled
<1>i. TypeOK /\ RefsBalance /\ OutMeansUnused BY DEF IInv
<1> SUFFICES ASSUME c \notin scheduled PROVE FALSE OBVIOUS
<1>1. jobs[c] = 0 /\ ~Faulting(c) /\ held[c] \in Nat /\ held[c] = 0
  BY <1>i, UsersCount DEF OutMeansUnused, InHand
<1>2. Users(c) = 0 BY <1>i, <1>1, UsersCount
<1>3. refs[c] = Users(c) BY <1>i, Balance
<1> QED BY <1>2, <1>3

LEMMA FlushStep ==
    ASSUME IInv, NEW c \in Contexts, Flush(c)
    PROVE  IInv'
<1>i. TypeOK /\ OutMeansUnused /\ InTransaction /\ NoneDiesMeanwhile /\ FaultsKnown
  BY DEF IInv
<1>t. held \in [Contexts -> Nat] /\ refs \in [Contexts -> Nat] BY <1>i DEF TypeOK
<1>u. UNCHANGED <<live, dying, scheduled, asNr, toKctx, free, submit, jobs, fault, sched, power,
                  suspend, setup, hw, killed>>
  BY DEF Flush
<1>q. sched.pc = "idle" BY DEF Flush, QueueFree
<1>1. c \in scheduled BY <1>q, RetainedIsScheduled DEF Flush, InHand
<1>2. \A d \in Contexts : /\ held'[d] = IF d = c THEN held[d] + 1 ELSE held[d]
                          /\ refs'[d] = IF d = c THEN refs[d] + 1 ELSE refs[d]
  BY <1>t DEF Flush
<1>3. held' \in [Contexts -> Nat] /\ refs' \in [Contexts -> Nat] BY <1>t DEF Flush
<1>4. ASSUME NEW d \in Contexts PROVE Users(d)' = IF d = c THEN Users(d) + 1 ELSE Users(d)
  <2>1. jobs[d] \in Nat /\ held[d] \in Nat BY <1>i, UsersCount
  <2>2. Faulting(d)' = Faulting(d) /\ InHand(d)' = InHand(d) BY <1>u DEF Faulting, InHand
  <2> QED BY <1>2, <1>u, <2>1, <2>2 DEF Users
<1>5. TypeOK' /\ OwnSpace' /\ RefsBalance' /\ SubmitMeansScheduled' /\ TablesLoaded'
  <2> DEFINE D == {c}
  <2>1. \A d \in D : refs[d] > 0 BY DEF Flush
  <2>2. \A d \in Contexts : /\ refs'[d] = IF d \in D THEN refs[d] + 1 ELSE refs[d]
                            /\ Users(d)' = IF d \in D THEN Users(d) + 1 ELSE Users(d)
    BY <1>2, <1>4
  <2> HIDE DEF D
  <2>3. D \in SUBSET Contexts BY DEF D
  <2> QED BY <1>i, <1>u, <1>3, <2>1, <2>2, <2>3, RetainInv, ZenonT(40) DEF TypeOK
<1>6. OutMeansUnused' BY <1>i, <1>u, <1>1, <1>2 DEF OutMeansUnused, Faulting
<1>7. InTransaction' /\ NoneDiesMeanwhile' /\ FaultsKnown'
  BY <1>i, <1>u DEF InTransaction, NoneDiesMeanwhile, FaultsKnown, Suspending
<1> QED BY <1>5, <1>6, <1>7 DEF IInv

(* kbase_js_pull need not look at what retaining the context returns.      *)
LEMMA JobPullStep ==
    ASSUME IInv, NEW c \in Contexts, JobPull(c)
    PROVE  IInv'
<1>i. TypeOK /\ OwnSpace /\ SubmitMeansScheduled /\ OutMeansUnused /\ InTransaction
      /\ NoneDiesMeanwhile /\ FaultsKnown
  BY DEF IInv
<1>t. jobs \in [Contexts -> Nat] /\ refs \in [Contexts -> Nat] BY <1>i DEF TypeOK
<1>u. UNCHANGED <<live, dying, scheduled, asNr, toKctx, free, submit, held, fault, sched, power,
                  suspend, setup, hw, killed>>
  BY DEF JobPull
<1>1. c \in scheduled /\ refs[c] > 0
  <2>1. asNr[c] \in submit /\ asNr[c] # Invalid BY <1>i DEF JobPull, SubmitAllowed, TypeOK
  <2> QED BY <2>1, <1>i DEF SubmitMeansScheduled, OwnSpace
<1>2. \A d \in Contexts : /\ jobs'[d] = IF d = c THEN jobs[d] + 1 ELSE jobs[d]
                          /\ refs'[d] = IF d = c THEN refs[d] + 1 ELSE refs[d]
  BY <1>t, <1>1 DEF JobPull
<1>3. jobs' \in [Contexts -> Nat] /\ refs' \in [Contexts -> Nat] BY <1>t DEF JobPull
<1>4. ASSUME NEW d \in Contexts PROVE Users(d)' = IF d = c THEN Users(d) + 1 ELSE Users(d)
  <2>1. jobs[d] \in Nat /\ held[d] \in Nat BY <1>i, UsersCount
  <2>2. Faulting(d)' = Faulting(d) /\ InHand(d)' = InHand(d) BY <1>u DEF Faulting, InHand
  <2> QED BY <1>2, <1>u, <2>1, <2>2 DEF Users
<1>5. TypeOK' /\ OwnSpace' /\ RefsBalance' /\ SubmitMeansScheduled' /\ TablesLoaded'
  <2> DEFINE D == {c}
  <2>1. \A d \in D : refs[d] > 0 BY <1>1
  <2>2. \A d \in Contexts : /\ refs'[d] = IF d \in D THEN refs[d] + 1 ELSE refs[d]
                            /\ Users(d)' = IF d \in D THEN Users(d) + 1 ELSE Users(d)
    BY <1>2, <1>4
  <2> HIDE DEF D
  <2>3. D \in SUBSET Contexts BY DEF D
  <2> QED BY <1>i, <1>u, <1>3, <2>1, <2>2, <2>3, RetainInv, ZenonT(40) DEF TypeOK
<1>6. OutMeansUnused' BY <1>i, <1>u, <1>1, <1>2 DEF OutMeansUnused, Faulting
<1>7. InTransaction' /\ NoneDiesMeanwhile' /\ FaultsKnown'
  BY <1>i, <1>u DEF InTransaction, NoneDiesMeanwhile, FaultsKnown, Suspending
<1> QED BY <1>5, <1>6, <1>7 DEF IInv

(* The interrupt retains the context whose job runs.                       *)
LEMMA FaultIrqStep ==
    ASSUME IInv, NEW i \in Spaces, FaultIrq(i)
    PROVE  IInv'
<1> DEFINE c == toKctx[i]
<1>i. TypeOK /\ OwnSpace /\ RefsBalance /\ OutMeansUnused /\ InTransaction
      /\ NoneDiesMeanwhile /\ FaultsKnown
  BY DEF IInv
<1>t. refs \in [Contexts -> Nat] /\ c \in Contexts /\ asNr[c] = i /\ c # NoCtx
  BY <1>i DEF TypeOK, OwnSpace, FaultIrq
<1>u. UNCHANGED <<live, dying, scheduled, asNr, toKctx, free, jobs, held, sched, power,
                  suspend, setup, hw, killed>>
  BY DEF FaultIrq
<1>1. c \in scheduled /\ refs[c] > 0
  <2>1. jobs[c] > 0 /\ jobs[c] \in Nat BY <1>i, <1>t, UsersCount DEF FaultIrq
  <2>2. c \in scheduled BY <2>1, <1>i, <1>t DEF OutMeansUnused
  <2>3. Users(c) \in Nat /\ refs[c] = Users(c) + 1 BY <2>2, <1>i, <1>t, Balance, UsersCount
  <2> QED BY <2>2, <2>3
<1>2. \A d \in Contexts : refs'[d] = IF d = c THEN refs[d] + 1 ELSE refs[d]
  BY <1>t DEF FaultIrq
<1>f. /\ fault[i] = NoFault
      /\ \A j \in Spaces : fault'[j] = IF j = i THEN [ctx |-> c, done |-> FALSE] ELSE fault[j]
      /\ fault' \in [Spaces -> [ctx : Contexts \cup {NoCtx}, done : BOOLEAN]]
  BY <1>i, <1>t DEF FaultIrq, TypeOK
<1>3. refs' \in [Contexts -> Nat] BY <1>t DEF FaultIrq
<1>4. ASSUME NEW d \in Contexts PROVE Users(d)' = IF d = c THEN Users(d) + 1 ELSE Users(d)
  <2>1. jobs[d] \in Nat /\ held[d] \in Nat BY <1>i, UsersCount
  <2>2. InHand(d)' = InHand(d) BY <1>u DEF InHand
  <2>3. CASE d = c
    <3>1. [ctx |-> c, done |-> FALSE] # NoFault BY <1>t
    <3>2. Faulting(d)' /\ ~Faulting(d) BY <3>1, <2>3, <1>f, <1>t, <1>u DEF Faulting
    <3> QED BY <3>2, <2>1, <2>2, <2>3, <1>u DEF Users
  <2>4. CASE d # c
    <3>1. asNr[d] # i BY <2>4, <1>i, <1>t DEF OwnSpace
    <3>2. Faulting(d)' = Faulting(d) BY <3>1, <1>f, <1>u DEF Faulting
    <3> QED BY <3>2, <2>1, <2>2, <2>4, <1>u DEF Users
  <2> QED BY <2>3, <2>4
<1>s. submit' \subseteq submit BY DEF FaultIrq
<1>5. TypeOK' /\ OwnSpace' /\ RefsBalance' /\ SubmitMeansScheduled' /\ TablesLoaded'
  <2> DEFINE D == {c}
  <2>1. \A d \in D : refs[d] > 0 BY <1>1
  <2>2. \A d \in Contexts : /\ refs'[d] = IF d \in D THEN refs[d] + 1 ELSE refs[d]
                            /\ Users(d)' = IF d \in D THEN Users(d) + 1 ELSE Users(d)
    BY <1>2, <1>4
  <2>3. D \in SUBSET Contexts BY <1>t
  <2> HIDE DEF D
  <2> QED BY <1>i, <1>u, <1>s, <1>f, <1>3, <2>1, <2>2, <2>3, RetainInv, ZenonT(40) DEF TypeOK
<1>6. OutMeansUnused'
  <2> SUFFICES ASSUME NEW d \in Contexts \ scheduled PROVE ~Faulting(d)'
    BY <1>i, <1>u DEF OutMeansUnused
  <2>1. asNr[d] # i BY <1>1, <1>i, <1>t DEF OwnSpace
  <2> QED BY <2>1, <1>f, <1>u, <1>i DEF OutMeansUnused, Faulting
<1>7. InTransaction' /\ NoneDiesMeanwhile'
  BY <1>i, <1>u DEF InTransaction, NoneDiesMeanwhile, Suspending
<1>8. FaultsKnown' BY <1>i, <1>u, <1>f, <1>t, SMTT(30) DEF FaultsKnown
<1> QED BY <1>5, <1>6, <1>7, <1>8 DEF IInv

(* The victim is scheduled, and nothing else holds it.                     *)
LEMMA FindVictimStep ==
    ASSUME IInv, NEW i \in Spaces, FindVictim(i)
    PROVE  IInv'
<1> DEFINE c == toKctx[i]
<1>i. TypeOK /\ OwnSpace /\ RefsBalance /\ OutMeansUnused /\ InTransaction
      /\ NoneDiesMeanwhile /\ FaultsKnown
  BY DEF IInv
<1>p. sched.pc = "find" /\ c # NoCtx /\ refs[c] = 1 BY DEF FindVictim, Evictable
<1>t. refs \in [Contexts -> Nat] /\ c \in Contexts
  BY <1>i, <1>p DEF TypeOK
<1>u. UNCHANGED <<live, dying, scheduled, asNr, toKctx, free, jobs, held, fault, power,
                  suspend, setup, hw, killed>>
  BY DEF FindVictim
<1>s. /\ sched'.pc = "evict" /\ sched'.victim = c /\ sched'.ctx = sched.ctx
      /\ sched' \in [pc : {"idle", "retain", "find", "evict", "again", "commit", "leave"},
                     ctx : live \cup {NoCtx}, victim : Contexts \cup {NoCtx}, i : Nat]
  <2>1. i + 1 \in Nat OBVIOUS
  <2>2. sched' = [sched EXCEPT !.pc = "evict", !.victim = c, !.i = i + 1] BY DEF FindVictim
  <2>3. sched \in [pc : {"idle", "retain", "find", "evict", "again", "commit", "leave"},
                   ctx : live \cup {NoCtx}, victim : Contexts \cup {NoCtx}, i : Nat]
    BY <1>i DEF TypeOK
  <2> HIDE DEF c
  <2> QED BY <2>1, <2>2, <2>3, <1>t
<1>1. c \in scheduled BY <1>p, <1>t, RetainedIsScheduled DEF InHand
<1>2. \A d \in Contexts : refs'[d] = IF d = c THEN refs[d] + 1 ELSE refs[d]
  BY <1>t DEF FindVictim
<1>3. refs' \in [Contexts -> Nat] /\ submit' \subseteq submit BY <1>t DEF FindVictim
<1>4. ASSUME NEW d \in Contexts PROVE Users(d)' = IF d = c THEN Users(d) + 1 ELSE Users(d)
  <2>1. jobs[d] \in Nat /\ held[d] \in Nat BY <1>i, UsersCount
  <2>2. Faulting(d)' = Faulting(d) BY <1>u DEF Faulting
  <2>3. ~InHand(d) BY <1>p DEF InHand
  <2>4. InHand(d)' <=> d = c BY <1>s DEF InHand
  <2>5. CASE d = c BY <2>1, <2>2, <2>3, <2>4, <2>5, <1>u DEF Users
  <2>6. CASE d # c BY <2>1, <2>2, <2>3, <2>4, <2>6, <1>u DEF Users
  <2> QED BY <2>5, <2>6
<1>5. TypeOK' /\ OwnSpace' /\ RefsBalance' /\ SubmitMeansScheduled' /\ TablesLoaded'
  <2> DEFINE D == {c}
  <2>1. \A d \in D : refs[d] > 0 BY <1>p
  <2>2. \A d \in Contexts : /\ refs'[d] = IF d \in D THEN refs[d] + 1 ELSE refs[d]
                            /\ Users(d)' = IF d \in D THEN Users(d) + 1 ELSE Users(d)
    BY <1>2, <1>4
  <2>3. D \in SUBSET Contexts BY <1>t
  <2> HIDE DEF D
  <2> QED BY <1>i, <1>u, <1>s, <1>3, <2>1, <2>2, <2>3, RetainInv DEF TypeOK
<1>6. OutMeansUnused' BY <1>i, <1>u, <1>p DEF OutMeansUnused, Faulting
<1>7. InTransaction' BY <1>i, <1>u, <1>p, <1>s, <1>1 DEF InTransaction
<1>8. NoneDiesMeanwhile' /\ FaultsKnown'
  BY <1>i, <1>u DEF NoneDiesMeanwhile, FaultsKnown, Suspending
<1> QED BY <1>5, <1>6, <1>7, <1>8 DEF IInv

LEMMA ZapStep ==
    ASSUME IInv, NEW c \in Contexts, Zap(c)
    PROVE  IInv'
<1>i. TypeOK /\ OwnSpace /\ RefsBalance /\ OutMeansUnused /\ InTransaction
      /\ NoneDiesMeanwhile /\ FaultsKnown /\ SubmitMeansScheduled /\ TablesLoaded
  BY DEF IInv
<1>t. held \in [Contexts -> Nat] /\ refs \in [Contexts -> Nat] BY <1>i DEF TypeOK
<1>u. UNCHANGED <<live, scheduled, asNr, toKctx, free, jobs, fault, sched, power,
                  suspend, setup, hw, killed>>
  BY DEF Zap
<1>q. sched.pc = "idle" /\ ~Suspending /\ dying' = dying \cup {c} /\ c \in live
  BY DEF Zap, QueueFree
<1>d. dying' \subseteq live BY <1>q, <1>i DEF TypeOK
<1>6. InTransaction' /\ NoneDiesMeanwhile' /\ FaultsKnown'
  BY <1>i, <1>u, <1>q DEF InTransaction, NoneDiesMeanwhile, FaultsKnown, Suspending
<1>7. CASE c \in scheduled
  <2>1. \A d \in Contexts : /\ held'[d] = IF d = c THEN held[d] + 1 ELSE held[d]
                            /\ refs'[d] = IF d = c THEN refs[d] + 1 ELSE refs[d]
    BY <1>t, <1>7 DEF Zap
  <2>2. held' \in [Contexts -> Nat] /\ refs' \in [Contexts -> Nat] /\ submit' \subseteq submit
    BY <1>t, <1>7 DEF Zap
  <2>3. ASSUME NEW d \in Contexts PROVE Users(d)' = IF d = c THEN Users(d) + 1 ELSE Users(d)
    <3>1. jobs[d] \in Nat /\ held[d] \in Nat BY <1>i, UsersCount
    <3>2. Faulting(d)' = Faulting(d) /\ InHand(d)' = InHand(d) BY <1>u DEF Faulting, InHand
    <3> QED BY <2>1, <1>u, <3>1, <3>2 DEF Users
  <2>4. refs[c] > 0 BY <1>7, <1>i, Balance, UsersCount
  <2>5. TypeOK' /\ OwnSpace' /\ RefsBalance' /\ SubmitMeansScheduled' /\ TablesLoaded'
    <3> DEFINE D == {c}
    <3>1. \A d \in D : refs[d] > 0 BY <2>4
    <3>2. \A d \in Contexts : /\ refs'[d] = IF d \in D THEN refs[d] + 1 ELSE refs[d]
                              /\ Users(d)' = IF d \in D THEN Users(d) + 1 ELSE Users(d)
      BY <2>1, <2>3
    <3> HIDE DEF D
    <3>3. D \in SUBSET Contexts BY DEF D
    <3> QED BY <1>i, <1>u, <1>d, <2>2, <3>1, <3>2, <3>3, RetainInv, ZenonT(40) DEF TypeOK
  <2>6. OutMeansUnused' BY <1>i, <1>u, <1>q, <1>7, <2>1 DEF OutMeansUnused, Faulting
  <2> QED BY <2>5, <2>6, <1>6 DEF IInv
<1>8. CASE c \notin scheduled
  <2>1. UNCHANGED <<submit, refs, held>> BY <1>8 DEF Zap
  <2>2. TypeOK' BY <1>i, <1>u, <1>d, <2>1 DEF TypeOK
  <2>3. OwnSpace' /\ SubmitMeansScheduled' /\ TablesLoaded'
    BY <1>i, <1>u, <2>1 DEF OwnSpace, SubmitMeansScheduled, TablesLoaded
  <2>4. RefsBalance'
    BY <1>i, <1>u, <2>1 DEF RefsBalance, Faulting, InHand
  <2>5. OutMeansUnused' BY <1>i, <1>u, <1>q, <2>1 DEF OutMeansUnused, Faulting
  <2> QED BY <2>2, <2>3, <2>4, <2>5, <1>6 DEF IInv
<1> QED BY <1>7, <1>8

(* Every context with a space gets a reference, also one that is on its    *)
(* way in; no context dies meanwhile, so it will be scheduled.             *)
LEMMA JsSuspendStep ==
    ASSUME IInv, JsSuspend
    PROVE  IInv'
<1> DEFINE D == {c \in Contexts : Retained(c)}
<1>i. TypeOK /\ OwnSpace /\ RefsBalance /\ OutMeansUnused /\ InTransaction
      /\ NoneDiesMeanwhile /\ FaultsKnown
  BY DEF IInv
<1>t. held \in [Contexts -> Nat] /\ refs \in [Contexts -> Nat] BY <1>i DEF TypeOK
<1>u. UNCHANGED <<live, dying, scheduled, asNr, toKctx, free, jobs, fault, sched, power,
                  setup, hw, killed>>
  BY DEF JsSuspend
<1>q. Suspending /\ dying = {} /\ suspend' = "js" /\ submit' = {}
  BY <1>i DEF JsSuspend, Suspending, NoneDiesMeanwhile
<1>1. \A d \in D : refs[d] > 0
  BY <1>i DEF Retained, OwnSpace
<1>2. \A d \in Contexts : /\ held'[d] = IF d \in D THEN held[d] + 1 ELSE held[d]
                          /\ refs'[d] = IF d \in D THEN refs[d] + 1 ELSE refs[d]
  BY DEF JsSuspend
<1>3. held' \in [Contexts -> Nat] /\ refs' \in [Contexts -> Nat]
  BY <1>t DEF JsSuspend
<1> HIDE DEF D
<1>4. ASSUME NEW d \in Contexts PROVE Users(d)' = IF d \in D THEN Users(d) + 1 ELSE Users(d)
  <2>1. jobs[d] \in Nat /\ held[d] \in Nat BY <1>i, UsersCount
  <2>2. Faulting(d)' = Faulting(d) /\ InHand(d)' = InHand(d) BY <1>u DEF Faulting, InHand
  <2> QED BY <1>2, <1>u, <2>1, <2>2 DEF Users
<1>5. TypeOK' /\ OwnSpace' /\ RefsBalance' /\ SubmitMeansScheduled' /\ TablesLoaded'
  <2>1. D \in SUBSET Contexts BY DEF D
  <2> QED BY <1>i, <1>u, <1>q, <1>1, <1>2, <1>3, <1>4, <2>1, RetainInv DEF TypeOK
<1>6. OutMeansUnused'
  <2> SUFFICES ASSUME NEW d \in Contexts \ scheduled, held'[d] > 0
               PROVE  sched.pc = "commit" /\ sched.ctx = d
    BY <1>i, <1>u, <1>q DEF OutMeansUnused, Faulting
  <2>1. CASE d \notin D BY <2>1, <1>2, <1>i DEF OutMeansUnused
  <2>2. CASE d \in D
    <3>1. InHand(d) BY <2>2, <1>1, RetainedIsScheduled
    <3> QED BY <3>1, <1>i DEF InHand, InTransaction
  <2> QED BY <2>1, <2>2
<1>7. InTransaction' /\ NoneDiesMeanwhile' /\ FaultsKnown'
  BY <1>i, <1>u, <1>q DEF InTransaction, NoneDiesMeanwhile, FaultsKnown
<1> QED BY <1>5, <1>6, <1>7 DEF IInv

-----------------------------------------------------------------------------
(* The transaction.                                                        *)

LEMMA CommitStep ==
    ASSUME IInv, Commit
    PROVE  IInv'
<1> DEFINE c == sched.ctx
<1>i. TypeOK /\ OwnSpace /\ RefsBalance /\ OutMeansUnused /\ InTransaction
      /\ NoneDiesMeanwhile /\ FaultsKnown /\ SubmitMeansScheduled /\ TablesLoaded
  BY DEF IInv
<1>p. sched.pc = "commit" /\ c \in live /\ c \in Contexts /\ c \notin scheduled
  BY <1>i DEF Commit, InTransaction, TypeOK
<1>t. refs \in [Contexts -> Nat] BY <1>i DEF TypeOK
<1>u. UNCHANGED <<live, dying, asNr, toKctx, jobs, held, fault, power, suspend, setup, hw, killed>>
  BY DEF Commit
<1>a. \A d \in Contexts : /\ refs[d] \in Nat /\ Users(d) \in Nat
                          /\ d \in scheduled => refs[d] = Users(d) + 1
                          /\ d \notin scheduled => refs[d] = Users(d)
  BY <1>i, Balance, UsersCount
<1>b. InHand(c) /\ Users(c) > 0 BY <1>i, <1>p, UsersCount DEF InHand
<1>o. asNr[c] \in Spaces \ free /\ toKctx[asNr[c]] = c
  BY <1>a, <1>b, <1>p, <1>i DEF OwnSpace
<1>n. \A d \in Contexts : asNr[d] = asNr[c] => d = c
  BY <1>o, <1>p, <1>i DEF OwnSpace
<1>k. FaultsKnown' /\ NoneDiesMeanwhile' /\ TablesLoaded'
  BY <1>i, <1>u DEF FaultsKnown, NoneDiesMeanwhile, TablesLoaded, Suspending
<1>1. CASE c \in dying /\ Release(c) /\ sched' = NoSched /\ UNCHANGED <<scheduled, submit>>
  <2>1. held[c] = 0 /\ jobs[c] = 0 /\ ~Faulting(c)
    BY <1>1, <1>i, <1>p, UsersCount DEF OutMeansUnused
  <2>2. refs[c] = 1 BY <2>1, <1>a, <1>b, <1>p DEF Users
  <2>3. refs' = [refs EXCEPT ![c] = 0] /\ free' = free \cup {asNr[c]}
    BY <1>1, <2>2, <1>t, <1>p DEF Release
  <2>4. \A d \in Contexts : refs'[d] = IF d = c THEN 0 ELSE refs[d]
    BY <2>3, <1>t
  <2>5. TypeOK' BY <1>i, <1>u, <1>1, <2>3, <1>o DEF TypeOK
  <2>6. ASSUME NEW d \in Contexts
        PROVE  d \in scheduled' => refs'[d] = Users(d)' + 1
    <3>1. jobs[d] \in Nat /\ held[d] \in Nat BY <1>i, UsersCount
    <3>2. ~InHand(d)' /\ Faulting(d)' = Faulting(d) BY <1>1, <1>u DEF InHand, Faulting
    <3>3. d # c => ~InHand(d) BY <1>p DEF InHand
    <3> QED BY <3>1, <3>2, <3>3, <2>4, <1>1, <1>a, <1>p, <1>u DEF Users
  <2>7. ASSUME NEW d \in Contexts
        PROVE  d \notin scheduled' => refs'[d] = Users(d)'
    <3>1. jobs[d] \in Nat /\ held[d] \in Nat BY <1>i, UsersCount
    <3>2. ~InHand(d)' /\ Faulting(d)' = Faulting(d) BY <1>1, <1>u DEF InHand, Faulting
    <3>3. d # c => ~InHand(d) BY <1>p DEF InHand
    <3> QED BY <3>1, <3>2, <3>3, <2>1, <2>4, <1>1, <1>a, <1>p, <1>u DEF Users
  <2>8. RefsBalance' BY <2>5, <2>6, <2>7, BalanceNext
  <2>9. OwnSpace'
    <3>1. \A d \in Contexts : refs'[d] > 0 => asNr[d] \in Spaces \ free'
      BY <2>3, <2>4, <1>n, <1>i DEF OwnSpace
    <3>2. \A i \in Spaces \ free' : toKctx[i] # NoCtx /\ refs'[toKctx[i]] > 0
      <4> TAKE i \in Spaces \ free'
      <4>1. i \in Spaces \ free /\ i # asNr[c] BY <2>3
      <4>2. toKctx[i] # NoCtx /\ refs[toKctx[i]] > 0 /\ asNr[toKctx[i]] = i
        BY <4>1, <1>i DEF OwnSpace
      <4>3. toKctx[i] \in Contexts BY <4>2, <4>1, <1>i DEF TypeOK
      <4> QED BY <4>1, <4>2, <4>3, <2>4
    <3> QED BY <3>1, <3>2, <1>i, <1>u DEF OwnSpace
  <2>10. SubmitMeansScheduled'
    <3> SUFFICES ASSUME NEW i \in submit
                 PROVE  toKctx[i] \in scheduled /\ refs'[toKctx[i]] > 0
      BY <1>1, <1>u DEF SubmitMeansScheduled
    <3>1. toKctx[i] \in scheduled /\ refs[toKctx[i]] > 0 /\ toKctx[i] \in Contexts
      BY <1>i DEF SubmitMeansScheduled, TypeOK
    <3> QED BY <3>1, <2>4, <1>p
  <2>11. OutMeansUnused' BY <1>i, <1>u, <1>1, <1>p, <2>1 DEF OutMeansUnused, Faulting
  <2>12. InTransaction' BY <1>1 DEF InTransaction
  <2> QED BY <1>k, <2>5, <2>8, <2>9, <2>10, <2>11, <2>12 DEF IInv
<1>2. CASE /\ scheduled' = scheduled \cup {c} /\ submit' = submit \cup {asNr[c]}
           /\ sched' = NoSched /\ UNCHANGED <<refs, free>>
  <2>1. TypeOK' BY <1>i, <1>u, <1>2, <1>o, <1>p DEF TypeOK
  <2>2. ASSUME NEW d \in Contexts
        PROVE  Users(d)' = IF d = c THEN Users(d) - 1 ELSE Users(d)
    <3>1. jobs[d] \in Nat /\ held[d] \in Nat BY <1>i, UsersCount
    <3>2. ~InHand(d)' /\ Faulting(d)' = Faulting(d) BY <1>2, <1>u DEF InHand, Faulting
    <3>3. CASE d = c BY <3>1, <3>2, <3>3, <1>b, <1>u DEF Users
    <3>4. CASE d # c
      <4>1. ~InHand(d) BY <3>4, <1>p DEF InHand
      <4> QED BY <3>1, <3>2, <3>4, <4>1, <1>u DEF Users
    <3> QED BY <3>3, <3>4
  <2>3. RefsBalance' BY <2>1, <2>2, <1>2, <1>a, <1>p, BalanceNext
  <2>4. OwnSpace' BY <1>i, <1>u, <1>2 DEF OwnSpace
  <2>5. SubmitMeansScheduled' BY <1>i, <1>u, <1>2, <1>o, <1>a, <1>b, <1>p DEF SubmitMeansScheduled
  <2>6. OutMeansUnused' BY <1>i, <1>u, <1>2, <1>p DEF OutMeansUnused, Faulting
  <2>7. InTransaction' BY <1>2 DEF InTransaction
  <2> QED BY <1>k, <2>1, <2>3, <2>4, <2>5, <2>6, <2>7 DEF IInv
<1>3. CASE /\ scheduled' = scheduled \cup {c} /\ submit' = submit \ {asNr[c]}
           /\ refs' = [refs EXCEPT ![c] = @ + 1] /\ free' = free
           /\ sched' = [sched EXCEPT !.pc = "leave"]
  <2>s. /\ sched'.pc = "leave" /\ sched'.ctx = c
        /\ sched' \in [pc : {"idle", "retain", "find", "evict", "again", "commit", "leave"},
                       ctx : live \cup {NoCtx}, victim : Contexts \cup {NoCtx}, i : Nat]
    BY <1>3, <1>i DEF TypeOK
  <2>r. /\ \A d \in Contexts : refs'[d] = IF d = c THEN refs[d] + 1 ELSE refs[d]
        /\ refs' \in [Contexts -> Nat]
    BY <1>3, <1>t, <1>p
  <2>1. TypeOK' BY <1>i, <1>u, <1>3, <1>p, <2>s, <2>r DEF TypeOK
  <2>2. ASSUME NEW d \in Contexts PROVE Users(d)' = Users(d)
    <3>1. jobs[d] \in Nat /\ held[d] \in Nat BY <1>i, UsersCount
    <3>2. InHand(d)' = InHand(d) /\ Faulting(d)' = Faulting(d)
      BY <2>s, <1>p, <1>u DEF InHand, Faulting
    <3> QED BY <3>1, <3>2, <1>u DEF Users
  <2>3. RefsBalance' BY <2>1, <2>2, <2>r, <1>3, <1>a, <1>p, BalanceNext
  <2>4. \A d \in Contexts : refs'[d] > 0 <=> refs[d] > 0 BY <2>r, <1>a, <1>b, <1>p
  <2>5. OwnSpace' /\ SubmitMeansScheduled'
    <3>1. \A i \in Spaces : toKctx[i] # NoCtx => toKctx[i] \in Contexts BY <1>i DEF TypeOK
    <3>2. \A i \in submit : toKctx[i] \in scheduled => toKctx[i] \in Contexts BY <1>i DEF TypeOK
    <3> QED BY <3>1, <3>2, <2>4, <1>i, <1>u, <1>3 DEF OwnSpace, SubmitMeansScheduled
  <2>6. OutMeansUnused' BY <1>i, <1>u, <1>3, <1>p DEF OutMeansUnused, Faulting
  <2>7. InTransaction' BY <2>s, <1>3, <1>p, <1>u DEF InTransaction
  <2> QED BY <1>k, <2>1, <2>3, <2>5, <2>6, <2>7 DEF IInv
<1> QED BY <1>1, <1>2, <1>3 DEF Commit

(* A context without a reference gets its space back, if nobody has taken  *)
(* it, or the first free one, which is programmed.                         *)
LEMMA SchedRetainStep ==
    ASSUME IInv, SchedRetain
    PROVE  IInv'
<1> DEFINE c == sched.ctx
<1>i. TypeOK /\ OwnSpace /\ RefsBalance /\ OutMeansUnused /\ InTransaction
      /\ NoneDiesMeanwhile /\ FaultsKnown /\ SubmitMeansScheduled /\ TablesLoaded
  BY DEF IInv
<1>p. /\ sched.pc \in {"retain", "again"} /\ c \in live /\ c \in Contexts /\ c \notin scheduled
      /\ \A d \in Contexts : ~InHand(d)
  BY <1>i DEF SchedRetain, InTransaction, TypeOK, InHand
<1>t. refs \in [Contexts -> Nat] BY <1>i DEF TypeOK
<1>u. UNCHANGED <<live, dying, scheduled, submit, jobs, held, fault, power, suspend>>
  BY DEF SchedRetain
<1>a. \A d \in Contexts : /\ refs[d] \in Nat /\ Users(d) \in Nat
                          /\ jobs[d] \in Nat /\ held[d] \in Nat
                          /\ d \in scheduled => refs[d] = Users(d) + 1
                          /\ d \notin scheduled => refs[d] = Users(d)
  BY <1>i, Balance, UsersCount
<1>z. refs[c] = 0 /\ jobs[c] = 0 /\ held[c] = 0 /\ ~Faulting(c)
  <2>1. ~(refs[c] > 0) BY <1>p, RetainedIsScheduled
  <2>2. Users(c) = 0 BY <2>1, <1>a, <1>p
  <2> QED BY <2>1, <2>2, <1>a, <1>i, <1>p, UsersCount
<1>n. NoneDiesMeanwhile' BY <1>i, <1>u DEF NoneDiesMeanwhile, Suspending
<1>1. CASE RetainFails(c) /\ sched.pc = "retain" /\ sched' = [sched EXCEPT !.pc = "find"]
           /\ UNCHANGED <<schedVars, hwVars>>
  <2>s. /\ sched'.pc = "find" /\ sched'.ctx = c
        /\ sched' \in [pc : {"idle", "retain", "find", "evict", "again", "commit", "leave"},
                       ctx : live \cup {NoCtx}, victim : Contexts \cup {NoCtx}, i : Nat]
    BY <1>1, <1>i DEF TypeOK
  <2>1. TypeOK' BY <1>i, <1>u, <1>1, <2>s DEF TypeOK
  <2>2. OwnSpace' /\ SubmitMeansScheduled' /\ FaultsKnown' /\ TablesLoaded'
    BY <1>i, <1>u, <1>1 DEF OwnSpace, SubmitMeansScheduled, FaultsKnown, TablesLoaded
  <2>3. OutMeansUnused'
    BY <1>i, <1>p, <1>u, <1>1 DEF OutMeansUnused, Faulting
  <2>4. RefsBalance'
    <3>1. \A d \in Contexts : ~InHand(d)' BY <2>s DEF InHand
    <3> QED BY <1>i, <1>p, <1>u, <1>1, <3>1 DEF RefsBalance, Faulting
  <2>5. asNr[c] = Invalid
    BY <1>1, <1>z, <1>p, <1>i DEF RetainFails, OwnSpace, TypeOK
  <2>6. InTransaction' BY <1>p, <1>u, <1>1, <2>s, <2>5 DEF InTransaction
  <2> QED BY <1>n, <2>1, <2>2, <2>3, <2>4, <2>6 DEF IInv
<1>2. CASE RetainGot(c) /\ ~RetainFails(c) /\ sched' = [sched EXCEPT !.pc = "commit"]
  <2>s. /\ sched'.pc = "commit" /\ sched'.ctx = c
        /\ sched' \in [pc : {"idle", "retain", "find", "evict", "again", "commit", "leave"},
                       ctx : live \cup {NoCtx}, victim : Contexts \cup {NoCtx}, i : Nat]
    BY <1>2, <1>i DEF TypeOK
  <2>h. \A d \in Contexts : InHand(d)' <=> d = c BY <2>s DEF InHand
  <2>r. /\ \A d \in Contexts : refs'[d] = IF d = c THEN 1 ELSE refs[d]
        /\ refs' \in [Contexts -> Nat]
    BY <1>2, <1>t, <1>p, <1>z DEF RetainGot
  <2>g. InTransaction' BY <2>s, <1>u, <1>p DEF InTransaction
  <2>1. CASE asNr[c] \in free /\ free' = free \ {asNr[c]} /\ UNCHANGED <<asNr, toKctx, hwVars>>
    <3>1. TypeOK' BY <1>i, <1>u, <2>1, <2>s, <2>r DEF TypeOK
    <3>2. asNr[c] \in Spaces /\ toKctx[asNr[c]] = c BY <2>1, <1>p, <1>i DEF TypeOK, OwnSpace
    <3>3. \A d \in Contexts : asNr[d] = asNr[c] => d = c
      BY <3>2, <1>p, <1>i DEF OwnSpace
    <3>4. OwnSpace'
      <4>1. \A d \in Contexts : refs'[d] > 0 => asNr[d] \in Spaces \ free'
        BY <2>1, <2>r, <3>2, <3>3, <1>i DEF OwnSpace
      <4>2. \A i \in Spaces \ free' : toKctx[i] # NoCtx /\ refs'[toKctx[i]] > 0
        <5> TAKE i \in Spaces \ free'
        <5>1. CASE i = asNr[c] BY <5>1, <3>2, <2>r, <1>p
        <5>2. CASE i # asNr[c]
          <6>1. toKctx[i] # NoCtx /\ refs[toKctx[i]] > 0 /\ toKctx[i] \in Contexts
            BY <5>2, <2>1, <1>i DEF OwnSpace, TypeOK
          <6> QED BY <6>1, <2>r
        <5> QED BY <5>1, <5>2
      <4> QED BY <4>1, <4>2, <2>1, <1>i DEF OwnSpace
    <3>5. \A d \in Contexts : Faulting(d)' = Faulting(d) BY <2>1, <1>u DEF Faulting
    <3>6. SubmitMeansScheduled' /\ FaultsKnown' /\ TablesLoaded'
      <4>1. \A i \in submit : toKctx[i] \in scheduled => toKctx[i] \in Contexts /\ toKctx[i] # c
        BY <1>i, <1>p DEF TypeOK
      <4> QED BY <4>1, <1>i, <1>u, <2>1, <2>r DEF SubmitMeansScheduled, FaultsKnown, TablesLoaded
    <3>7. OutMeansUnused' BY <1>i, <1>p, <1>u, <1>z, <3>5 DEF OutMeansUnused
    <3>8. ASSUME NEW d \in Contexts PROVE Users(d)' = IF d = c THEN 1 ELSE Users(d)
      <4>1. ~InHand(d) BY <1>p
      <4>2. CASE d = c BY <4>2, <2>h, <3>5, <1>z, <1>u DEF Users
      <4>3. CASE d # c BY <4>1, <4>3, <2>h, <3>5, <1>a, <1>u DEF Users
      <4> QED BY <4>2, <4>3
    <3>9. RefsBalance' BY <3>1, <3>8, <2>r, <1>a, <1>u, <1>p, BalanceNext
    <3> QED BY <1>n, <2>g, <3>1, <3>4, <3>6, <3>7, <3>9 DEF IInv
  <2>2. CASE \E i \in free : asNr[c] \notin free /\ free' = free \ {i} /\ TakeSpace(c, i)
    <3> PICK i \in free : asNr[c] \notin free /\ free' = free \ {i} /\ TakeSpace(c, i) BY <2>2
    <3>i. i \in Spaces /\ i # Invalid BY <1>i DEF TypeOK
    <3>e. \A d \in Contexts : asNr'[d] = IF d = c THEN i
                                         ELSE IF d = toKctx[i] THEN Invalid ELSE asNr[d]
      BY DEF TakeSpace
    <3>f. \A j \in Spaces : /\ toKctx'[j] = IF j = i THEN c ELSE toKctx[j]
                            /\ hw'[j] = IF j = i THEN c ELSE hw[j]
      BY <1>i DEF TakeSpace, TypeOK
    <3>k. killed' = killed \ {c} BY DEF TakeSpace
    <3>1. TypeOK'
      <4>1. asNr' \in [Contexts -> Spaces \cup {Invalid}] BY <3>i, <1>i DEF TakeSpace, TypeOK
      <4>2. /\ toKctx' \in [Spaces -> Contexts \cup {NoCtx}]
            /\ setup' \in [Spaces -> Contexts \cup {NoCtx}]
            /\ hw' \in [Spaces -> Contexts \cup {NoCtx}] /\ killed' \subseteq Contexts
        BY <1>i, <1>p DEF TakeSpace, TypeOK
      <4> QED BY <4>1, <4>2, <1>i, <1>u, <2>s, <2>r DEF TypeOK
    <3>x. asNr[c] = Invalid
      BY <1>z, <1>p, <1>i DEF OwnSpace, TypeOK
    <3>y. \A d \in Contexts : d = toKctx[i] => refs[d] = 0 /\ asNr[d] = i
      <4> TAKE d \in Contexts
      <4>1. d = toKctx[i] => d # NoCtx /\ asNr[d] = i BY <3>i, <1>i DEF OwnSpace
      <4>2. d = toKctx[i] => ~(refs[d] > 0) BY <4>1, <1>i DEF OwnSpace
      <4> QED BY <4>1, <4>2, <1>a
    <3>w. fault[i] = NoFault
      <4> SUFFICES ASSUME fault[i] # NoFault PROVE FALSE OBVIOUS
      <4>1. toKctx[i] \in Contexts BY <3>i, <1>i DEF FaultsKnown, TypeOK
      <4>2. asNr[toKctx[i]] = i BY <4>1, <3>y
      <4>3. Faulting(toKctx[i]) BY <4>2, <3>i DEF Faulting
      <4>4. Users(toKctx[i]) # 0 BY <4>1, <4>3, <1>i, UsersCount
      <4> QED BY <4>1, <4>4, <3>y, <1>a
    <3>4. OwnSpace'
      <4>1. \A d \in Contexts : refs'[d] > 0 => asNr'[d] \in Spaces \ free'
        BY <3>e, <3>y, <3>i, <2>r, <1>i DEF OwnSpace
      <4>2. \A d \in Contexts : asNr'[d] # Invalid => toKctx'[asNr'[d]] = d
        <5> TAKE d \in Contexts
        <5>1. CASE d = c BY <5>1, <3>e, <3>f, <3>i
        <5>2. CASE d # c /\ d # toKctx[i] /\ asNr[d] # Invalid
          <6>1. asNr[d] \in Spaces /\ toKctx[asNr[d]] = d /\ asNr'[d] = asNr[d]
            BY <5>2, <3>e, <1>i DEF OwnSpace, TypeOK
          <6> QED BY <6>1, <5>2, <3>f
        <5> QED BY <5>1, <5>2, <3>e
      <4>3. \A j \in Spaces : toKctx'[j] # NoCtx => asNr'[toKctx'[j]] = j
        <5> TAKE j \in Spaces
        <5>1. CASE j = i BY <5>1, <3>e, <3>f, <1>p
        <5>2. CASE j # i /\ toKctx[j] # NoCtx
          <6>1. toKctx[j] \in Contexts /\ asNr[toKctx[j]] = j /\ toKctx'[j] = toKctx[j]
            BY <5>2, <3>f, <1>i DEF OwnSpace, TypeOK
          <6>2. toKctx[j] # c BY <6>1, <3>x
          <6>3. toKctx[j] # toKctx[i] BY <6>1, <3>y, <5>2
          <6> QED BY <6>1, <6>2, <6>3, <3>e
        <5> QED BY <5>1, <5>2, <3>f
      <4>4. \A j \in Spaces \ free' : toKctx'[j] # NoCtx /\ refs'[toKctx'[j]] > 0
        <5> TAKE j \in Spaces \ free'
        <5>1. CASE j = i BY <5>1, <3>f, <2>r, <1>p
        <5>2. CASE j # i
          <6>1. toKctx[j] # NoCtx /\ refs[toKctx[j]] > 0 /\ toKctx[j] \in Contexts
            BY <5>2, <1>i DEF OwnSpace, TypeOK
          <6> QED BY <6>1, <5>2, <3>f, <2>r
        <5> QED BY <5>1, <5>2
      <4> QED BY <4>1, <4>2, <4>3, <4>4 DEF OwnSpace
    <3>5. \A d \in Contexts : Faulting(d)' <=> Faulting(d)
      BY <3>e, <3>w, <3>x, <3>y, <3>i, <1>u DEF Faulting
    <3>6. SubmitMeansScheduled'
      <4> SUFFICES ASSUME NEW j \in submit
                   PROVE  toKctx'[j] \in scheduled /\ refs'[toKctx'[j]] > 0
        BY <1>u DEF SubmitMeansScheduled
      <4>1. j \in Spaces /\ toKctx[j] \in scheduled /\ refs[toKctx[j]] > 0 /\ toKctx[j] \in Contexts
        BY <1>i DEF SubmitMeansScheduled, TypeOK
      <4>2. j # i BY <4>1, <3>y
      <4> QED BY <4>1, <4>2, <3>f, <2>r
    <3>7. FaultsKnown' BY <1>i, <1>u, <3>f, <3>w DEF FaultsKnown
    <3>8. TablesLoaded'
      <4> SUFFICES ASSUME power = "on", NEW d \in Contexts, asNr'[d] # Invalid
                   PROVE  hw'[asNr'[d]] = d \/ (hw'[asNr'[d]] = NoCtx /\ d \in killed')
        BY <1>u DEF TablesLoaded
      <4>1. CASE d = c BY <4>1, <3>e, <3>f, <3>i
      <4>2. CASE d # c
        <5>1. asNr'[d] = asNr[d] /\ asNr[d] # Invalid /\ asNr[d] \in Spaces /\ d # toKctx[i]
          BY <4>2, <3>e, <1>i DEF TypeOK
        <5>2. asNr[d] # i BY <5>1, <1>i DEF OwnSpace
        <5> QED BY <5>1, <5>2, <4>2, <3>f, <3>k, <1>i DEF TablesLoaded
      <4> QED BY <4>1, <4>2
    <3>9. OutMeansUnused' BY <1>i, <1>p, <1>u, <1>z, <3>5 DEF OutMeansUnused
    <3>10. ASSUME NEW d \in Contexts PROVE Users(d)' = IF d = c THEN 1 ELSE Users(d)
      <4>1. ~InHand(d) BY <1>p
      <4>2. CASE d = c BY <4>2, <2>h, <3>5, <1>z, <1>u DEF Users
      <4>3. CASE d # c BY <4>1, <4>3, <2>h, <3>5, <1>a, <1>u DEF Users
      <4> QED BY <4>2, <4>3
    <3>11. RefsBalance' BY <3>1, <3>10, <2>r, <1>a, <1>u, <1>p, BalanceNext
    <3> QED BY <1>n, <2>g, <3>1, <3>4, <3>6, <3>7, <3>8, <3>9, <3>11 DEF IInv
  <2> QED BY <2>1, <2>2, <1>2, <1>z DEF RetainGot
<1> QED BY <1>1, <1>2 DEF SchedRetain

-----------------------------------------------------------------------------
(* Steps that leave the references as they are.                            *)

(* Only spaces of contexts without a reference are given up.               *)
LEMMA RestoreStep ==
    ASSUME IInv, Restore
    PROVE  IInv'
<1>i. TypeOK /\ OwnSpace /\ RefsBalance /\ OutMeansUnused /\ InTransaction
      /\ NoneDiesMeanwhile /\ FaultsKnown /\ SubmitMeansScheduled
  BY DEF IInv
<1>u. UNCHANGED <<live, dying, scheduled, refs, free, submit, jobs, held, fault, sched, suspend>>
  BY DEF Restore
<1>a. \A d \in Contexts : /\ refs[d] \in Nat /\ Users(d) \in Nat
                          /\ d \in scheduled => refs[d] = Users(d) + 1
                          /\ d \notin scheduled => refs[d] = Users(d)
                          /\ Users(d) = 0 => ~Faulting(d)
  BY <1>i, Balance, UsersCount
<1>e. \A d \in Contexts : asNr'[d] = IF refs[d] = 0 THEN Invalid ELSE asNr[d]
  BY DEF Restore, RestoreAll
<1>f. \A i \in Spaces :
         IF toKctx[i] # NoCtx /\ refs[toKctx[i]] = 0
         THEN toKctx'[i] = NoCtx /\ hw'[i] = hw[i]
         ELSE toKctx'[i] = toKctx[i] /\ hw'[i] = toKctx[i]
  BY DEF Restore, RestoreAll
<1>m. \A i \in Spaces : toKctx[i] # NoCtx => toKctx[i] \in Contexts /\ asNr[toKctx[i]] = i
  BY <1>i DEF TypeOK, OwnSpace
<1>n. \A d \in Contexts : asNr[d] # Invalid => asNr[d] \in Spaces /\ toKctx[asNr[d]] = d /\ d # NoCtx
  BY <1>i DEF TypeOK, OwnSpace
<1>1. TypeOK'
  <2>1. /\ asNr' \in [Contexts -> Spaces \cup {Invalid}] /\ killed' \subseteq Contexts
        /\ toKctx' \in [Spaces -> Contexts \cup {NoCtx}]
        /\ setup' \in [Spaces -> Contexts \cup {NoCtx}]
        /\ hw' \in [Spaces -> Contexts \cup {NoCtx}]
    BY <1>i DEF Restore, RestoreAll, TypeOK
  <2> QED BY <2>1, <1>i, <1>u DEF TypeOK, Restore
<1>2. OwnSpace'
  <2>1. \A d \in Contexts : refs'[d] > 0 => asNr'[d] \in Spaces \ free'
    BY <1>e, <1>u, <1>i DEF OwnSpace
  <2>2. \A d \in Contexts : asNr'[d] # Invalid => toKctx'[asNr'[d]] = d
    BY <1>e, <1>f, <1>n
  <2>3. \A i \in Spaces : toKctx'[i] # NoCtx => asNr'[toKctx'[i]] = i
    BY <1>e, <1>f, <1>m
  <2>4. \A i \in Spaces \ free' : toKctx'[i] # NoCtx /\ refs'[toKctx'[i]] > 0
    BY <1>f, <1>u, <1>i DEF OwnSpace
  <2> QED BY <2>1, <2>2, <2>3, <2>4 DEF OwnSpace
<1>3. \A d \in Contexts : Faulting(d)' <=> Faulting(d)
  <2> TAKE d \in Contexts
  <2>1. CASE refs[d] = 0
    <3>1. ~Faulting(d) BY <2>1, <1>a
    <3>2. ~Faulting(d)' BY <2>1, <1>e DEF Faulting
    <3> QED BY <3>1, <3>2
  <2>2. CASE refs[d] # 0 BY <2>2, <1>e, <1>u DEF Faulting
  <2> QED BY <2>1, <2>2
<1>4. RefsBalance'
  <2>1. ASSUME NEW d \in Contexts PROVE Users(d)' = Users(d)
    <3>1. jobs[d] \in Nat /\ held[d] \in Nat BY <1>i, UsersCount
    <3>2. InHand(d)' = InHand(d) BY <1>u DEF InHand
    <3> QED BY <3>1, <3>2, <1>3, <1>u DEF Users
  <2> QED BY <2>1, <1>1, <1>a, <1>u, BalanceNext
<1>5. OutMeansUnused' BY <1>i, <1>u, <1>3 DEF OutMeansUnused
<1>6. InTransaction'
  <2>1. sched.ctx # NoCtx => sched.ctx \in Contexts BY <1>i DEF TypeOK
  <2>2. sched.pc \in {"find", "evict"} => asNr'[sched.ctx] = Invalid
    BY <1>i, <1>e DEF InTransaction, TypeOK
  <2> QED BY <2>2, <1>i, <1>u DEF InTransaction
<1>7. NoneDiesMeanwhile' BY <1>i, <1>u DEF NoneDiesMeanwhile, Suspending
<1>8. SubmitMeansScheduled'
  <2> SUFFICES ASSUME NEW i \in submit
               PROVE  toKctx'[i] \in scheduled /\ refs[toKctx'[i]] > 0
    BY <1>u DEF SubmitMeansScheduled
  <2>1. i \in Spaces /\ toKctx[i] \in scheduled /\ refs[toKctx[i]] > 0
    BY <1>i DEF SubmitMeansScheduled, TypeOK
  <2> QED BY <2>1, <1>f
<1>9. FaultsKnown'
  <2> SUFFICES ASSUME NEW i \in Spaces, fault[i] # NoFault
               PROVE  fault[i].ctx = toKctx'[i] /\ toKctx'[i] # NoCtx
    BY <1>u DEF FaultsKnown
  <2>1. fault[i].ctx = toKctx[i] /\ toKctx[i] # NoCtx BY <1>i DEF FaultsKnown
  <2>2. Faulting(toKctx[i]) BY <2>1, <1>m DEF Faulting
  <2>3. refs[toKctx[i]] # 0 BY <2>1, <2>2, <1>m, <1>a
  <2> QED BY <2>1, <2>3, <1>f
<1>10. TablesLoaded'
  <2> SUFFICES ASSUME NEW d \in Contexts, asNr'[d] # Invalid PROVE hw'[asNr'[d]] = d
    BY DEF TablesLoaded
  <2> QED BY <1>e, <1>f, <1>n
<1> QED BY <1>1, <1>2, <1>4, <1>5, <1>6, <1>7, <1>8, <1>9, <1>10 DEF IInv

(* A context that goes has no reference, hence no fault and no say on its  *)
(* former space.                                                           *)
LEMMA DestroyStep ==
    ASSUME IInv, NEW c \in Contexts, Destroy(c)
    PROVE  IInv'
<1>i. TypeOK /\ OwnSpace /\ RefsBalance /\ OutMeansUnused /\ InTransaction
      /\ NoneDiesMeanwhile /\ FaultsKnown /\ SubmitMeansScheduled /\ TablesLoaded
  BY DEF IInv
<1>u. UNCHANGED <<scheduled, refs, free, submit, jobs, held, fault, sched, power, suspend>>
  BY DEF Destroy
<1>a. \A d \in Contexts : /\ refs[d] \in Nat /\ Users(d) \in Nat
                          /\ d \in scheduled => refs[d] = Users(d) + 1
                          /\ d \notin scheduled => refs[d] = Users(d)
  BY <1>i, Balance, UsersCount
<1>c. /\ c \notin scheduled /\ jobs[c] = 0 /\ held[c] = 0 /\ sched.ctx # c /\ c \in dying
      /\ live' = live \ {c} /\ dying' = dying \ {c} /\ killed' = killed \ {c}
  BY DEF Destroy, Unused
<1>z. refs[c] = 0 /\ ~Faulting(c) /\ ~InHand(c)
  <2>1. ~InHand(c) BY <1>c, <1>i DEF InHand, InTransaction
  <2>2. ~(refs[c] > 0) BY <2>1, <1>c, RetainedIsScheduled
  <2> QED BY <2>1, <2>2, <1>a, <1>c, <1>i DEF OutMeansUnused
<1>e. \A d \in Contexts : asNr'[d] = IF d = c THEN Invalid ELSE asNr[d]
  BY <1>i DEF Destroy, TypeOK
<1>m. \A i \in Spaces : toKctx[i] # NoCtx => toKctx[i] \in Contexts /\ asNr[toKctx[i]] = i
  BY <1>i DEF TypeOK, OwnSpace
<1>f. \A i \in Spaces : toKctx'[i] = IF toKctx[i] = c THEN NoCtx ELSE toKctx[i]
  BY <1>i, <1>m, SMTT(30) DEF Destroy, TypeOK, OwnSpace
<1>h. \A i \in Spaces : i # asNr[c] => hw'[i] = hw[i]
  BY <1>i DEF Destroy, TypeOK
<1>1. TypeOK'
  <2>1. /\ asNr' \in [Contexts -> Spaces \cup {Invalid}]
        /\ toKctx' \in [Spaces -> Contexts \cup {NoCtx}]
        /\ setup' \in [Spaces -> Contexts \cup {NoCtx}]
        /\ hw' \in [Spaces -> Contexts \cup {NoCtx}]
    BY <1>i DEF Destroy, TypeOK
  <2>2. sched' \in [pc : {"idle", "retain", "find", "evict", "again", "commit", "leave"},
                    ctx : live' \cup {NoCtx}, victim : Contexts \cup {NoCtx}, i : Nat]
    BY <1>i, <1>c, <1>u DEF TypeOK
  <2> QED BY <2>1, <2>2, <1>i, <1>u, <1>c DEF TypeOK
<1>2. OwnSpace'
  <2>1. \A d \in Contexts : refs'[d] > 0 => asNr'[d] \in Spaces \ free'
    BY <1>e, <1>u, <1>z, <1>i DEF OwnSpace
  <2>2. \A d \in Contexts : asNr'[d] # Invalid => toKctx'[asNr'[d]] = d
    BY <1>e, <1>f, <1>i, SMTT(30) DEF OwnSpace, TypeOK
  <2>3. \A i \in Spaces : toKctx'[i] # NoCtx => asNr'[toKctx'[i]] = i
    BY <1>e, <1>f, <1>m
  <2>4. \A i \in Spaces \ free' : toKctx'[i] # NoCtx /\ refs'[toKctx'[i]] > 0
    <3> TAKE i \in Spaces \ free'
    <3>1. toKctx[i] # NoCtx /\ refs[toKctx[i]] > 0 BY <1>u, <1>i DEF OwnSpace
    <3>2. toKctx[i] # c BY <3>1, <1>z
    <3> QED BY <3>1, <3>2, <1>f, <1>u
  <2> QED BY <2>1, <2>2, <2>3, <2>4 DEF OwnSpace
<1>3. \A d \in Contexts : Faulting(d)' <=> Faulting(d)
  BY <1>e, <1>u, <1>z DEF Faulting
<1>4. RefsBalance'
  <2>1. ASSUME NEW d \in Contexts PROVE Users(d)' = Users(d)
    <3>1. jobs[d] \in Nat /\ held[d] \in Nat BY <1>i, UsersCount
    <3>2. InHand(d)' = InHand(d) BY <1>u DEF InHand
    <3> QED BY <3>1, <3>2, <1>3, <1>u DEF Users
  <2> QED BY <2>1, <1>1, <1>a, <1>u, BalanceNext
<1>5. OutMeansUnused' BY <1>i, <1>u, <1>c, <1>3 DEF OutMeansUnused
<1>6. InTransaction'
  <2>1. sched.pc # "idle" => sched.ctx \in live \ {c} /\ sched.ctx \in Contexts
    BY <1>i, <1>c DEF InTransaction, TypeOK
  <2> QED BY <2>1, <1>i, <1>u, <1>c, <1>e DEF InTransaction
<1>7. NoneDiesMeanwhile' BY <1>i, <1>u, <1>c DEF NoneDiesMeanwhile, Suspending
<1>8. SubmitMeansScheduled'
  <2> SUFFICES ASSUME NEW i \in submit
               PROVE  toKctx'[i] \in scheduled /\ refs[toKctx'[i]] > 0
    BY <1>u DEF SubmitMeansScheduled
  <2>1. i \in Spaces /\ toKctx[i] \in scheduled /\ refs[toKctx[i]] > 0
    BY <1>i DEF SubmitMeansScheduled, TypeOK
  <2> QED BY <2>1, <1>f, <1>c
<1>9. FaultsKnown'
  <2> SUFFICES ASSUME NEW i \in Spaces, fault[i] # NoFault
               PROVE  fault[i].ctx = toKctx'[i] /\ toKctx'[i] # NoCtx
    BY <1>u DEF FaultsKnown
  <2>1. fault[i].ctx = toKctx[i] /\ toKctx[i] # NoCtx BY <1>i DEF FaultsKnown
  <2>2. Faulting(toKctx[i]) BY <2>1, <1>m DEF Faulting
  <2>3. toKctx[i] # c BY <2>2, <1>z
  <2> QED BY <2>1, <2>3, <1>f
<1>10. TablesLoaded'
  <2> SUFFICES ASSUME power = "on", NEW d \in Contexts, asNr'[d] # Invalid
               PROVE  hw'[asNr'[d]] = d \/ (hw'[asNr'[d]] = NoCtx /\ d \in killed')
    BY <1>u DEF TablesLoaded
  <2>1. d # c /\ asNr'[d] = asNr[d] /\ asNr[d] \in Spaces BY <1>e, <1>i DEF TypeOK
  <2>2. asNr[d] # asNr[c] BY <2>1, <1>i DEF OwnSpace
  <2> QED BY <2>1, <2>2, <1>h, <1>c, <1>i DEF TablesLoaded
<1> QED BY <1>1, <1>2, <1>4, <1>5, <1>6, <1>7, <1>8, <1>9, <1>10 DEF IInv

LEMMA FaultGrowStep ==
    ASSUME IInv, NEW i \in Spaces, FaultGrow(i)
    PROVE  IInv'
<1>i. TypeOK /\ OwnSpace /\ RefsBalance /\ OutMeansUnused /\ InTransaction
      /\ NoneDiesMeanwhile /\ FaultsKnown /\ SubmitMeansScheduled /\ TablesLoaded
  BY DEF IInv
<1>u. UNCHANGED <<live, dying, scheduled, refs, asNr, toKctx, free, submit, jobs, held, sched,
                  power, suspend, setup, hw, killed>>
  BY DEF FaultGrow
<1>f. /\ fault' \in [Spaces -> [ctx : Contexts \cup {NoCtx}, done : BOOLEAN]]
      /\ \A j \in Spaces : fault'[j].ctx = fault[j].ctx /\ (j # i => fault'[j] = fault[j])
      /\ fault'[i] # NoFault /\ fault[i] # NoFault
  <2>1. fault[i] \in [ctx : Contexts \cup {NoCtx}, done : BOOLEAN] BY <1>i DEF TypeOK
  <2>2. fault' = [fault EXCEPT ![i].done = TRUE] /\ fault[i] # NoFault BY DEF FaultGrow
  <2>3. fault'[i].done = TRUE BY <2>1, <2>2, <1>i DEF TypeOK
  <2> QED BY <2>1, <2>2, <2>3, <1>i DEF TypeOK
<1>1. TypeOK' BY <1>i, <1>u, <1>f DEF TypeOK
<1>3. ASSUME NEW d \in Contexts PROVE Faulting(d)' <=> Faulting(d)
  BY <1>f, <1>u DEF Faulting
<1>4. RefsBalance' BY <1>i, <1>u, <1>3 DEF RefsBalance, InHand
<1>5. OutMeansUnused' BY <1>i, <1>u, <1>3 DEF OutMeansUnused
<1>6. FaultsKnown' BY <1>i, <1>u, <1>f DEF FaultsKnown
<1>7. OwnSpace' /\ InTransaction' /\ NoneDiesMeanwhile' /\ SubmitMeansScheduled' /\ TablesLoaded'
  BY <1>i, <1>u DEF OwnSpace, InTransaction, NoneDiesMeanwhile, SubmitMeansScheduled,
                    TablesLoaded, Suspending
<1> QED BY <1>1, <1>4, <1>5, <1>6, <1>7 DEF IInv

LEMMA FaultKillStep ==
    ASSUME IInv, NEW i \in Spaces, FaultKill(i)
    PROVE  IInv'
<1>i. TypeOK /\ OwnSpace /\ RefsBalance /\ OutMeansUnused /\ InTransaction
      /\ NoneDiesMeanwhile /\ FaultsKnown /\ SubmitMeansScheduled /\ TablesLoaded
  BY DEF IInv
<1>u. UNCHANGED <<live, dying, scheduled, refs, asNr, toKctx, free, jobs, held, sched,
                  power, suspend>>
  BY DEF FaultKill
<1>c. toKctx[i] # NoCtx /\ toKctx[i] \in Contexts /\ asNr[toKctx[i]] = i
  BY <1>i DEF FaultKill, OwnSpace, TypeOK
<1>f. /\ fault' \in [Spaces -> [ctx : Contexts \cup {NoCtx}, done : BOOLEAN]]
      /\ \A j \in Spaces : fault'[j].ctx = fault[j].ctx /\ (j # i => fault'[j] = fault[j])
      /\ fault'[i] # NoFault /\ fault[i] # NoFault
  <2>1. fault[i] \in [ctx : Contexts \cup {NoCtx}, done : BOOLEAN] BY <1>i DEF TypeOK
  <2>2. fault' = [fault EXCEPT ![i].done = TRUE] /\ fault[i] # NoFault BY DEF FaultKill
  <2>3. fault'[i].done = TRUE BY <2>1, <2>2, <1>i DEF TypeOK
  <2> QED BY <2>1, <2>2, <2>3, <1>i DEF TypeOK
<1>h. /\ submit' = submit \ {i} /\ setup' = [setup EXCEPT ![i] = NoCtx]
      /\ hw' = [hw EXCEPT ![i] = NoCtx] /\ killed' = killed \cup {toKctx[i]}
  BY <1>c DEF FaultKill
<1>1. TypeOK' BY <1>i, <1>u, <1>f, <1>h, <1>c DEF TypeOK
<1>3. ASSUME NEW d \in Contexts PROVE Faulting(d)' <=> Faulting(d)
  BY <1>f, <1>u DEF Faulting
<1>4. RefsBalance' BY <1>i, <1>u, <1>3 DEF RefsBalance, InHand
<1>5. OutMeansUnused' BY <1>i, <1>u, <1>3 DEF OutMeansUnused
<1>6. FaultsKnown' BY <1>i, <1>u, <1>f DEF FaultsKnown
<1>7. OwnSpace' /\ InTransaction' /\ NoneDiesMeanwhile' /\ SubmitMeansScheduled'
  BY <1>i, <1>u, <1>h DEF OwnSpace, InTransaction, NoneDiesMeanwhile, SubmitMeansScheduled, Suspending
<1>8. TablesLoaded'
  <2> SUFFICES ASSUME power = "on", NEW d \in Contexts, asNr[d] # Invalid
               PROVE  hw'[asNr[d]] = d \/ (hw'[asNr[d]] = NoCtx /\ d \in killed')
    BY <1>u DEF TablesLoaded
  <2>1. asNr[d] \in Spaces /\ toKctx[asNr[d]] = d BY <1>i DEF TypeOK, OwnSpace
  <2>2. \A j \in Spaces : hw'[j] = IF j = i THEN NoCtx ELSE hw[j] BY <1>h, <1>i DEF TypeOK
  <2> QED BY <2>1, <2>2, <1>h, <1>i DEF TablesLoaded
<1> QED BY <1>1, <1>4, <1>5, <1>6, <1>7, <1>8 DEF IInv

(* Steps that touch neither references nor spaces.                         *)
LEMMA OtherStep ==
    ASSUME IInv,
           \/ \E c \in Contexts : SchedPick(c) \/ Create(c)
           \/ FindNone \/ SuspendBegin \/ Resume \/ PowerOff \/ PowerOn \/ Reset
    PROVE  IInv'
<1>i. TypeOK /\ OwnSpace /\ RefsBalance /\ OutMeansUnused /\ InTransaction
      /\ NoneDiesMeanwhile /\ FaultsKnown /\ SubmitMeansScheduled /\ TablesLoaded
  BY DEF IInv
<1>u. UNCHANGED <<dying, scheduled, refs, asNr, toKctx, free, submit, jobs, held, fault,
                  setup, killed>>
  BY DEF SchedPick, Create, FindNone, SuspendBegin, Resume, PowerOff, PowerOn, Reset
<1>h. /\ hw' \in [Spaces -> Contexts \cup {NoCtx}]
      /\ power' \in {"off", "booting", "on"}
      /\ power' = "on" => power = "on" /\ hw' = hw
  BY <1>i DEF SchedPick, Create, FindNone, SuspendBegin, Resume, PowerOff, PowerOn, Reset, TypeOK
<1>s. /\ live \subseteq live' /\ live' \subseteq Contexts
      /\ sched' = sched \/ sched' = NoSched
         \/ \E c \in live \ scheduled : sched' = [NoSched EXCEPT !.pc = "retain", !.ctx = c]
      /\ sched.pc \notin {"evict", "commit", "leave"} \/ sched' = sched
  BY <1>i DEF SchedPick, Create, FindNone, SuspendBegin, Resume, PowerOff, PowerOn, Reset, TypeOK,
              QueueFree
<1>p. suspend' \in {"no", "begun", "js"} /\ (suspend' = "no" \/ suspend' = suspend \/ dying = {})
  BY <1>i DEF SchedPick, Create, FindNone, SuspendBegin, Resume, PowerOff, PowerOn, Reset, TypeOK
<1>1. TypeOK'
  <2>1. sched' \in [pc : {"idle", "retain", "find", "evict", "again", "commit", "leave"},
                    ctx : live' \cup {NoCtx}, victim : Contexts \cup {NoCtx}, i : Nat]
    <3>1. CASE sched' = sched BY <3>1, <1>i, <1>s DEF TypeOK
    <3>2. CASE sched' = NoSched BY <3>2
    <3>3. CASE \E c \in live \ scheduled : sched' = [NoSched EXCEPT !.pc = "retain", !.ctx = c]
      <4> PICK c \in live \ scheduled : sched' = [NoSched EXCEPT !.pc = "retain", !.ctx = c]
        BY <3>3
      <4>1. sched' = [pc |-> "retain", ctx |-> c, victim |-> NoCtx, i |-> 0] OBVIOUS
      <4>2. c \in live' BY <1>s
      <4> QED BY <4>1, <4>2
    <3> QED BY <3>1, <3>2, <3>3, <1>s
  <2> QED BY <2>1, <1>i, <1>u, <1>h, <1>s, <1>p DEF TypeOK
<1>2. OwnSpace' /\ SubmitMeansScheduled' /\ FaultsKnown'
  BY <1>i, <1>u DEF OwnSpace, SubmitMeansScheduled, FaultsKnown
<1>r. \/ sched' = sched
      \/ sched' = NoSched
      \/ sched'.pc = "retain" /\ sched'.ctx \in live' \ scheduled'
  <2>1. ASSUME NEW c \in live \ scheduled, sched' = [NoSched EXCEPT !.pc = "retain", !.ctx = c]
        PROVE  sched'.pc = "retain" /\ sched'.ctx \in live' \ scheduled'
    <3>1. sched' = [pc |-> "retain", ctx |-> c, victim |-> NoCtx, i |-> 0] BY <2>1
    <3>2. c \in live' \ scheduled' BY <1>s, <1>u
    <3> QED BY <3>1, <3>2
  <2>2. CASE \E c \in live \ scheduled : sched' = [NoSched EXCEPT !.pc = "retain", !.ctx = c]
    <3> PICK c \in live \ scheduled : sched' = [NoSched EXCEPT !.pc = "retain", !.ctx = c]
      BY <2>2
    <3> QED BY <2>1
  <2>3. CASE sched' = sched \/ sched' = NoSched BY <2>3
  <2> QED BY <2>2, <2>3, <1>s
<1>3. ASSUME NEW d \in Contexts PROVE (InHand(d)' <=> InHand(d)) /\ (Faulting(d)' <=> Faulting(d))
  <2>1. Faulting(d)' <=> Faulting(d) BY <1>u DEF Faulting
  <2>2. CASE sched' = sched BY <2>1, <2>2 DEF InHand
  <2>3. CASE sched' # sched
    <3>1. sched'.pc \notin {"evict", "commit", "leave"} BY <2>3, <1>r
    <3>2. ~InHand(d) BY <2>3, <1>s DEF InHand
    <3>3. ~InHand(d)' BY <3>1 DEF InHand
    <3> QED BY <2>1, <3>2, <3>3
  <2> QED BY <2>2, <2>3
<1>4. RefsBalance' BY <1>i, <1>u, <1>3 DEF RefsBalance
<1>5. OutMeansUnused' BY <1>i, <1>u, <1>s, <1>3 DEF OutMeansUnused
<1>6. InTransaction'
  <2>1. CASE sched' = sched BY <2>1, <1>i, <1>u, <1>s DEF InTransaction
  <2>2. CASE sched' = NoSched
    <3>1. sched'.pc = "idle" BY <2>2
    <3> QED BY <3>1 DEF InTransaction
  <2>3. CASE sched'.pc = "retain" /\ sched'.ctx \in live' \ scheduled' BY <2>3 DEF InTransaction
  <2> QED BY <2>1, <2>2, <2>3, <1>r
<1>7. NoneDiesMeanwhile' BY <1>i, <1>u, <1>p DEF NoneDiesMeanwhile, Suspending
<1>8. TablesLoaded' BY <1>i, <1>u, <1>h DEF TablesLoaded
<1> QED BY <1>1, <1>2, <1>4, <1>5, <1>6, <1>7, <1>8 DEF IInv

LEMMA Inductive == IInv /\ [Next]_vars => IInv'
<1> SUFFICES ASSUME IInv, [Next]_vars PROVE IInv' OBVIOUS
<1>1. CASE UNCHANGED vars
  <2>1. \A c \in Contexts : (InHand(c)' <=> InHand(c)) /\ (Faulting(c)' <=> Faulting(c))
    BY <1>1 DEF InHand, Faulting, vars
  <2>2. TypeOK' BY <1>1 DEF IInv, TypeOK, vars
  <2>3. OwnSpace' /\ SubmitMeansScheduled' /\ FaultsKnown' /\ TablesLoaded'
    BY <1>1 DEF IInv, OwnSpace, SubmitMeansScheduled, FaultsKnown, TablesLoaded, vars
  <2>4. RefsBalance' BY <1>1, <2>1 DEF IInv, RefsBalance, vars
  <2>5. OutMeansUnused' /\ InTransaction' /\ NoneDiesMeanwhile'
    BY <1>1, <2>1 DEF IInv, OutMeansUnused, InTransaction, NoneDiesMeanwhile, Suspending, vars
  <2> QED BY <2>2, <2>3, <2>4, <2>5 DEF IInv
<1>2. ASSUME NEW c \in Contexts,
             \/ JobPull(c) \/ JobFails(c) \/ JobDone(c) \/ Flush(c) \/ HeldRelease(c) \/ Zap(c) \/ Destroy(c)
      PROVE  IInv'
  BY <1>2, JobPullStep, JobFailsStep, JobDoneStep, FlushStep, HeldReleaseStep, ZapStep, DestroyStep
<1>3. ASSUME NEW i \in Spaces,
             FindVictim(i) \/ FaultIrq(i) \/ FaultGrow(i) \/ FaultKill(i) \/ FaultRelease(i)
      PROVE  IInv'
  BY <1>3, FindVictimStep, FaultIrqStep, FaultGrowStep, FaultKillStep, FaultReleaseStep
<1>4. CASE SchedRetain \/ Evict \/ Commit \/ Leave \/ JsSuspend \/ Restore
  BY <1>4, SchedRetainStep, EvictStep, CommitStep, LeaveStep, JsSuspendStep, RestoreStep
<1> QED BY <1>1, <1>2, <1>3, <1>4, OtherStep DEF Next

LEMMA Initially == Init => IInv
<1> SUFFICES ASSUME Init PROVE IInv OBVIOUS
<1>1. TypeOK BY DEF Init, TypeOK
<1>2. OwnSpace /\ SubmitMeansScheduled /\ FaultsKnown /\ TablesLoaded
  BY DEF Init, OwnSpace, SubmitMeansScheduled, FaultsKnown, TablesLoaded
<1>3. \A c \in Contexts : ~InHand(c) /\ ~Faulting(c) BY DEF Init, InHand, Faulting
<1>4. RefsBalance
  <2> SUFFICES ASSUME NEW c \in Contexts
               PROVE  refs[c] = jobs[c] + held[c] + (IF c \in scheduled THEN 1 ELSE 0)
                  + (IF Faulting(c) THEN 1 ELSE 0) + (IF InHand(c) THEN 1 ELSE 0)
    BY DEF RefsBalance
  <2>1. refs[c] = 0 /\ jobs[c] = 0 /\ held[c] = 0 /\ c \notin scheduled BY DEF Init
  <2> QED BY <2>1, <1>3
<1>5. OutMeansUnused /\ InTransaction /\ NoneDiesMeanwhile
  BY <1>3 DEF Init, OutMeansUnused, InTransaction, NoneDiesMeanwhile
<1> QED BY <1>1, <1>2, <1>4, <1>5 DEF IInv

(* IInv is an inductive invariant; the theorems below follow from it.      *)
LEMMA Invariant == Spec => []IInv
BY Initially, Inductive, PTL DEF Spec

-----------------------------------------------------------------------------
(* No counter goes below zero and no number out of its range.              *)
THEOREM TypesHold == Spec => []TypeOK
<1>1. IInv => TypeOK BY DEF IInv
<1> QED BY <1>1, Invariant, PTL

(* refcount is the number of users of a context, for any number of         *)
(* contexts, spaces, jobs, flushes and faults: no reference is lost and    *)
(* none released twice.                                                    *)
THEOREM ReferencesBalance == Spec => []RefsBalance
<1>1. IInv => RefsBalance BY DEF IInv
<1> QED BY <1>1, Invariant, PTL

(* Contexts with a reference have a space, each its own.                   *)
THEOREM SpacesAreOwn == Spec => []OwnSpace
<1>1. IInv => OwnSpace BY DEF IInv
<1> QED BY <1>1, Invariant, PTL

(* Jobs are only pulled from scheduled contexts, so that retaining the     *)
(* context in kbase_js_pull always succeeds.                               *)
THEOREM OnlyScheduledSubmit == Spec => []SubmitMeansScheduled
<1>1. IInv => SubmitMeansScheduled BY DEF IInv
<1> QED BY <1>1, Invariant, PTL

(* A fault worker finds the context its interrupt retained.                *)
THEOREM FaultedContextStays == Spec => []FaultFindsContext
<1>1. ASSUME IInv PROVE FaultFindsContext
  <2>i. TypeOK /\ OwnSpace /\ RefsBalance /\ FaultsKnown BY <1>1 DEF IInv
  <2> SUFFICES ASSUME NEW i \in Spaces, fault[i] # NoFault
               PROVE  toKctx[i] = fault[i].ctx /\ refs[toKctx[i]] > 0
    BY DEF FaultFindsContext
  <2>1. toKctx[i] = fault[i].ctx /\ toKctx[i] \in Contexts /\ asNr[toKctx[i]] = i
    BY <2>i DEF FaultsKnown, OwnSpace, TypeOK
  <2>2. Faulting(toKctx[i]) BY <2>1 DEF Faulting
  <2>3. Users(toKctx[i]) \in Nat /\ Users(toKctx[i]) # 0 BY <2>1, <2>2, <2>i, UsersCount
  <2> QED BY <2>1, <2>3, <2>i, Balance
<1> QED BY <1>1, Invariant, PTL

(* A context with a reference runs on its own tables, or on none after a   *)
(* fault, across evictions, power changes and resets.                      *)
THEOREM TablesOfOwner == Spec => []Programmed
<1>1. IInv => Programmed BY DEF IInv, Programmed, TablesLoaded, OwnSpace
<1> QED BY <1>1, Invariant, PTL

(* The second attempt to get a space succeeds, and a context that is given *)
(* up has no reference left.                                               *)
THEOREM WarningsNeverRaised == Spec => []NoWarnings
<1>1. ASSUME IInv PROVE NoWarnings
  <2>i. TypeOK /\ InTransaction BY <1>1 DEF IInv
  <2>1. ASSUME NEW c \in Contexts, Unused(c) PROVE refs[c] = 0
    <3>1. ~InHand(c) BY <2>1, <2>i DEF InHand, InTransaction, Unused
    <3>2. ~(refs[c] > 0) BY <3>1, <2>1, <1>1, RetainedIsScheduled DEF Unused
    <3> QED BY <3>2, <2>i DEF TypeOK
  <2>2. sched.pc = "again" => ~RetainFails(sched.ctx)
    BY <2>i DEF InTransaction, RetainFails
  <2> QED BY <2>1, <2>2, <2>i DEF NoWarnings, InTransaction
<1> QED BY <1>1, Invariant, PTL
=============================================================================
