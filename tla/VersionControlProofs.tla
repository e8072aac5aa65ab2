------------------------- MODULE VersionControlProofs -------------------------
(***************************************************************************)
(* Proofs about the version control Bridge.                                *)
(*                                                                         *)
(* VersionControl, for every number of repositories, diffs, targets and    *)
(* writes: the inductive invariant IInv says of every target what its      *)
(* stage implies: whether its worker is the active one, how much of the    *)
(* file is written, whether a temporary file may exist, and what the       *)
(* worker has returned.  The theorems read the properties off IInv, and    *)
(* show that the exports implement ExportPromise.                          *)
(*                                                                         *)
(* ResultPages, for every number of entries, limit, size and budget: the   *)
(* lists are what they should be and the bisection finds the longest part  *)
(* that fits, both by induction, and the inductive invariant PagesInv says *)
(* what the cursor separates.                                              *)
(***************************************************************************)
EXTENDS VersionControl, ResultPages, FiniteSetTheorems, SequenceTheorems, WellFoundedInduction,
        TLAPS

\* The worker of the target has returned.
Returned == {"returned", "finished", "sent", "heard"}

\* The first n elements of a sequence, and all of them.
First(q, n) == {q[i] : i \in 1 .. n}
Elements(q) == First(q, Len(q))

\* What is left without the first n.
Rest(q, n) == SubSeq(q, n + 1, Len(q))

\* No element occurs twice, and none is larger than n.
Distinct(q)   == \A i, j \in 1 .. Len(q) : q[i] = q[j] => i = j
AtMost(q, n) == \A i \in 1 .. Len(q) : q[i] <= n

\* A repository is open exactly when it has a backend, and a save dialog is opened for one.
RepositoryInv ==
    /\ backend = "none" <=> repository = NoRepository
    /\ bridge = "save" => backend = "git"

\* The diffs that are kept are those in the order, each once, and not too many.
DiffInv ==
    /\ Len(diffOrder) <= MaxDiffSessions
    /\ diffs = Elements(diffOrder)
    /\ Distinct(diffOrder) /\ AtMost(diffOrder, compared)

\* The targets are given out in their order.
UsedInv ==
    \E n \in Nat : {e \in Targets : stage[e] # "unused"} = 1 .. n

\* At most one target waits, and it is of the open repository.
OfferInv ==
    /\ \A e, f \in pending : e = f
    /\ \A e \in pending :
        /\ stage[e] = "offered"
        /\ target[e].repository = repository
        /\ repository # NoRepository

\* What the stage of a target says of its file, of its temporary file and of its worker.
FileInv ==
    \A e \in Targets :
        /\ stage[e] \in {"synced", "checked", "replaced"} => written[e] = Chunks
        /\ destination = e => stage[e] \in {"replaced"} \cup Returned /\ written[e] = Chunks
        /\ e \in temp => stage[e] \in Running \ {"queued", "replaced"}
        /\ stage[e] \in Returned <=> result[e] # "none"

\* A target inside the repository has no worker before it is confirmed as such.
InsideInv ==
    \A e \in Targets : target[e].inside /\ stage[e] \notin {"unused", "offered"} => e \in allowed

IInv ==
    /\ TypeOK
    /\ RepositoryInv
    /\ DiffInv
    /\ UsedInv
    /\ OfferInv
    /\ ActiveIffRunning
    /\ FileInv
    /\ InsideInv

-----------------------------------------------------------------------------
(* What a step leaves alone keeps its part of the invariant *)

\* The repository, the diffs and their order.
LEMMA RegistryFrame ==
    /\ RepositoryInv /\ UNCHANGED <<repository, backend>> /\ bridge' \in {"idle", "folder", bridge}
        => RepositoryInv'
    /\ DiffInv /\ UNCHANGED <<compared, diffs, diffOrder>> => DiffInv'
BY DEF RepositoryInv, DiffInv

\* The offer.
LEMMA OfferFrame ==
    OfferInv /\ UNCHANGED <<stage, target, repository>> /\ pending' \subseteq pending => OfferInv'
BY DEF OfferInv

\* The exports; a flag that is set changes none of it.
LEMMA ExportFrame ==
    ASSUME UNCHANGED <<target, allowed, active, stage, written, temp, destination, result>>
    PROVE  /\ UsedInv => UsedInv'
           /\ ActiveIffRunning => ActiveIffRunning'
           /\ FileInv => FileInv'
           /\ InsideInv => InsideInv'
BY DEF UsedInv, ActiveIffRunning, FileInv, InsideInv

\* Nothing of the registry, the targets and the exports.
LEMMA StutterKeeps ==
    ASSUME IInv, UNCHANGED <<registryVars, exportVars, targetVars>>,
           session' \in {session, "open", "ended", "exited"}, bridge' \in {"idle", "folder", bridge}
    PROVE  IInv'
<1>1. TypeOK'
  BY DEF IInv, TypeOK, registryVars, exportVars, targetVars
<1>2. RepositoryInv' /\ DiffInv'
  BY RegistryFrame DEF IInv, registryVars
<1>3. OfferInv'
  BY OfferFrame DEF IInv, registryVars, exportVars, targetVars
<1>4. UsedInv' /\ ActiveIffRunning' /\ FileInv' /\ InsideInv'
  BY ExportFrame DEF IInv, exportVars, targetVars
<1> QED BY <1>1, <1>2, <1>3, <1>4 DEF IInv

-----------------------------------------------------------------------------
(* The session and the registry *)

\* An empty order has no elements.
LEMMA EmptyOrder == Elements(<<>>) = {} /\ Distinct(<<>>) /\ \A n : AtMost(<<>>, n)
BY DEF Elements, First, Distinct, AtMost

\* A session begins with nothing open and nothing offered.
LEMMA InitSound == Init => IInv
<1> SUFFICES ASSUME Init PROVE IInv
  OBVIOUS
<1>1. TypeOK
  <2>1. <<>> \in Seq(Diffs)
    BY EmptySeq
  <2> QED BY <2>1, BoundsAssumption, ChunksAssumption
       DEF Init, TypeOK, BoundsAssumption, ChunksAssumption, Targets, NoTarget, Repositories,
           NoRepository, Stages, Results
<1>2. RepositoryInv /\ OfferInv /\ InsideInv
  BY DEF Init, RepositoryInv, OfferInv, InsideInv
<1>3. DiffInv
  BY MaxDiffSessionsAssumption, EmptyOrder DEF Init, DiffInv, MaxDiffSessionsAssumption
<1>4. UsedInv
  <2>1. {e \in Targets : stage[e] # "unused"} = 1 .. 0
    BY DEF Init
  <2> QED BY <2>1 DEF UsedInv
<1>5. ActiveIffRunning /\ FileInv
  BY DEF Init, ActiveIffRunning, FileInv, Running, Returned, Targets, NoTarget
<1> QED BY <1>1, <1>2, <1>3, <1>4, <1>5 DEF IInv

\* Flags stay flags.
LEMMA FlagsType ==
    ASSUME TypeOK, CancelActive
    PROVE  cancelled' \in [Targets -> BOOLEAN]
BY DEF TypeOK, CancelActive

\* Closing the repository takes the diffs and the offer with it, and leaves the worker alone.
LEMMA ForgetKeeps ==
    ASSUME IInv, ForgetRepository, bridge = "idle", session' \in {session, "ended"},
           UNCHANGED <<bridge, opened, compared, target, allowed, active, stage, written, temp,
                       destination, result>>
    PROVE  IInv'
<1>1. TypeOK'
  <2>1. <<>> \in Seq(Diffs)
    BY EmptySeq
  <2> QED BY <2>1, FlagsType DEF IInv, TypeOK, ForgetRepository
<1>2. RepositoryInv' /\ OfferInv'
  BY DEF IInv, RepositoryInv, OfferInv, ForgetRepository
<1>3. DiffInv'
  BY MaxDiffSessionsAssumption, EmptyOrder
  DEF MaxDiffSessionsAssumption, DiffInv, ForgetRepository
<1>4. UsedInv' /\ ActiveIffRunning' /\ FileInv' /\ InsideInv'
  BY ExportFrame DEF IInv
<1> QED BY <1>1, <1>2, <1>3, <1>4 DEF IInv

\* Opening another one does, too.
LEMMA OpenKeeps ==
    ASSUME IInv, NEW b \in Backends, OpenBackend(b), bridge' = "idle",
           UNCHANGED <<session, compared, target, allowed, active, stage, written, temp,
                       destination, result>>
    PROVE  IInv'
<1>1. TypeOK'
  <2>1. <<>> \in Seq(Diffs)
    BY EmptySeq
  <2>2. opened' \in 0 .. MaxRepositories /\ repository' \in Repositories
    BY BoundsAssumption DEF IInv, TypeOK, OpenBackend, BoundsAssumption, Repositories
  <2> QED BY <2>1, <2>2, FlagsType DEF IInv, TypeOK, OpenBackend
<1>2. RepositoryInv' /\ OfferInv'
  BY BoundsAssumption DEF IInv, TypeOK, RepositoryInv, OfferInv, OpenBackend, Backends,
     NoRepository, BoundsAssumption
<1>3. DiffInv'
  BY MaxDiffSessionsAssumption, EmptyOrder DEF MaxDiffSessionsAssumption, DiffInv, OpenBackend
<1>4. UsedInv' /\ ActiveIffRunning' /\ FileInv' /\ InsideInv'
  BY ExportFrame DEF IInv
<1> QED BY <1>1, <1>2, <1>3, <1>4 DEF IInv

\* Choosing what to open changes the candidates.
LEMMA CandidatesKeep ==
    ASSUME IInv, candidates' \subseteq Backends, bridge' \in {"idle", bridge},
           UNCHANGED <<session, repository, backend, opened, compared, diffs, diffOrder, pending,
                       cancelled, target, allowed, active, stage, written, temp, destination,
                       result>>
    PROVE  IInv'
<1>1. TypeOK'
  BY DEF IInv, TypeOK
<1>2. RepositoryInv' /\ DiffInv'
  BY RegistryFrame DEF IInv
<1>3. OfferInv'
  BY OfferFrame DEF IInv
<1>4. UsedInv' /\ ActiveIffRunning' /\ FileInv' /\ InsideInv'
  BY ExportFrame DEF IInv
<1> QED BY <1>1, <1>2, <1>3, <1>4 DEF IInv

\* What is left of a sequence without repetition when its first k elements leave.
LEMMA Suffix ==
    ASSUME NEW q \in Seq(Diffs), NEW k \in 0 .. Len(q), NEW r, r = Rest(q, k), Distinct(q)
    PROVE  /\ r \in Seq(Diffs) /\ Len(r) = Len(q) - k
           /\ Distinct(r) /\ \A n : AtMost(q, n) => AtMost(r, n)
           /\ Elements(r) = Elements(q) \ First(q, k)
<1>1. Len(q) \in Nat /\ (\A i \in 1 .. Len(q) : q[i] \in Diffs) /\ k \in Nat /\ k <= Len(q)
  BY LenProperties, ElementOfSeq
<1>2. k + 1 \in Int /\ Len(q) \in Int /\ \A i \in k + 1 .. Len(q) : q[i] \in Diffs
  BY <1>1
<1>3. /\ r \in Seq(Diffs)
      /\ Len(r) = IF k + 1 <= Len(q) THEN Len(q) - (k + 1) + 1 ELSE 0
      /\ \A i \in 1 .. Len(q) - (k + 1) + 1 : r[i] = q[k + 1 + i - 1]
  BY <1>2, SubSeqProperties DEF Rest
<1>4. Len(r) = Len(q) - k
  BY <1>1, <1>3
<1>5. ASSUME NEW i \in 1 .. Len(r) PROVE k + i \in 1 .. Len(q) /\ r[i] = q[k + i]
  <2>1. i \in 1 .. Len(q) - (k + 1) + 1 /\ k + 1 + i - 1 = k + i
    BY <1>1, <1>4
  <2> QED BY <1>1, <1>3, <1>4, <2>1
<1>6. Distinct(r)
  <2>1. ASSUME NEW i \in 1 .. Len(r), NEW j \in 1 .. Len(r), r[i] = r[j] PROVE i = j
    <3>1. k + i = k + j
      BY <1>5, <2>1 DEF Distinct
    <3> QED BY <1>1, <1>4, <3>1
  <2> QED BY <2>1 DEF Distinct
<1>7. ASSUME NEW x \in Elements(r) PROVE x \in Elements(q) /\ x \notin First(q, k)
  <2>1. PICK i \in 1 .. Len(r) : x = r[i]
    BY <1>7 DEF Elements, First
  <2>2. ASSUME NEW j \in 1 .. k, x = q[j] PROVE FALSE
    <3>1. j \in 1 .. Len(q) /\ j # k + i
      BY <1>1, <1>4
    <3> QED BY <1>5, <2>1, <2>2, <3>1 DEF Distinct
  <2> QED BY <1>5, <2>1, <2>2 DEF Elements, First
<1>8. ASSUME NEW x \in Elements(q), x \notin First(q, k) PROVE x \in Elements(r)
  <2>1. PICK j \in 1 .. Len(q) : x = q[j]
    BY <1>8 DEF Elements, First
  <2>2. j \notin 1 .. k
    BY <1>8, <2>1 DEF First
  <2>3. j - k \in 1 .. Len(r) /\ k + (j - k) = j
    BY <1>1, <1>4, <2>2
  <2> QED BY <1>5, <2>1, <2>3 DEF Elements, First
<1>9. ASSUME NEW n, AtMost(q, n) PROVE AtMost(r, n)
  BY <1>5, <1>9 DEF AtMost
<1> QED BY <1>3, <1>4, <1>6, <1>7, <1>8, <1>9

\* A sequence without repetition that gets a new number, larger than the others.
LEMMA Longer ==
    ASSUME NEW q \in Seq(Diffs), NEW n \in Nat, NEW d \in Diffs, d = n + 1,
           NEW r, r = Append(q, d),
           Distinct(q), AtMost(q, n)
    PROVE  /\ r \in Seq(Diffs) /\ Len(r) = Len(q) + 1
           /\ Distinct(r) /\ AtMost(r, d)
           /\ Elements(r) = Elements(q) \cup {d}
<1>1. /\ r \in Seq(Diffs) /\ Len(r) = Len(q) + 1 /\ Len(q) \in Nat
      /\ \A i \in 1 .. Len(q) : r[i] = q[i]
      /\ r[Len(q) + 1] = d
  BY AppendProperties, LenProperties
<1>2. \A i \in 1 .. Len(q) : q[i] \in Nat /\ q[i] < d
  <2>1. ASSUME NEW i \in 1 .. Len(q) PROVE q[i] \in Diffs
    BY ElementOfSeq
  <2> QED BY <2>1 DEF AtMost, Diffs
<1>3. 1 .. Len(r) = (1 .. Len(q)) \cup {Len(q) + 1}
  BY <1>1
<1>4. ASSUME NEW i \in 1 .. Len(r), NEW j \in 1 .. Len(r), r[i] = r[j] PROVE i = j
  <2>1. CASE i \in 1 .. Len(q) /\ j \in 1 .. Len(q)
    BY <1>1, <1>4, <2>1 DEF Distinct
  <2>2. CASE i \in 1 .. Len(q) /\ j = Len(q) + 1
    BY <1>1, <1>2, <1>4, <2>2
  <2>3. CASE i = Len(q) + 1 /\ j \in 1 .. Len(q)
    BY <1>1, <1>2, <1>4, <2>3
  <2> QED BY <1>3, <2>1, <2>2, <2>3
<1>5. AtMost(r, d)
  BY <1>1, <1>2, <1>3 DEF AtMost
<1>6. ASSUME NEW x \in Elements(r) PROVE x \in Elements(q) \cup {d}
  BY <1>1, <1>3 DEF Elements, First
<1>7. ASSUME NEW x \in Elements(q) \cup {d} PROVE x \in Elements(r)
  BY <1>1, <1>3 DEF Elements, First
<1> QED BY <1>1, <1>4, <1>5, <1>6, <1>7 DEF Distinct

\* A new diff goes to the end of the order, and the oldest leave it and the diffs together.
LEMMA OpenDiffKeeps == ASSUME IInv, OpenDiff PROVE IInv'
<1>1. PICK d, order, surplus : /\ d = compared + 1 /\ order = Append(diffOrder, d)
                               /\ surplus = Len(order) - MaxDiffSessions
  OBVIOUS
<1>2. /\ compared' = d /\ compared < MaxDiffs
      /\ diffs' = (diffs \cup {d}) \ First(order, surplus)
      /\ diffOrder' = IF surplus > 0 THEN Rest(order, surplus) ELSE order
      /\ UNCHANGED <<session, bridge, repository, backend, opened, candidates, exportVars,
                     targetVars>>
  BY <1>1 DEF OpenDiff, First, Rest
<1>3. /\ compared \in Nat /\ d \in Diffs /\ d \in 0 .. MaxDiffs
      /\ diffOrder \in Seq(Diffs) /\ Len(diffOrder) \in Nat
      /\ Distinct(diffOrder) /\ AtMost(diffOrder, compared) /\ diffs = Elements(diffOrder)
  <2>1. compared \in 0 .. MaxDiffs /\ diffOrder \in Seq(Diffs)
    BY DEF IInv, TypeOK
  <2>2. Len(diffOrder) \in Nat
    BY <2>1, LenProperties
  <2> QED BY <1>1, <1>2, <2>1, <2>2, BoundsAssumption DEF BoundsAssumption, Diffs, IInv, DiffInv
<1>4. /\ order \in Seq(Diffs) /\ Len(order) = Len(diffOrder) + 1
      /\ Distinct(order) /\ AtMost(order, d)
      /\ Elements(order) = diffs \cup {d}
  <2>1. diffOrder \in Seq(Diffs) /\ compared \in Nat /\ d \in Diffs
    BY <1>3
  <2>2. d = compared + 1 /\ order = Append(diffOrder, d)
    BY <1>1
  <2>3. Distinct(diffOrder) /\ AtMost(diffOrder, compared)
    BY <1>3
  <2>4. /\ order \in Seq(Diffs) /\ Len(order) = Len(diffOrder) + 1
        /\ Distinct(order) /\ AtMost(order, d)
        /\ Elements(order) = Elements(diffOrder) \cup {d}
    BY <2>1, <2>2, <2>3, Longer
  <2> QED BY <1>3, <2>4
<1>5. Len(diffOrder) <= MaxDiffSessions /\ MaxDiffSessions \in Nat /\ MaxDiffSessions > 0
  BY MaxDiffSessionsAssumption DEF MaxDiffSessionsAssumption, IInv, DiffInv
<1>6. diffOrder' \in Seq(Diffs) /\ DiffInv'
  <2>1. CASE surplus <= 0
    <3>1. First(order, surplus) = {} /\ ~(surplus > 0) /\ Len(order) <= MaxDiffSessions
      BY <1>1, <1>3, <1>4, <1>5, <2>1 DEF First
    <3>2. diffOrder' = order /\ diffs' = diffs \cup {d}
      BY <1>2, <3>1
    <3> QED BY <1>2, <1>4, <3>1, <3>2 DEF DiffInv
  <2>2. CASE surplus > 0
    <3>1. PICK rest : rest = Rest(order, surplus)
      OBVIOUS
    <3>2. surplus \in 0 .. Len(order) /\ Len(order) - surplus = MaxDiffSessions
      BY <1>1, <1>3, <1>4, <1>5, <2>2
    <3>3. /\ rest \in Seq(Diffs) /\ Len(rest) = MaxDiffSessions
          /\ Distinct(rest) /\ AtMost(rest, d)
          /\ Elements(rest) = Elements(order) \ First(order, surplus)
      <4>1. order \in Seq(Diffs) /\ Distinct(order) /\ surplus \in 0 .. Len(order)
        BY <1>4, <3>2
      <4>2. /\ rest \in Seq(Diffs) /\ Len(rest) = Len(order) - surplus
            /\ Distinct(rest) /\ (\A n : AtMost(order, n) => AtMost(rest, n))
            /\ Elements(rest) = Elements(order) \ First(order, surplus)
        BY <3>1, <4>1, Suffix
      <4> QED BY <1>4, <3>2, <4>2
    <3>4. diffOrder' = rest /\ diffs' = Elements(rest)
      BY <1>2, <1>4, <2>2, <3>1, <3>3
    <3>5. Len(diffOrder') <= MaxDiffSessions
      BY <1>5, <3>3, <3>4
    <3> QED BY <1>2, <3>3, <3>4, <3>5 DEF DiffInv
  <2> QED BY <1>1, <1>3, <1>4, <1>5, <2>1, <2>2
<1>7. TypeOK'
  <2>1. diffs' \subseteq Diffs
    BY <1>2, <1>3 DEF IInv, TypeOK
  <2> QED BY <1>2, <1>3, <1>6, <2>1 DEF IInv, TypeOK, exportVars, targetVars
<1>8. RepositoryInv'
  BY <1>2, RegistryFrame DEF IInv
<1>9. OfferInv'
  BY <1>2, OfferFrame DEF IInv, exportVars, targetVars
<1>10. UsedInv' /\ ActiveIffRunning' /\ FileInv' /\ InsideInv'
  BY <1>2, ExportFrame DEF IInv, exportVars, targetVars
<1> QED BY <1>6, <1>7, <1>8, <1>9, <1>10 DEF IInv

-----------------------------------------------------------------------------
(* Targets *)

\* The target that is given out is the first that nobody had.
LEMMA NextTarget ==
    ASSUME IInv, NEW e \in Targets, NEW inside \in BOOLEAN, PathChosen(e, inside)
    PROVE  /\ stage[e] = "unused"
           /\ \E n \in Nat : {f \in Targets : stage[f] # "unused"} = 1 .. n /\ e = n + 1
<1>1. PICK n \in Nat : {f \in Targets : stage[f] # "unused"} = 1 .. n
  BY DEF IInv, UsedInv
<1>2. e = n + 1
  <2>1. e = Cardinality({f \in Targets : stage[f] # "unused"}) + 1
    BY DEF PathChosen
  <2>2. Cardinality(1 .. n) = n
    BY FS_Interval
  <2> QED BY <1>1, <2>1, <2>2
<1> QED BY <1>1, <1>2

\* It takes the place of the one that waits.
LEMMA PathChosenKeeps ==
    ASSUME IInv, NEW e \in Targets, NEW inside \in BOOLEAN, PathChosen(e, inside)
    PROVE  IInv'
<1>1. PICK n \in Nat : {f \in Targets : stage[f] # "unused"} = 1 .. n /\ e = n + 1
  BY NextTarget
<1>2. e = n + 1
  BY <1>1
<1>3. stage[e] = "unused"
  BY NextTarget
<1>4. /\ bridge = "save" /\ bridge' = "idle"
      /\ stage' = [stage EXCEPT ![e] = "offered"]
      /\ target' = [target EXCEPT ![e] = [repository |-> repository, inside |-> inside]]
      /\ pending' = {e}
      /\ UNCHANGED <<session, registryVars, allowed, active, cancelled, written, temp,
                     destination, result>>
  BY DEF PathChosen
<1>5. TypeOK'
  BY <1>4 DEF IInv, TypeOK, registryVars, Stages
<1>6. RepositoryInv' /\ DiffInv'
  BY <1>4, RegistryFrame DEF registryVars, IInv
<1>7. UsedInv'
  <2>1. {f \in Targets : stage'[f] # "unused"} = {f \in Targets : stage[f] # "unused"} \cup {e}
    BY <1>4 DEF IInv, TypeOK
  <2>2. {f \in Targets : stage'[f] # "unused"} = 1 .. n + 1
    BY <1>1, <1>2, <2>1
  <2> QED BY <2>2 DEF UsedInv
<1>8. OfferInv'
  <2>1. repository # NoRepository
    BY <1>4 DEF IInv, RepositoryInv
  <2> QED BY <1>4, <2>1 DEF IInv, TypeOK, OfferInv, registryVars
<1>9. ActiveIffRunning'
  BY <1>3, <1>4 DEF IInv, TypeOK, ActiveIffRunning, Running
<1>10. FileInv'
  BY <1>3, <1>4 DEF IInv, TypeOK, FileInv, Running, Returned
<1>11. InsideInv'
  BY <1>3, <1>4 DEF IInv, TypeOK, InsideInv
<1> QED BY <1>5, <1>6, <1>7, <1>8, <1>9, <1>10, <1>11 DEF IInv

\* Where a target that is in use goes, it stays in use.
LEMMA UsedFrame ==
    ASSUME TypeOK, UsedInv, NEW e \in Targets, stage[e] # "unused", NEW s, s # "unused",
           stage' = [stage EXCEPT ![e] = s]
    PROVE  UsedInv'
<1>1. {f \in Targets : stage'[f] # "unused"} = {f \in Targets : stage[f] # "unused"}
  BY DEF TypeOK
<1> QED BY <1>1 DEF UsedInv

\* A confirmed target begins to run, when nothing else runs.
LEMMA ConfirmKeeps ==
    ASSUME IInv, NEW e \in Targets, NEW allowInside \in BOOLEAN, ConfirmExport(e, allowInside)
    PROVE  IInv'
<1>1. /\ active = NoTarget /\ e \in pending /\ pending' = pending \ {e}
      /\ stage[e] = "offered"
      /\ UNCHANGED <<session, bridge, registryVars, target, cancelled, written, temp,
                     destination, result>>
  BY DEF ConfirmExport, IInv, OfferInv
<1>2. CASE UNCHANGED <<active, stage, allowed>>
  <2>1. TypeOK'
    BY <1>1, <1>2 DEF IInv, TypeOK, registryVars
  <2>2. RepositoryInv' /\ DiffInv' /\ OfferInv'
    BY <1>1, <1>2, RegistryFrame, OfferFrame DEF IInv, registryVars
  <2>3. UsedInv' /\ ActiveIffRunning' /\ FileInv' /\ InsideInv'
    BY <1>1, <1>2, ExportFrame DEF IInv
  <2> QED BY <2>1, <2>2, <2>3 DEF IInv
<1>3. CASE /\ active' = e
           /\ stage' = [stage EXCEPT ![e] = "queued"]
           /\ allowed' = IF target[e].inside THEN allowed \cup {e} ELSE allowed
  <2>1. TypeOK'
    BY <1>1, <1>3 DEF IInv, TypeOK, registryVars, Stages, Running
  <2>2. RepositoryInv' /\ DiffInv'
    BY <1>1, RegistryFrame DEF IInv, registryVars
  <2>3. UsedInv'
    BY <1>1, <1>3, UsedFrame DEF IInv
  <2>4. OfferInv'
    BY <1>1, <1>3 DEF IInv, TypeOK, OfferInv, registryVars
  <2>5. ActiveIffRunning'
    BY <1>1, <1>3 DEF IInv, TypeOK, ActiveIffRunning, Running, Targets, NoTarget
  <2>6. FileInv'
    BY <1>1, <1>3 DEF IInv, TypeOK, FileInv, Running, Returned
  <2>7. InsideInv'
    BY <1>1, <1>3 DEF IInv, TypeOK, InsideInv
  <2> QED BY <2>1, <2>2, <2>3, <2>4, <2>5, <2>6, <2>7 DEF IInv
<1> QED BY <1>2, <1>3 DEF ConfirmExport

\* A cancelled target is forgotten or flagged.
LEMMA CancelKeeps == ASSUME IInv, NEW e \in Targets, CancelExport(e) PROVE IInv'
<1>1. /\ pending' \subseteq pending
      /\ cancelled' = cancelled \/ cancelled' = [cancelled EXCEPT ![e] = TRUE]
      /\ UNCHANGED <<session, bridge, registryVars, target, allowed, active, stage, written, temp,
                     destination, result>>
  BY DEF CancelExport
<1>2. TypeOK'
  BY <1>1 DEF IInv, TypeOK, registryVars
<1>3. RepositoryInv' /\ DiffInv' /\ OfferInv'
  BY <1>1, RegistryFrame, OfferFrame DEF IInv, registryVars
<1>4. UsedInv' /\ ActiveIffRunning' /\ FileInv' /\ InsideInv'
  BY <1>1, ExportFrame DEF IInv
<1> QED BY <1>2, <1>3, <1>4 DEF IInv

-----------------------------------------------------------------------------
(* The worker and the task that awaits it *)

\* The stage of one target moves on; what it says of the files is shown per step.
LEMMA AdvanceKeeps ==
    ASSUME IInv, NEW e \in Targets, NEW from \in Stages \ {"unused", "offered"},
           NEW to \in Stages \ {"unused", "offered"}, Advance(e, from, to),
           UNCHANGED <<session, bridge, registryVars, targetVars>>
    PROVE  RepositoryInv' /\ DiffInv' /\ OfferInv' /\ UsedInv' /\ InsideInv'
<1>1. stage[e] = from /\ stage' = [stage EXCEPT ![e] = to]
  BY DEF Advance
<1>2. RepositoryInv' /\ DiffInv'
  BY RegistryFrame DEF IInv, registryVars
<1>3. OfferInv'
  BY <1>1 DEF IInv, TypeOK, OfferInv, registryVars, targetVars
<1>4. UsedInv'
  BY <1>1, UsedFrame DEF IInv
<1>5. InsideInv'
  BY <1>1 DEF IInv, TypeOK, InsideInv, targetVars
<1> QED BY <1>2, <1>3, <1>4, <1>5

\* While a worker runs and when it returns, it is the active one.
LEMMA WorkerStaysActive ==
    ASSUME IInv, NEW e \in Targets, NEW from \in Running, NEW to \in Running \cup {"returned"},
           Advance(e, from, to), UNCHANGED active
    PROVE  ActiveIffRunning'
BY DEF IInv, TypeOK, ActiveIffRunning, Advance

\* The worker changes its own files, and no step of it says more than its stage allows.
LEMMA WorkerKeeps ==
    ASSUME IInv, NEW e \in Targets, WorkerProgress(e) \/ WorkerFailure(e)
    PROVE  IInv'
<1> DEFINE Kept(from, to) ==
      /\ Advance(e, from, to)
      /\ UNCHANGED <<session, bridge, registryVars, targetVars, active, cancelled>>
<1>1. ASSUME NEW from \in Running, NEW to \in Running \cup {"returned"}, Kept(from, to)
      PROVE  /\ RepositoryInv' /\ DiffInv' /\ OfferInv' /\ UsedInv' /\ InsideInv'
             /\ ActiveIffRunning'
             /\ stage' \in [Targets -> Stages]
  <2>1. /\ from \in Stages \ {"unused", "offered"} /\ to \in Stages \ {"unused", "offered"}
        /\ Advance(e, from, to) /\ UNCHANGED <<session, bridge, registryVars, targetVars>>
        /\ UNCHANGED active
    BY <1>1 DEF Stages, Running
  <2>2. stage' \in [Targets -> Stages]
    BY <2>1 DEF IInv, TypeOK, Advance
  <2> QED BY <1>1, <2>1, <2>2, AdvanceKeeps, WorkerStaysActive
<1>2. ASSUME NEW from \in Running, NEW to \in Running \cup {"returned"}, Kept(from, to),
             written' \in [Targets -> 0 .. Chunks], temp' \subseteq Targets,
             destination' \in Targets \cup {NoTarget}, result' \in [Targets -> Results],
             FileInv'
      PROVE  IInv'
  <2>1. TypeOK'
    BY <1>1, <1>2 DEF IInv, TypeOK, registryVars, targetVars
  <2> QED BY <1>1, <1>2, <2>1 DEF IInv
<1>3. CASE CreateTemp(e)
  <2>1. /\ Kept("queued", "writing") /\ temp' = temp \cup {e}
        /\ UNCHANGED <<written, destination, result>>
    BY <1>3 DEF CreateTemp
  <2>2. FileInv'
    BY <2>1 DEF IInv, TypeOK, FileInv, Advance, Running, Returned
  <2> QED BY <1>2, <2>1, <2>2 DEF IInv, TypeOK, Running
<1>4. CASE CreateFails(e)
  <2>1. Kept("queued", "failed") /\ UNCHANGED <<written, temp, destination, result>>
    BY <1>4 DEF CreateFails
  <2>2. FileInv'
    BY <2>1 DEF IInv, TypeOK, FileInv, Advance, Running, Returned
  <2> QED BY <1>2, <2>1, <2>2 DEF IInv, TypeOK, Running
<1>5. CASE WriteChunk(e)
  <2>1. /\ Kept("writing", "writing") /\ written[e] < Chunks
        /\ written' = [written EXCEPT ![e] = written[e] + 1]
        /\ UNCHANGED <<temp, destination, result>>
    BY <1>5 DEF WriteChunk
  <2>2. written' \in [Targets -> 0 .. Chunks]
    BY <2>1, ChunksAssumption DEF ChunksAssumption, IInv, TypeOK
  <2>3. FileInv'
    BY <2>1 DEF IInv, TypeOK, FileInv, Advance, Running, Returned
  <2> QED BY <1>2, <2>1, <2>2, <2>3 DEF IInv, TypeOK, Running
<1>6. CASE WriteInterrupted(e)
  <2>1. Kept("writing", "retrying") /\ UNCHANGED <<written, temp, destination, result>>
    BY <1>6 DEF WriteInterrupted
  <2>2. FileInv'
    BY <2>1 DEF IInv, TypeOK, FileInv, Advance, Running, Returned
  <2> QED BY <1>2, <2>1, <2>2 DEF IInv, TypeOK, Running
<1>7. CASE WorkFails(e)
  <2>1. Kept("writing", "failed") /\ UNCHANGED <<written, temp, destination, result>>
    BY <1>7 DEF WorkFails
  <2>2. FileInv'
    BY <2>1 DEF IInv, TypeOK, FileInv, Advance, Running, Returned
  <2> QED BY <1>2, <2>1, <2>2 DEF IInv, TypeOK, Running
<1>8. CASE FlushAndSync(e)
  <2>1. /\ Kept("writing", "synced") /\ written[e] = Chunks
        /\ UNCHANGED <<written, temp, destination, result>>
    BY <1>8 DEF FlushAndSync
  <2>2. FileInv'
    BY <2>1 DEF IInv, TypeOK, FileInv, Advance, Running, Returned
  <2> QED BY <1>2, <2>1, <2>2 DEF IInv, TypeOK, Running
<1>9. CASE CheckCancelled(e)
  <2>1. PICK to \in {"failed", "checked"} :
          Kept("synced", to) /\ UNCHANGED <<written, temp, destination, result>>
    BY <1>9 DEF CheckCancelled
  <2>2. FileInv'
    BY <2>1 DEF IInv, TypeOK, FileInv, Advance, Running, Returned
  <2> QED BY <1>2, <2>1, <2>2 DEF IInv, TypeOK, Running
<1>10. CASE ReplaceTarget(e)
  <2>1. /\ Kept("checked", "replaced") /\ destination' = e /\ temp' = temp \ {e}
        /\ UNCHANGED <<written, result>>
    BY <1>10 DEF ReplaceTarget
  <2>2. FileInv'
    BY <2>1 DEF IInv, TypeOK, FileInv, Advance, Running, Returned
  <2> QED BY <1>2, <2>1, <2>2 DEF IInv, TypeOK, Running
<1>11. CASE ReplaceFails(e)
  <2>1. Kept("checked", "failed") /\ UNCHANGED <<written, temp, destination, result>>
    BY <1>11 DEF ReplaceFails
  <2>2. FileInv'
    BY <2>1 DEF IInv, TypeOK, FileInv, Advance, Running, Returned
  <2> QED BY <1>2, <2>1, <2>2 DEF IInv, TypeOK, Running
<1>12. CASE Complete(e)
  <2>1. /\ Kept("replaced", "returned") /\ result' = [result EXCEPT ![e] = "complete"]
        /\ UNCHANGED <<written, temp, destination>>
    BY <1>12 DEF Complete
  <2>2. FileInv'
    BY <2>1 DEF IInv, TypeOK, FileInv, Advance, Running, Returned
  <2> QED BY <1>2, <2>1, <2>2 DEF IInv, TypeOK, Running, Results
<1>13. CASE CleanUp(e)
  <2>1. PICK verdict \in {"cancelled", "failed"} :
          /\ Kept("failed", "returned") /\ result' = [result EXCEPT ![e] = verdict]
          /\ temp' = temp \ {e} /\ written' = [written EXCEPT ![e] = 0]
          /\ UNCHANGED destination
    BY <1>13 DEF CleanUp
  <2>2. written' \in [Targets -> 0 .. Chunks]
    BY <2>1, ChunksAssumption DEF ChunksAssumption, IInv, TypeOK
  <2>3. FileInv'
    BY <2>1 DEF IInv, TypeOK, FileInv, Advance, Running, Returned
  <2> QED BY <1>2, <2>1, <2>2, <2>3 DEF IInv, TypeOK, Running, Results
<1> QED BY <1>3, <1>4, <1>5, <1>6, <1>7, <1>8, <1>9, <1>10, <1>11, <1>12, <1>13
     DEF WorkerProgress, WorkerFailure

\* FinishExport makes room for the next export, and the event goes its way.
LEMMA TaskKeeps ==
    ASSUME IInv, NEW e \in Targets, FinishExport(e) \/ SendEvent(e) \/ ForwardEvent(e)
    PROVE  IInv'
<1>1. PICK from \in Returned, to \in Returned \ {"returned"} :
        /\ Advance(e, from, to)
        /\ UNCHANGED <<session, bridge, registryVars, targetVars, written, temp, destination,
                       result>>
        /\ \/ from = "returned" /\ active' = IF active = e THEN NoTarget ELSE active
           \/ from # "returned" /\ UNCHANGED active
        /\ cancelled' \in {cancelled, [cancelled EXCEPT ![e] = FALSE]}
  BY DEF FinishExport, SendEvent, ForwardEvent, Returned
<1>2. /\ stage[e] = from /\ stage' = [stage EXCEPT ![e] = to]
      /\ from \in Stages \ {"unused", "offered"} /\ to \in Stages \ {"unused", "offered"}
  BY <1>1 DEF Advance, Stages, Returned
<1>3. TypeOK'
  <2>1. active' \in Targets \cup {NoTarget} /\ cancelled' \in [Targets -> BOOLEAN]
    BY <1>1 DEF IInv, TypeOK
  <2> QED BY <1>1, <1>2, <2>1 DEF IInv, TypeOK, registryVars, targetVars
<1>4. RepositoryInv' /\ DiffInv' /\ OfferInv' /\ UsedInv' /\ InsideInv'
  BY <1>1, <1>2, AdvanceKeeps
<1>5. ActiveIffRunning'
  BY <1>1, <1>2 DEF IInv, TypeOK, ActiveIffRunning, Running, Returned, Targets, NoTarget
<1>6. FileInv'
  BY <1>1, <1>2 DEF IInv, TypeOK, FileInv, Running, Returned
<1> QED BY <1>3, <1>4, <1>5, <1>6 DEF IInv

-----------------------------------------------------------------------------
(* Every step *)

\* One lemma for each kind of step: every step of the session and of the workers keeps IInv.
LEMMA NextKeeps == IInv /\ [Next]_vars => IInv'
<1> SUFFICES ASSUME IInv, [Next]_vars PROVE IInv'
  OBVIOUS
<1>1. CASE UNCHANGED vars
  BY <1>1, StutterKeeps DEF vars
<1>2. CASE Connect
  BY <1>2, StutterKeeps DEF Connect
<1>3. CASE EndSession
  BY <1>3, ForgetKeeps DEF EndSession
<1>4. CASE Exit
  BY <1>4, StutterKeeps DEF Exit
<1>5. CASE SelectRepository
  BY <1>5, StutterKeeps DEF SelectRepository
<1>6. CASE NothingSelected
  BY <1>6, StutterKeeps DEF NothingSelected
<1>7. ASSUME NEW detected \in (SUBSET Backends) \ {{}}, FolderSelected(detected) PROVE IInv'
  <2>1. CASE \E b \in detected : OpenBackend(b)
    <3>1. PICK b \in Backends : OpenBackend(b)
      BY <2>1
    <3> QED BY <1>7, <3>1, OpenKeeps DEF FolderSelected
  <2>2. CASE /\ candidates' \in {detected, {}}
             /\ UNCHANGED <<repository, backend, opened, diffs, diffOrder, pending, cancelled>>
    BY <1>7, <2>2, CandidatesKeep DEF FolderSelected
  <2> QED BY <1>7, <2>1, <2>2 DEF FolderSelected
<1>8. ASSUME NEW b \in Backends, OpenCandidate(b) PROVE IInv'
  <2>1. CASE OpenBackend(b)
    BY <1>8, <2>1, OpenKeeps DEF OpenCandidate, Idle
  <2>2. CASE /\ candidates' = candidates \ {b}
             /\ UNCHANGED <<repository, backend, opened, diffs, diffOrder, pending, cancelled>>
    <3>1. candidates' \subseteq Backends
      BY <2>2 DEF IInv, TypeOK
    <3> QED BY <1>8, <2>2, <3>1, CandidatesKeep DEF OpenCandidate
  <2> QED BY <1>8, <2>1, <2>2 DEF OpenCandidate
<1>9. CASE CloseRepository
  BY <1>9, ForgetKeeps DEF CloseRepository, Idle
<1>10. CASE OpenDiff
  BY <1>10, OpenDiffKeeps
<1>11. CASE OpenSaveDialog
  <2>1. TypeOK' /\ RepositoryInv'
    BY <1>11 DEF OpenSaveDialog, IInv, TypeOK, RepositoryInv, registryVars, exportVars, targetVars
  <2>2. DiffInv' /\ OfferInv'
    BY <1>11, RegistryFrame, OfferFrame
    DEF OpenSaveDialog, IInv, registryVars, exportVars, targetVars
  <2>3. UsedInv' /\ ActiveIffRunning' /\ FileInv' /\ InsideInv'
    BY <1>11, ExportFrame DEF OpenSaveDialog, IInv, exportVars, targetVars
  <2> QED BY <2>1, <2>2, <2>3 DEF IInv
<1>12. CASE SaveDismissed
  BY <1>12, StutterKeeps DEF SaveDismissed
<1>13. ASSUME NEW e \in Targets, NEW inside \in BOOLEAN, PathChosen(e, inside) PROVE IInv'
  BY <1>13, PathChosenKeeps
<1>14. ASSUME NEW e \in Targets, NEW allowInside \in BOOLEAN, ConfirmExport(e, allowInside)
       PROVE  IInv'
  BY <1>14, ConfirmKeeps
<1>15. ASSUME NEW e \in Targets, CancelExport(e) PROVE IInv'
  BY <1>15, CancelKeeps
<1>16. ASSUME NEW e \in Targets, ExportStep(e) PROVE IInv'
  BY <1>16, WorkerKeeps, TaskKeeps DEF ExportStep
<1> QED BY <1>1, <1>2, <1>3, <1>4, <1>5, <1>6, <1>7, <1>8, <1>9, <1>10, <1>11, <1>12, <1>13,
           <1>14, <1>15, <1>16 DEF Next, SessionStep, CommandStep

\* The invariant holds in every state of every behaviour.
THEOREM ExportsSound == Spec => []IInv
BY InitSound, NextKeeps, PTL DEF Spec

-----------------------------------------------------------------------------
(* The properties *)

\* Every variable keeps its type, for every number of repositories, diffs, targets and writes.
THEOREM VariablesTyped == Spec => []TypeOK
<1>1. IInv => TypeOK
  BY DEF IInv
<1> QED BY <1>1, ExportsSound, PTL

\* The registry keeps the diffs of its order, each once, and not too many.
DiffsAccounted == diffs = Elements(diffOrder) /\ Distinct(diffOrder) /\ Len(diffOrder) <= MaxDiffSessions

\* The registry forgets a diff exactly when its id leaves the order, and it never keeps more than
\* MaxDiffSessions (open_diff, close_repository, open_backend_locked).
THEOREM DiffsAreAccounted == Spec => []DiffsAccounted
<1>1. IInv => DiffsAccounted
  BY DEF IInv, DiffInv, DiffsAccounted
<1> QED BY <1>1, ExportsSound, PTL

\* One export runs at a time: the active one, until its task has made room (begin_export,
\* cancel_active_export, finish_export).
THEOREM OneExportRuns == Spec => []ActiveIffRunning
<1>1. IInv => ActiveIffRunning
  BY DEF IInv
<1> QED BY <1>1, ExportsSound, PTL

\* The chosen file holds the user's content or a whole export, after any number of failed,
\* cancelled and interrupted ones (run_export).
THEOREM InstalledStaysWhole == Spec => []InstalledIsWhole
<1>1. IInv => InstalledIsWhole
  BY DEF IInv, TypeOK, FileInv, InstalledIsWhole
<1> QED BY <1>1, ExportsSound, PTL

\* A worker that repeats its write for ever was cancelled.
RetryInv == \A e \in Targets : stage[e] = "retrying" => cancelled[e]

\* Only an interrupted write leads to the endless retry, and only the task of an export that
\* returned takes the flag back.
LEMMA RetryKeeps == IInv /\ RetryInv /\ [Next]_vars => RetryInv'
<1> SUFFICES ASSUME IInv, RetryInv, [Next]_vars PROVE RetryInv'
  OBVIOUS
<1>1. /\ stage \in [Targets -> Stages] /\ cancelled \in [Targets -> BOOLEAN]
      /\ \A e \in Targets : stage[e] = "retrying" => cancelled[e]
      /\ \A e \in pending : stage[e] = "offered"
  BY DEF IInv, TypeOK, OfferInv, RetryInv
<1>2. ASSUME UNCHANGED stage, CancelActive \/ UNCHANGED cancelled PROVE RetryInv'
  BY <1>1, <1>2 DEF RetryInv, CancelActive
<1>3. ASSUME NEW e \in Targets, NEW from, NEW to, to # "retrying", Advance(e, from, to),
             UNCHANGED cancelled
      PROVE  RetryInv'
  BY <1>1, <1>3 DEF RetryInv, Advance
<1>4. CASE UNCHANGED vars
  BY <1>2, <1>4 DEF vars, exportVars
<1>5. CASE Connect \/ EndSession \/ Exit \/ SelectRepository \/ NothingSelected \/ CloseRepository
           \/ OpenDiff \/ OpenSaveDialog \/ SaveDismissed
  <2>1. UNCHANGED stage /\ (CancelActive \/ UNCHANGED cancelled)
    BY <1>5 DEF Connect, EndSession, Exit, SelectRepository, NothingSelected, CloseRepository,
       ForgetRepository, OpenDiff, OpenSaveDialog, SaveDismissed, exportVars
  <2> QED BY <1>2, <2>1
<1>6. ASSUME NEW detected \in (SUBSET Backends) \ {{}}, FolderSelected(detected) PROVE RetryInv'
  BY <1>2, <1>6 DEF FolderSelected, OpenBackend
<1>7. ASSUME NEW b \in Backends, OpenCandidate(b) PROVE RetryInv'
  BY <1>2, <1>7 DEF OpenCandidate, OpenBackend
<1>8. ASSUME NEW e \in Targets, NEW inside \in BOOLEAN, PathChosen(e, inside) PROVE RetryInv'
  BY <1>1, <1>8 DEF PathChosen, RetryInv
<1>9. ASSUME NEW e \in Targets, NEW allowInside \in BOOLEAN, ConfirmExport(e, allowInside)
      PROVE  RetryInv'
  BY <1>1, <1>9 DEF ConfirmExport, RetryInv
<1>10. ASSUME NEW e \in Targets, CancelExport(e) PROVE RetryInv'
  BY <1>1, <1>10 DEF CancelExport, RetryInv
<1>11. ASSUME NEW e \in Targets, ExportStep(e) PROVE RetryInv'
  <2>1. CASE WriteInterrupted(e)
    BY <1>1, <2>1 DEF WriteInterrupted, Advance, RetryInv
  <2>2. CASE FinishExport(e)
    BY <1>1, <2>2 DEF FinishExport, Advance, RetryInv
  <2>3. CASE CheckCancelled(e)
    <3>1. PICK to \in {"failed", "checked"} : Advance(e, "synced", to)
      BY <2>3 DEF CheckCancelled
    <3> QED BY <1>3, <2>3, <3>1 DEF CheckCancelled
  <2>4. CASE CreateTemp(e) \/ CreateFails(e) \/ WriteChunk(e) \/ WorkFails(e) \/ FlushAndSync(e)
    BY <1>3, <2>4 DEF CreateTemp, CreateFails, WriteChunk, WorkFails, FlushAndSync
  <2>5. CASE \/ ReplaceTarget(e) \/ ReplaceFails(e) \/ Complete(e) \/ CleanUp(e)
             \/ SendEvent(e) \/ ForwardEvent(e)
    BY <1>3, <2>5 DEF ReplaceTarget, ReplaceFails, Complete, CleanUp, SendEvent, ForwardEvent
  <2> QED BY <1>11, <2>1, <2>2, <2>3, <2>4, <2>5 DEF ExportStep, WorkerProgress, WorkerFailure
<1> QED BY <1>4, <1>5, <1>6, <1>7, <1>8, <1>9, <1>10, <1>11 DEF Next, SessionStep, CommandStep

\* No export that returned leaves a temporary file, and one that is tried again for ever is that
\* of a cancelled export (run_export, write_all).
THEOREM TempsAreOwned == Spec => []TempHasWorker
<1>1. Init => RetryInv
  BY DEF Init, RetryInv
<1>2. IInv /\ RetryInv => TempHasWorker
  BY DEF IInv, TypeOK, FileInv, RetryInv, Running, TempHasWorker
<1> QED BY <1>1, <1>2, RetryKeeps, ExportsSound, PTL DEF Spec

\* What replaces a file was offered for the open repository and confirmed as asked
\* (prepare_export, begin_export, close_repository, open_backend_locked).
THEOREM ConfirmedAsAsked == Spec => []ConfirmedAsOffered
<1>1. IInv => OfferIsCurrent
  <2> SUFFICES ASSUME IInv PROVE Cardinality(pending) <= 1
    BY DEF IInv, OfferInv, OfferIsCurrent
  <2>1. CASE pending = {}
    BY <2>1, FS_EmptySet
  <2>2. ASSUME NEW e \in pending PROVE Cardinality(pending) <= 1
    <3>1. pending = {e}
      BY DEF IInv, OfferInv
    <3>2. Cardinality({e}) = 1
      BY FS_Singleton
    <3> QED BY <3>1, <3>2
  <2> QED BY <2>1, <2>2
<1>2. IInv => InsideIsConfirmed
  BY DEF IInv, FileInv, InsideInv, InsideIsConfirmed, Returned
<1>3. IInv => ConfirmedAsOffered
  BY <1>1, <1>2 DEF ConfirmedAsOffered
<1> QED BY <1>3, ExportsSound, PTL

-----------------------------------------------------------------------------
(* The exports keep ExportPromise *)

Installed == {e \in Targets : stage[e] = "replaced" \/ result[e] = "complete"}
Outcome   == [e \in Targets |->
               IF stage[e] \in {"finished", "sent", "heard"} THEN result[e] ELSE "none"]

\* A step of the promise, or none.
PromiseStep == Promise!Next \/ UNCHANGED Promise!promiseVars

\* What the promise sees of a state, by the names used here.
LEMMA PromiseView ==
    /\ Promise!promiseVars = <<active, destination, Installed, Outcome>>
    /\ UNCHANGED <<active, destination, Installed, Outcome>> => PromiseStep
BY DEF Promise!promiseVars, Installed, Outcome, PromiseStep

\* At the start nothing runs and the file is the user's.
LEMMA PromiseInit == Init => Promise!Init
BY DEF Init, Promise!Init, NoTarget, Targets

\* What leaves the stages, the results, the active export and the file alone is not seen.
LEMMA Unseen == ASSUME UNCHANGED <<active, stage, result, destination>> PROVE PromiseStep
<1>1. UNCHANGED <<Installed, Outcome>>
  BY DEF Installed, Outcome
<1> QED BY <1>1, PromiseView

\* Nor is the stage of a worker that neither replaces the file nor ends.
LEMMA UnseenStage ==
    ASSUME IInv, NEW e \in Targets, NEW s, stage' = [stage EXCEPT ![e] = s],
           UNCHANGED <<active, result, destination>>,
           stage[e] = "replaced" <=> s = "replaced",
           stage[e] \in {"finished", "sent", "heard"} <=> s \in {"finished", "sent", "heard"}
    PROVE  PromiseStep
<1>1. \A f \in Targets : f # e => stage'[f] = stage[f]
  BY DEF IInv, TypeOK
<1>2. stage'[e] = s
  BY DEF IInv, TypeOK
<1>3. UNCHANGED <<Installed, Outcome>>
  BY <1>1, <1>2 DEF Installed, Outcome
<1> QED BY <1>3, PromiseView

\* A confirmed target is an export that begins.
LEMMA ConfirmPromised ==
    ASSUME IInv, NEW e \in Targets, NEW allowInside \in BOOLEAN, ConfirmExport(e, allowInside)
    PROVE  PromiseStep
<1>1. /\ active = NoTarget /\ stage[e] = "offered" /\ UNCHANGED <<destination, result>>
  BY DEF ConfirmExport, IInv, OfferInv
<1>2. CASE UNCHANGED <<active, stage>>
  BY <1>1, <1>2, Unseen
<1>3. CASE active' = e /\ stage' = [stage EXCEPT ![e] = "queued"]
  <2>1. \A f \in Targets : f # e => stage'[f] = stage[f]
    BY <1>3 DEF IInv, TypeOK
  <2>2. stage'[e] = "queued"
    BY <1>3 DEF IInv, TypeOK
  <2>3. UNCHANGED <<Installed, Outcome>>
    BY <1>1, <2>1, <2>2 DEF Installed, Outcome
  <2>4. Outcome[e] = "none"
    BY <1>1 DEF Outcome
  <2>5. Promise!Begin(e)
    BY <1>1, <1>3, <2>3, <2>4 DEF Promise!Begin, Installed, Outcome
  <2> QED BY <2>5 DEF PromiseStep, Promise!Next
<1> QED BY <1>2, <1>3 DEF ConfirmExport

\* atomic_replace is what changes the file.
LEMMA ReplacePromised ==
    ASSUME IInv, NEW e \in Targets, ReplaceTarget(e)
    PROVE  PromiseStep
<1>1. /\ stage[e] = "checked" /\ stage' = [stage EXCEPT ![e] = "replaced"]
      /\ destination' = e /\ UNCHANGED <<active, result>>
  BY DEF ReplaceTarget, Advance
<1>2. active = e /\ result[e] = "none"
  BY <1>1 DEF IInv, ActiveIffRunning, Running, FileInv, Returned
<1>3. \A f \in Targets : stage'[f] = IF f = e THEN "replaced" ELSE stage[f]
  BY <1>1 DEF IInv, TypeOK
<1>4. e \notin Installed /\ Installed' = Installed \cup {e}
  BY <1>1, <1>2, <1>3 DEF Installed
<1>5. UNCHANGED Outcome
  BY <1>1, <1>3 DEF Outcome
<1>6. Promise!Install(e)
  BY <1>1, <1>2, <1>4, <1>5 DEF Promise!Install, Installed, Outcome
<1> QED BY <1>6 DEF PromiseStep, Promise!Next

\* The worker returns: who has replaced the file reports it, who has not does not.
LEMMA ReturnPromised ==
    ASSUME IInv, NEW e \in Targets, Complete(e) \/ CleanUp(e)
    PROVE  PromiseStep
<1>1. PICK verdict \in {"complete", "failed", "cancelled"} :
        /\ stage[e] \in {"replaced", "failed"} /\ (stage[e] = "replaced" <=> verdict = "complete")
        /\ stage' = [stage EXCEPT ![e] = "returned"]
        /\ result' = [result EXCEPT ![e] = verdict]
        /\ UNCHANGED <<active, destination>>
  BY DEF Complete, CleanUp, Advance
<1>2. result[e] = "none"
  BY <1>1 DEF IInv, FileInv, Returned
<1>3. \A f \in Targets : /\ stage'[f] = IF f = e THEN "returned" ELSE stage[f]
                         /\ result'[f] = IF f = e THEN verdict ELSE result[f]
  BY <1>1 DEF IInv, TypeOK
<1>4. UNCHANGED <<Installed, Outcome>>
  BY <1>1, <1>2, <1>3 DEF Installed, Outcome
<1> QED BY <1>1, <1>4, PromiseView

\* finish_export is the end of the export, with the outcome its worker returned.
LEMMA FinishPromised ==
    ASSUME IInv, NEW e \in Targets, FinishExport(e)
    PROVE  PromiseStep
<1>1. /\ stage[e] = "returned" /\ stage' = [stage EXCEPT ![e] = "finished"]
      /\ active' = IF active = e THEN NoTarget ELSE active
      /\ UNCHANGED <<destination, result>>
  BY DEF FinishExport, Advance
<1>2. active = e /\ active' = NoTarget
  BY <1>1 DEF IInv, ActiveIffRunning
<1>3. result[e] \in {"complete", "failed", "cancelled"}
  BY <1>1 DEF IInv, TypeOK, FileInv, Returned, Results
<1>4. \A f \in Targets : stage'[f] = IF f = e THEN "finished" ELSE stage[f]
  BY <1>1 DEF IInv, TypeOK
<1>5. UNCHANGED Installed /\ (e \in Installed <=> result[e] = "complete")
  BY <1>1, <1>4 DEF Installed
<1>6. Outcome' = [Outcome EXCEPT ![e] = result[e]]
  BY <1>1, <1>4 DEF Outcome
<1>7. result[e] \in IF e \in Installed THEN {"complete"} ELSE {"failed", "cancelled"}
  BY <1>3, <1>5
<1>8. Promise!End(e)
  BY <1>1, <1>2, <1>5, <1>6, <1>7 DEF Promise!End, Installed, Outcome
<1> QED BY <1>8 DEF PromiseStep, Promise!Next

\* The other steps of a worker and of its task are not seen.
LEMMA ExportPromised == ASSUME IInv, NEW e \in Targets, ExportStep(e) PROVE PromiseStep
<1>1. CASE \/ CreateTemp(e) \/ WriteChunk(e) \/ WriteInterrupted(e) \/ FlushAndSync(e)
           \/ CheckCancelled(e) \/ WorkerFailure(e)
  <2>1. PICK s \in {"writing", "retrying", "synced", "checked", "failed"} :
          /\ stage[e] \in {"queued", "writing", "synced", "checked"}
          /\ stage' = [stage EXCEPT ![e] = s]
          /\ UNCHANGED <<active, result, destination>>
    BY <1>1 DEF CreateTemp, WriteChunk, WriteInterrupted, FlushAndSync, CheckCancelled,
       WorkerFailure, CreateFails, WorkFails, ReplaceFails, Advance
  <2> QED BY <2>1, UnseenStage
<1>2. CASE SendEvent(e) \/ ForwardEvent(e)
  <2>1. PICK s \in {"sent", "heard"} :
          /\ stage[e] \in {"finished", "sent"}
          /\ stage' = [stage EXCEPT ![e] = s]
          /\ UNCHANGED <<active, result, destination>>
    BY <1>2 DEF SendEvent, ForwardEvent, Advance
  <2> QED BY <2>1, UnseenStage
<1> QED BY <1>1, <1>2, ReplacePromised, ReturnPromised, FinishPromised
     DEF ExportStep, WorkerProgress

\* Neither are the session, the registry and the offers.
LEMMA CommandPromised == ASSUME IInv, SessionStep \/ CommandStep PROVE PromiseStep
<1>1. ASSUME NEW e \in Targets, NEW inside \in BOOLEAN, PathChosen(e, inside) PROVE PromiseStep
  <2>1. stage[e] = "unused"
    BY <1>1, NextTarget
  <2> QED BY <1>1, <2>1, UnseenStage DEF PathChosen
<1>2. ASSUME NEW e \in Targets, NEW allowInside \in BOOLEAN, ConfirmExport(e, allowInside)
      PROVE  PromiseStep
  BY <1>2, ConfirmPromised
<1>3. CASE \/ SessionStep
           \/ SelectRepository \/ NothingSelected
           \/ \E detected \in (SUBSET Backends) \ {{}} : FolderSelected(detected)
           \/ \E b \in Backends : OpenCandidate(b)
           \/ CloseRepository \/ OpenDiff \/ OpenSaveDialog \/ SaveDismissed
           \/ \E e \in Targets : CancelExport(e)
  <2>1. UNCHANGED <<active, stage, result, destination>>
    BY <1>3 DEF SessionStep, Connect, EndSession, Exit, SelectRepository, NothingSelected,
       FolderSelected, OpenCandidate, CloseRepository, OpenDiff, OpenSaveDialog, SaveDismissed,
       CancelExport, exportVars
  <2> QED BY <2>1, Unseen
<1> QED BY <1>1, <1>2, <1>3 DEF CommandStep

\* The page is never told of an export that did not happen, nor spared one that did: every
\* behaviour of the exports is one of ExportPromise.
THEOREM KeepsPromise == Spec => PromiseKept
<1>1. Init => Promise!Init
  BY PromiseInit
<1>2. IInv /\ [Next]_vars => [Promise!Next]_(Promise!promiseVars)
  <2> SUFFICES ASSUME IInv, [Next]_vars PROVE PromiseStep
    BY DEF PromiseStep
  <2>1. CASE UNCHANGED vars
    BY <2>1, Unseen DEF vars, exportVars
  <2> QED BY <2>1, CommandPromised, ExportPromised DEF Next
<1> QED BY <1>1, <1>2, ExportsSound, PTL DEF Spec, PromiseKept, Promise!Spec

-----------------------------------------------------------------------------
(* Numbers and recursion *)

\* Induction over a set of numbers: what is left has no least element.
LEMMA SetInduction ==
  ASSUME NEW S \in SUBSET Nat, 0 \in S, \A n \in S : n + 1 \in S
  PROVE  S = Nat
<1> DEFINE T == Nat \ S
<1> SUFFICES ASSUME T # {} PROVE FALSE
  OBVIOUS
<1>1. PICK x \in T : \A y \in T : ~ (<<y, x>> \in OpToRel(<, Nat))
  <2>1. T \in SUBSET Nat
    OBVIOUS
  <2> HIDE DEF T
  <2> QED BY <2>1, NatLessThanWellFounded, WFMin
<1>2. \A y \in T : ~(y < x)
  BY <1>1 DEF OpToRel
<1>3. x - 1 \in S
  BY <1>2
<1>4. (x - 1) + 1 = x
  OBVIOUS
<1> QED BY <1>3, <1>4

\* f is given by its first value and a step, up to n.
Recursive(f, X, a, step, n) ==
  f \in [0 .. n -> X] /\ f[0] = a /\ \A i \in 1 .. n : f[i] = step[i][f[i - 1]]

\* There is such a function.
LEMMA Recursion ==
  ASSUME NEW X, NEW a \in X, NEW m \in Nat, NEW step \in [1 .. m -> [X -> X]]
  PROVE  \E f : Recursive(f, X, a, step, m)
<1> DEFINE S == {k \in Nat : k <= m => \E f : Recursive(f, X, a, step, k)}
<1>1. 0 \in S
  <2>1. Recursive([n \in 0 .. 0 |-> a], X, a, step, 0)
    BY DEF Recursive
  <2> QED BY <2>1
<1>2. ASSUME NEW k \in S PROVE k + 1 \in S
  <2> SUFFICES ASSUME k + 1 <= m PROVE \E f : Recursive(f, X, a, step, k + 1)
    OBVIOUS
  <2>1. PICK f : Recursive(f, X, a, step, k)
    OBVIOUS
  <2> DEFINE g == [n \in 0 .. k + 1 |-> IF n = k + 1 THEN step[k + 1][f[k]] ELSE f[n]]
  <2>2. step[k + 1][f[k]] \in X
    BY <2>1 DEF Recursive
  <2>3. g \in [0 .. k + 1 -> X] /\ g[0] = a
    BY <2>1, <2>2 DEF Recursive
  <2>4. ASSUME NEW n \in 1 .. k + 1 PROVE g[n] = step[n][g[n - 1]]
    BY <2>1 DEF Recursive
  <2> HIDE DEF g
  <2>5. Recursive(g, X, a, step, k + 1)
    BY <2>3, <2>4 DEF Recursive
  <2> QED BY <2>5
<1> HIDE DEF S
<1>3. S = Nat
  <2>1. S \in SUBSET Nat
    BY DEF S
  <2> QED BY <1>1, <1>2, <2>1, SetInduction
<1>4. m \in S /\ m <= m
  BY <1>3
<1> QED BY <1>4 DEF S

-----------------------------------------------------------------------------
(* Lists *)

Before(kind, a, b) == IF kind = "files" THEN a < b ELSE a > b

\* q lists what is in T, in the order of the list.
IsList(kind, q, T) ==
  /\ q \in Seq(Entries)
  /\ \A e : e \in T <=> \E i \in 1 .. Len(q) : q[i] = e
  /\ \A i, j \in 1 .. Len(q) : i < j => Before(kind, q[i], q[j])

\* The list q, and n if it is in S.
OneMore(kind, S, n, q) ==
  IF n \notin S THEN q ELSE IF kind = "files" THEN Append(q, n) ELSE <<n>> \o q

\* How Lists goes on.
LEMMA ListsGoOn ==
  ASSUME NEW kind, NEW S
  PROVE  LET q == Lists(kind, S)
         IN  q[0] = <<>> /\ \A n \in 1 .. MaxEntries : q[n] = OneMore(kind, S, n, q[n - 1])
<1> DEFINE X    == Seq(Entries)
           R(f) == [n \in 0 .. MaxEntries |-> IF n = 0 THEN <<>> ELSE OneMore(kind, S, n, f[n - 1])]
           step == [n \in 1 .. MaxEntries |-> [q \in X |-> OneMore(kind, S, n, q)]]
<1>1. MaxEntries \in Nat /\ <<>> \in X
  BY PageAssumption
<1>2. ASSUME NEW n \in 1 .. MaxEntries, NEW q \in X PROVE OneMore(kind, S, n, q) \in X
  <2>1. n \in Entries
    BY DEF Entries
  <2> QED BY <2>1 DEF OneMore
<1> HIDE DEF X
<1>3. step \in [1 .. MaxEntries -> [X -> X]]
  BY <1>2
<1>4. PICK f : Recursive(f, X, <<>>, step, MaxEntries)
  <2> HIDE DEF step
  <2> QED BY <1>1, <1>3, Recursion
<1>5. ASSUME NEW n \in 1 .. MaxEntries PROVE f[n] = OneMore(kind, S, n, f[n - 1])
  <2>1. f[n - 1] \in X
    BY <1>1, <1>4 DEF Recursive
  <2> QED BY <1>4, <2>1 DEF Recursive
<1>6. f = R(f)
  <2>1. f \in [0 .. MaxEntries -> X] /\ f[0] = <<>>
    BY <1>4 DEF Recursive
  <2>2. \A n \in 0 .. MaxEntries : f[n] = R(f)[n]
    BY <1>1, <1>5, <2>1
  <2> QED BY <2>1, <2>2
<1>7. Lists(kind, S) = R(Lists(kind, S))
  <2>1. Lists(kind, S) = CHOOSE h : h = R(h)
    BY DEF Lists, OneMore
  <2> HIDE DEF R
  <2> QED BY <1>6, <2>1
<1> DEFINE g == Lists(kind, S)
<1> HIDE DEF g
<1>8. g = [n \in 0 .. MaxEntries |-> IF n = 0 THEN <<>> ELSE OneMore(kind, S, n, g[n - 1])]
  BY <1>7 DEF g
<1> HIDE DEF R
<1>9. g[0] = <<>> /\ \A n \in 1 .. MaxEntries : g[n] = OneMore(kind, S, n, g[n - 1])
  BY <1>1, <1>8
<1> QED BY <1>9 DEF g

\* One more at the end of a list of files,
LEMMA AppendLists ==
  ASSUME NEW q, NEW T, IsList("files", q, T), NEW n \in Entries, \A e \in T : e < n
  PROVE  IsList("files", Append(q, n), T \cup {n})
<1> DEFINE r == Append(q, n)
<1>1. q \in Seq(Entries)
  BY DEF IsList
<1>2. r \in Seq(Entries) /\ Len(r) = Len(q) + 1 /\ Len(q) \in Nat /\ r[Len(q) + 1] = n
      /\ \A i \in 1 .. Len(q) : r[i] = q[i]
  BY <1>1
<1> HIDE DEF r
<1>3. \A i \in 1 .. Len(r) : i \in 1 .. Len(q) \/ i = Len(q) + 1
  BY <1>2
<1>4. \A i \in 1 .. Len(q) : q[i] \in T /\ q[i] < n
  BY DEF IsList
<1>5. \A e : e \in T \cup {n} <=> \E i \in 1 .. Len(r) : r[i] = e
  <2>1. ASSUME NEW e \in T PROVE \E i \in 1 .. Len(r) : r[i] = e
    <3>1. PICK i \in 1 .. Len(q) : q[i] = e
      BY DEF IsList
    <3> QED BY <1>2, <3>1
  <2>2. \E i \in 1 .. Len(r) : r[i] = n
    BY <1>2
  <2>3. ASSUME NEW i \in 1 .. Len(r) PROVE r[i] \in T \cup {n}
    BY <1>2, <1>3, <1>4
  <2> QED BY <2>1, <2>2, <2>3
<1>6. ASSUME NEW i \in 1 .. Len(r), NEW j \in 1 .. Len(r), i < j
      PROVE  r[i] < r[j]
  <2>1. i \in 1 .. Len(q) /\ r[i] = q[i]
    BY <1>2, <1>6
  <2>2. CASE j = Len(q) + 1
    BY <1>2, <1>4, <2>1, <2>2
  <2>3. CASE j \in 1 .. Len(q)
    BY <1>2, <1>6, <2>1, <2>3 DEF IsList, Before
  <2> QED BY <1>3, <2>2, <2>3
<1> QED BY <1>2, <1>5, <1>6 DEF IsList, Before, r

\* and at the head of a history.
LEMMA PrependLists ==
  ASSUME NEW kind, kind # "files", NEW q, NEW T, IsList(kind, q, T), NEW n \in Entries,
         \A e \in T : e < n
  PROVE  IsList(kind, <<n>> \o q, T \cup {n})
<1> DEFINE r == <<n>> \o q
<1>1. q \in Seq(Entries)
  BY DEF IsList
<1>2. r \in Seq(Entries) /\ Len(r) = Len(q) + 1 /\ Len(q) \in Nat /\ r[1] = n
      /\ \A i \in 2 .. Len(r) : r[i] = q[i - 1]
  BY <1>1
<1> HIDE DEF r
<1>3. \A i \in 2 .. Len(r) : i - 1 \in 1 .. Len(q)
  BY <1>2
<1>4. \A i \in 1 .. Len(q) : q[i] \in T /\ q[i] < n
  BY DEF IsList
<1>5. \A e : e \in T \cup {n} <=> \E i \in 1 .. Len(r) : r[i] = e
  <2>1. ASSUME NEW e \in T PROVE \E i \in 1 .. Len(r) : r[i] = e
    <3>1. PICK i \in 1 .. Len(q) : q[i] = e
      BY DEF IsList
    <3>2. i + 1 \in 2 .. Len(r) /\ (i + 1) - 1 = i /\ i + 1 \in 1 .. Len(r)
      BY <1>2
    <3> QED BY <1>2, <3>1, <3>2
  <2>2. \E i \in 1 .. Len(r) : r[i] = n
    BY <1>2
  <2>3. ASSUME NEW i \in 1 .. Len(r) PROVE r[i] \in T \cup {n}
    <3>1. i = 1 \/ i \in 2 .. Len(r)
      BY <1>2
    <3> QED BY <1>2, <1>3, <1>4, <3>1
  <2> QED BY <2>1, <2>2, <2>3
<1>6. ASSUME NEW i \in 1 .. Len(r), NEW j \in 1 .. Len(r), i < j
      PROVE  r[i] > r[j]
  <2>1. j \in 2 .. Len(r) /\ r[j] = q[j - 1] /\ j - 1 \in 1 .. Len(q)
    BY <1>2, <1>3, <1>6
  <2>2. CASE i = 1
    <3>1. q[j - 1] < n
      BY <1>4, <2>1
    <3>2. q[j - 1] \in Entries
      BY <1>1, <2>1
    <3> QED BY <1>2, <2>1, <2>2, <3>1, <3>2 DEF Entries
  <2>3. CASE i \in 2 .. Len(r)
    <3>1. i - 1 \in 1 .. Len(q) /\ i - 1 < j - 1 /\ r[i] = q[i - 1]
      BY <1>2, <1>3, <1>6, <2>3
    <3> QED BY <2>1, <3>1 DEF IsList, Before
  <2> QED BY <1>2, <2>2, <2>3
<1> QED BY <1>2, <1>5, <1>6 DEF IsList, Before, r

\* Lists(kind, S) lists S.
LEMMA ListsList ==
  ASSUME NEW kind, NEW S \in SUBSET Entries
  PROVE  IsList(kind, Lists(kind, S)[MaxEntries], S)
<1> DEFINE q == Lists(kind, S)
           Up(n) == {e \in S : e <= n}
           P == {n \in Nat : n <= MaxEntries => IsList(kind, q[n], Up(n))}
<1>1. MaxEntries \in Nat /\ \A e \in S : e \in 1 .. MaxEntries
  BY PageAssumption DEF Entries
<1>2. q[0] = <<>> /\ \A n \in 1 .. MaxEntries : q[n] = OneMore(kind, S, n, q[n - 1])
  BY ListsGoOn
<1> HIDE DEF q
<1>3. 0 \in P
  <2>1. Up(0) = {}
    BY <1>1
  <2>2. IsList(kind, <<>>, {})
    BY DEF IsList
  <2> QED BY <1>2, <2>1, <2>2
<1>4. ASSUME NEW n \in P PROVE n + 1 \in P
  <2> SUFFICES ASSUME n + 1 <= MaxEntries PROVE IsList(kind, q[n + 1], Up(n + 1))
    OBVIOUS
  <2>1. IsList(kind, q[n], Up(n)) /\ n \in Nat /\ n + 1 \in Entries
    BY <1>1 DEF Entries
  <2>2. q[n + 1] = OneMore(kind, S, n + 1, q[n])
    <3>1. n + 1 \in 1 .. MaxEntries /\ (n + 1) - 1 = n
      BY <2>1
    <3> QED BY <1>2, <3>1
  <2>3. \A e \in Up(n) : e < n + 1
    BY <1>1, <2>1
  <2>4. CASE n + 1 \notin S
    <3>1. Up(n + 1) = Up(n)
      BY <1>1, <2>1, <2>4
    <3> QED BY <2>1, <2>2, <2>4, <3>1 DEF OneMore
  <2>5. CASE n + 1 \in S
    <3>1. Up(n + 1) = Up(n) \cup {n + 1}
      BY <1>1, <2>1, <2>5
    <3> DEFINE T == Up(n)
    <3> HIDE DEF T
    <3>2. CASE kind = "files"
      <4>1. q[n + 1] = Append(q[n], n + 1)
        BY <2>2, <2>5, <3>2 DEF OneMore
      <4>2. IsList("files", Append(q[n], n + 1), T \cup {n + 1})
        BY <2>1, <2>3, <3>2, AppendLists DEF T
      <4> QED BY <3>1, <3>2, <4>1, <4>2 DEF T
    <3>3. CASE kind # "files"
      <4>1. q[n + 1] = <<n + 1>> \o q[n]
        BY <2>2, <2>5, <3>3 DEF OneMore
      <4>2. IsList(kind, <<n + 1>> \o q[n], T \cup {n + 1})
        BY <2>1, <2>3, <3>3, PrependLists DEF T
      <4> QED BY <3>1, <4>1, <4>2 DEF T
    <3> QED BY <3>2, <3>3
  <2> QED BY <2>4, <2>5
<1> HIDE DEF P
<1>5. P = Nat
  <2>1. P \in SUBSET Nat
    BY DEF P
  <2> QED BY <1>3, <1>4, <2>1, SetInduction
<1>6. MaxEntries \in P /\ MaxEntries <= MaxEntries
  BY <1>1, <1>5
<1>7. Up(MaxEntries) = S
  BY <1>1
<1> QED BY <1>6, <1>7 DEF P, q

\* What Ordered gives the pages.
LEMMA OrderedLists ==
  ASSUME NEW S \in SUBSET Entries
  PROVE  IsList(listing, Ordered(S), S)
BY ListsList DEF Ordered

\* In a list with more in it, nothing stands further to the front.
LEMMA LaterInMore ==
  ASSUME NEW kind, NEW q, NEW S, IsList(kind, q, S), NEW r, NEW T, IsList(kind, r, T), S \subseteq T
  PROVE  \A i \in 1 .. Len(q) : \E j \in 1 .. Len(r) : j >= i /\ r[j] = q[i]
<1> DEFINE At(i) == \E j \in 1 .. Len(r) : j >= i /\ r[j] = q[i]
           P == {n \in Nat : n \in 1 .. Len(q) => At(n)}
<1>1. q \in Seq(Entries) /\ r \in Seq(Entries) /\ Len(q) \in Nat /\ Len(r) \in Nat
  BY DEF IsList
<1>2. /\ \A i, j \in 1 .. Len(q) : i < j => Before(kind, q[i], q[j])
      /\ \A i, j \in 1 .. Len(r) : i < j => Before(kind, r[i], r[j])
  BY DEF IsList
<1>3. ASSUME NEW i \in 1 .. Len(q) PROVE \E j \in 1 .. Len(r) : r[j] = q[i]
  <2>1. q[i] \in T
    BY DEF IsList
  <2> QED BY <2>1 DEF IsList
<1>4. 0 \in P
  OBVIOUS
<1>5. ASSUME NEW n \in P PROVE n + 1 \in P
  <2> SUFFICES ASSUME n + 1 \in 1 .. Len(q) PROVE At(n + 1)
    OBVIOUS
  <2>1. n \in Nat /\ (n \in 1 .. Len(q) => At(n))
    OBVIOUS
  <2>2. PICK j \in 1 .. Len(r) : r[j] = q[n + 1]
    BY <1>3
  <2>3. CASE n = 0
    BY <2>2, <2>3
  <2>4. CASE n # 0
    <3>1. n \in 1 .. Len(q) /\ n < n + 1
      BY <1>1, <2>1, <2>4
    <3>2. PICK k \in 1 .. Len(r) : k >= n /\ r[k] = q[n]
      BY <2>1, <3>1
    <3>3. Before(kind, q[n], q[n + 1])
      BY <1>2, <3>1
    <3>4. q[n] \in Nat /\ q[n + 1] \in Nat
      <4>1. q[n] \in Entries /\ q[n + 1] \in Entries
        BY <1>1, <3>1
      <4> QED BY <4>1 DEF Entries
    <3>5. ~Before(kind, q[n + 1], q[n]) /\ q[n] # q[n + 1]
      BY <3>3, <3>4 DEF Before
    <3>6. ~(j < k) /\ j # k
      BY <1>2, <2>2, <3>2, <3>5
    <3>7. j >= n + 1
      BY <1>1, <2>1, <3>2, <3>6
    <3> QED BY <2>2, <3>7
  <2> QED BY <2>3, <2>4
<1> HIDE DEF P
<1>6. P = Nat
  <2>1. P \in SUBSET Nat
    BY DEF P
  <2> QED BY <1>4, <1>5, <2>1, SetInduction
<1>7. \A i \in 1 .. Len(q) : i \in P
  BY <1>1, <1>6
<1> QED BY <1>7 DEF P

-----------------------------------------------------------------------------
(* The part of a page that fits *)

SizesKnown == size \in [Entries -> Sizes]

\* The size of a beginning, and of one item more.
LEMMA SizesAddUp ==
  ASSUME SizesKnown, NEW items \in Seq(Entries)
  PROVE  LET sum == SizeUpTo(items, Entries)
         IN  /\ sum[0] = 0
             /\ \A n \in 1 .. Len(items) : sum[n] = sum[n - 1] + size[items[n]]
             /\ \A n \in 0 .. Len(items) : sum[n] \in Nat
             /\ \A n \in 1 .. Len(items) : size[items[n]] \in Nat
<1> DEFINE m    == Len(items)
           part(n) == IF items[n] \in Entries THEN size[items[n]] ELSE 0
           R(f) == [n \in 0 .. m |-> IF n = 0 THEN 0 ELSE f[n - 1] + part(n)]
           step == [n \in 1 .. m |-> [x \in Nat |-> x + size[items[n]]]]
<1>1. m \in Nat /\ \A n \in 1 .. m : size[items[n]] \in Nat
  <2>1. \A n \in 1 .. m : items[n] \in Entries
    OBVIOUS
  <2>2. \A e \in Entries : size[e] \in Nat
    <3>1. Sizes \subseteq Nat
      BY PageAssumption
    <3> QED BY <3>1 DEF SizesKnown
  <2> QED BY <2>1, <2>2
<1> HIDE DEF m
<1>2. step \in [1 .. m -> [Nat -> Nat]]
  BY <1>1
<1>3. PICK f : Recursive(f, Nat, 0, step, m)
  <2> HIDE DEF step
  <2> QED BY <1>1, <1>2, Recursion
<1>4. ASSUME NEW n \in 1 .. m PROVE f[n] = f[n - 1] + size[items[n]]
  <2>1. f[n - 1] \in Nat
    BY <1>1, <1>3 DEF Recursive
  <2> QED BY <1>3, <2>1 DEF Recursive
<1>0. \A n \in 1 .. m : part(n) = size[items[n]]
  BY DEF m
<1> HIDE DEF part
<1>5. f = R(f)
  <2>1. f \in [0 .. m -> Nat] /\ f[0] = 0
    BY <1>3 DEF Recursive
  <2>2. \A n \in 1 .. m : f[n] = f[n - 1] + part(n)
    BY <1>0, <1>4
  <2>3. \A n \in 0 .. m : n = 0 \/ n \in 1 .. m
    BY <1>1
  <2>4. f = [n \in 0 .. m |-> f[n]]
    BY <2>1
  <2>5. \A n \in 0 .. m : f[n] = IF n = 0 THEN 0 ELSE f[n - 1] + part(n)
    BY <2>1, <2>2, <2>3
  <2> QED BY <2>4, <2>5
<1> DEFINE g == SizeUpTo(items, Entries)
<1>6. g = R(g)
  <2>1. g = CHOOSE h : h = R(h)
    BY DEF SizeUpTo, m, part
  <2> HIDE DEF R, g
  <2> QED BY <1>5, <2>1
<1> HIDE DEF g
<1>7. g = [n \in 0 .. m |-> IF n = 0 THEN 0 ELSE g[n - 1] + part(n)]
  BY <1>6
<1> HIDE DEF R
<1>8. g[0] = 0 /\ \A n \in 1 .. m : g[n] = g[n - 1] + size[items[n]]
  BY <1>0, <1>1, <1>7
<1> DEFINE P == {n \in Nat : n <= m => g[n] \in Nat}
<1>9. 0 \in P
  BY <1>8
<1>10. ASSUME NEW n \in P PROVE n + 1 \in P
  <2> SUFFICES ASSUME n + 1 <= m PROVE g[n + 1] \in Nat
    OBVIOUS
  <2>1. g[n] \in Nat /\ n + 1 \in 1 .. m /\ (n + 1) - 1 = n
    BY <1>1
  <2> QED BY <1>1, <1>8, <2>1
<1> HIDE DEF P
<1>11. P = Nat
  <2>1. P \in SUBSET Nat
    BY DEF P
  <2> QED BY <1>9, <1>10, <2>1, SetInduction
<1>12. \A n \in 0 .. m : g[n] \in Nat
  BY <1>1, <1>11 DEF P
<1> QED BY <1>1, <1>8, <1>12 DEF g, m

\* What does not fit does not fit with more behind it.
LEMMA FitsLess ==
  ASSUME SizesKnown, NEW items \in Seq(Entries), NEW k \in 0 .. Len(items), ~Fits(items, k),
         NEW n \in k .. Len(items)
  PROVE  ~Fits(items, n)
<1> DEFINE g == SizeUpTo(items, Entries)
           P == {i \in Nat : k + i <= Len(items) => ~(g[k + i] <= Budget)}
<1>1. /\ \A i \in 1 .. Len(items) : g[i] = g[i - 1] + size[items[i]]
      /\ \A i \in 0 .. Len(items) : g[i] \in Nat
      /\ \A i \in 1 .. Len(items) : size[items[i]] \in Nat
  BY SizesAddUp
<1>2. ~(g[k] <= Budget) /\ Len(items) \in Nat /\ Budget \in Nat
  BY PageAssumption DEF Fits
<1> HIDE DEF g
<1>3. 0 \in P
  <2>1. k + 0 = k
    OBVIOUS
  <2> QED BY <1>2, <2>1
<1>4. ASSUME NEW i \in P PROVE i + 1 \in P
  <2> SUFFICES ASSUME k + (i + 1) <= Len(items) PROVE ~(g[k + (i + 1)] <= Budget)
    OBVIOUS
  <2>1. ~(g[k + i] <= Budget) /\ k + i \in 0 .. Len(items)
    BY <1>2
  <2> DEFINE j == k + (i + 1)
  <2>2. j \in 1 .. Len(items) /\ j - 1 = k + i
    BY <1>2
  <2> HIDE DEF j
  <2>3. g[j] = g[k + i] + size[items[j]] /\ g[k + i] \in Nat /\ size[items[j]] \in Nat
    BY <1>1, <2>1, <2>2
  <2>4. ~(g[j] <= Budget)
    BY <1>2, <2>1, <2>3
  <2> QED BY <2>4 DEF j
<1> HIDE DEF P
<1>5. P = Nat
  <2>1. P \in SUBSET Nat
    BY DEF P
  <2> QED BY <1>3, <1>4, <2>1, SetInduction
<1>6. n - k \in P /\ k + (n - k) = n /\ n <= Len(items)
  BY <1>2, <1>5
<1> QED BY <1>6 DEF P, Fits, g

\* The intervals of the bisection.
Intervals == [low : Int, high : Int]

\* How the bisection goes on.
LEMMA BisectionGoesOn ==
  ASSUME NEW items \in Seq(Entries)
  PROVE  LET range == Bisection(items)
         IN  /\ range[0] = [low |-> 1, high |-> Len(items) - 1]
             /\ \A n \in 1 .. Len(items) : range[n] = Halved(items, range[n - 1])
<1> DEFINE m    == Len(items)
           a    == [low |-> 1, high |-> m - 1]
           R(f) == [n \in 0 .. m |-> IF n = 0 THEN a ELSE Halved(items, f[n - 1])]
           step == [n \in 1 .. m |-> [r \in Intervals |-> Halved(items, r)]]
<1>1. m \in Nat /\ a \in Intervals
  BY DEF Intervals
<1>2. ASSUME NEW r \in Intervals PROVE Halved(items, r) \in Intervals
  <2> DEFINE middle == r.low + (r.high - r.low + 1) \div 2
  <2>1. middle \in Int /\ middle - 1 \in Int
    BY DEF Intervals
  <2> HIDE DEF middle
  <2>2. [r EXCEPT !.low = middle] \in Intervals /\ [r EXCEPT !.high = middle - 1] \in Intervals
    BY <2>1 DEF Intervals
  <2> QED BY <2>2 DEF Halved, middle
<1> HIDE DEF m, a
<1>3. step \in [1 .. m -> [Intervals -> Intervals]]
  BY <1>2
<1>4. PICK f : Recursive(f, Intervals, a, step, m)
  <2> HIDE DEF step
  <2> QED BY <1>1, <1>3, Recursion
<1>5. ASSUME NEW n \in 1 .. m PROVE f[n] = Halved(items, f[n - 1])
  <2>1. f[n - 1] \in Intervals
    BY <1>1, <1>4 DEF Recursive
  <2> QED BY <1>4, <2>1 DEF Recursive
<1>6. f = R(f)
  <2>1. f \in [0 .. m -> Intervals] /\ f[0] = a
    BY <1>4 DEF Recursive
  <2>2. \A n \in 0 .. m : f[n] = R(f)[n]
    BY <1>1, <1>5, <2>1
  <2> QED BY <2>1, <2>2
<1> DEFINE g == Bisection(items)
<1>7. g = R(g)
  <2>1. g = CHOOSE h : h = R(h)
    BY DEF Bisection, m, a
  <2> HIDE DEF R, g
  <2> QED BY <1>6, <2>1
<1> HIDE DEF g
<1>8. g = [n \in 0 .. m |-> IF n = 0 THEN a ELSE Halved(items, g[n - 1])]
  BY <1>7
<1> HIDE DEF R
<1>9. g[0] = a /\ \A n \in 1 .. m : g[n] = Halved(items, g[n - 1])
  BY <1>1, <1>8
<1> QED BY <1>9 DEF g, m, a

\* The longest part that fits lies in the interval: low fits, high + 1 does not.
Bounds(items, r) ==
  /\ r \in [low : 1 .. Len(items) - 1, high : 1 .. Len(items) - 1] /\ r.low <= r.high
  /\ Fits(items, r.low) /\ ~Fits(items, r.high + 1)

\* A step of the bisection keeps that and makes the interval smaller.
LEMMA HalvedBounds ==
  ASSUME NEW items, Len(items) \in Nat, NEW r, Bounds(items, r)
  PROVE  LET s == Halved(items, r)
         IN  Bounds(items, s) /\ (s.low = s.high \/ s.high - s.low < r.high - r.low)
<1> DEFINE middle == r.low + (r.high - r.low + 1) \div 2
<1>1. r \in [low : 1 .. Len(items) - 1, high : 1 .. Len(items) - 1] /\ r.low <= r.high
      /\ Fits(items, r.low) /\ ~Fits(items, r.high + 1)
  BY DEF Bounds
<1>2. CASE r.low >= r.high
  BY <1>1, <1>2 DEF Halved
<1>3. CASE ~(r.low >= r.high)
  <2>1. middle \in r.low + 1 .. r.high
    BY <1>1, <1>3
  <2> HIDE DEF middle
  <2>2. CASE Fits(items, middle)
    <3>1. Halved(items, r) = [r EXCEPT !.low = middle]
      BY <1>3, <2>2 DEF Halved, middle
    <3> QED BY <1>1, <2>1, <2>2, <3>1 DEF Bounds
  <2>3. CASE ~Fits(items, middle)
    <3>1. Halved(items, r) = [r EXCEPT !.high = middle - 1]
      BY <1>3, <2>3 DEF Halved, middle
    <3>2. (middle - 1) + 1 = middle /\ middle - 1 \in r.low .. r.high - 1
      BY <1>1, <2>1
    <3> QED BY <1>1, <2>1, <2>3, <3>1, <3>2 DEF Bounds
  <2> QED BY <2>2, <2>3
<1> QED BY <1>2, <1>3

\* The bisection ends, with the last part that fits before one that does not (fit_page_prefix).
LEMMA LongestFits ==
  ASSUME NEW items \in Seq(Entries), Len(items) >= 2, Fits(items, 1), ~Fits(items, Len(items))
  PROVE  /\ Longest(items) \in 1 .. Len(items) - 1
         /\ Fits(items, Longest(items)) /\ ~Fits(items, Longest(items) + 1)
<1> DEFINE m == Len(items)
           g == Bisection(items)
           Met(r) == r.low = r.high
           P == {n \in Nat : n <= m => /\ Bounds(items, g[n])
                                       /\ Met(g[n]) \/ g[n].high - g[n].low <= m - 2 - n}
<1>1. g[0] = [low |-> 1, high |-> m - 1] /\ \A n \in 1 .. m : g[n] = Halved(items, g[n - 1])
  BY BisectionGoesOn
<1>2. m \in Nat /\ m >= 2 /\ Fits(items, 1) /\ ~Fits(items, m)
  OBVIOUS
<1> HIDE DEF g
<1>3. 0 \in P
  <2>1. (m - 1) + 1 = m /\ 1 \in 1 .. m - 1 /\ m - 1 \in 1 .. m - 1
    BY <1>2
  <2>2. g[0].low = 1 /\ g[0].high = m - 1
    BY <1>1
  <2>3. Bounds(items, g[0])
    BY <1>1, <1>2, <2>1, <2>2 DEF Bounds
  <2> QED BY <1>2, <2>2, <2>3
<1>4. ASSUME NEW n \in P PROVE n + 1 \in P
  <2> SUFFICES ASSUME n + 1 <= m
               PROVE  Bounds(items, g[n + 1])
                      /\ (Met(g[n + 1]) \/ g[n + 1].high - g[n + 1].low <= m - 2 - (n + 1))
    OBVIOUS
  <2>1. Bounds(items, g[n]) /\ (Met(g[n]) \/ g[n].high - g[n].low <= m - 2 - n)
    BY <1>2
  <2>2. g[n + 1] = Halved(items, g[n])
    <3>1. n + 1 \in 1 .. m /\ (n + 1) - 1 = n
      BY <1>2
    <3> QED BY <1>1, <3>1
  <2>3. Bounds(items, g[n + 1])
        /\ (Met(g[n + 1]) \/ g[n + 1].high - g[n + 1].low < g[n].high - g[n].low)
    BY <1>2, <2>1, <2>2, HalvedBounds
  <2>4. /\ g[n].low \in Int /\ g[n].high \in Int
        /\ g[n + 1].low \in Int /\ g[n + 1].high \in Int /\ g[n + 1].low <= g[n + 1].high
    BY <2>1, <2>3 DEF Bounds
  <2>5. n \in Nat
    OBVIOUS
  <2> HIDE DEF P
  <2>6. CASE Met(g[n])
    BY <2>3, <2>4, <2>6
  <2>7. CASE ~Met(g[n])
    BY <1>2, <2>1, <2>3, <2>4, <2>5, <2>7
  <2> QED BY <2>6, <2>7
<1> HIDE DEF P
<1>5. P = Nat
  <2>1. P \in SUBSET Nat
    BY DEF P
  <2> QED BY <1>3, <1>4, <2>1, SetInduction
<1>6. m \in P /\ m <= m
  BY <1>2, <1>5
<1>7. Bounds(items, g[m]) /\ (Met(g[m]) \/ g[m].high - g[m].low <= m - 2 - m)
  BY <1>6 DEF P
<1>8. g[m].low = g[m].high
  BY <1>2, <1>7 DEF Bounds
<1>9. Longest(items) = g[m].low
  BY DEF Longest, g
<1> QED BY <1>7, <1>8, <1>9 DEF Bounds

\* For all sizes: a page is refused exactly when its first item alone is too large, and what is
\* kept of it otherwise is the longest part that fits, which is something unless the page is
\* empty (fit_page_prefix).
THEOREM FitIsLongest ==
  ASSUME SizesKnown, NEW items \in Seq(Entries)
  PROVE  /\ Fit(items) = -1 <=> Len(items) > 0 /\ size[items[1]] > Budget
         /\ Fit(items) # -1 => /\ Fit(items) \in 0 .. Len(items) /\ Fits(items, Fit(items))
                               /\ \A n \in Fit(items) + 1 .. Len(items) : ~Fits(items, n)
                               /\ Fit(items) = 0 => Len(items) = 0
<1> DEFINE g == SizeUpTo(items, Entries)
           m == Len(items)
<1>1. /\ g[0] = 0 /\ \A n \in 1 .. m : g[n] = g[n - 1] + size[items[n]]
      /\ \A n \in 0 .. m : g[n] \in Nat
      /\ \A n \in 1 .. m : size[items[n]] \in Nat
  BY SizesAddUp
<1>2. m \in Nat /\ Budget \in Nat
  BY PageAssumption
<1>3. Fits(items, 0)
  BY <1>1, <1>2 DEF Fits
<1>4. m > 0 => (Fits(items, 1) <=> size[items[1]] <= Budget)
  <2> SUFFICES ASSUME m > 0 PROVE g[1] = size[items[1]]
    BY DEF Fits
  <2>1. 1 \in 1 .. m /\ 1 - 1 = 0
    BY <1>2
  <2> QED BY <1>1, <2>1
<1>5. m > 0 => size[items[1]] \in Nat
  BY <1>1, <1>2
<1> HIDE DEF g
<1>6. CASE Fits(items, m)
  <2>1. Fit(items) = m
    BY <1>6 DEF Fit
  <2>2. m > 0 => Fits(items, 1)
    BY <1>2, <1>6, FitsLess
  <2> QED BY <1>2, <1>4, <1>5, <1>6, <2>1, <2>2
<1>7. CASE ~Fits(items, m) /\ ~Fits(items, 1)
  <2>1. Fit(items) = -1
    BY <1>7 DEF Fit
  <2>2. m > 0
    BY <1>2, <1>3, <1>7
  <2> QED BY <1>2, <1>4, <1>5, <1>7, <2>1, <2>2
<1>8. CASE ~Fits(items, m) /\ Fits(items, 1)
  <2>1. m >= 2
    BY <1>2, <1>3, <1>8
  <2>2. Fit(items) = Longest(items)
    BY <1>8 DEF Fit
  <2>3. Fit(items) \in 1 .. m - 1 /\ Fits(items, Fit(items)) /\ ~Fits(items, Fit(items) + 1)
    BY <1>8, <2>1, <2>2, LongestFits
  <2>4. \A n \in Fit(items) + 1 .. m : ~Fits(items, n)
    BY <1>2, <2>3, FitsLess
  <2> QED BY <1>2, <1>4, <1>5, <1>8, <2>1, <2>3, <2>4
<1> QED BY <1>6, <1>7, <1>8

-----------------------------------------------------------------------------
(* The reader of a list *)

\* What a page of a history or of the files of a diff is cut from.
Walk == Ordered(Listed \cap matching)

ListingInv ==
  /\ head <= youngest
  /\ listing # "git" => changed = "no"
  /\ listing = "files" => matching = Entries

\* Where the cursor counts: what has not been shown lies behind it, unless the list has shrunk.
CountedInv ==
  reader = "reading" /\ listing # "svn" =>
    /\ changed # "shrunk" =>
         /\ skip <= Len(Walk)
         /\ \A e \in wanted : shown[e] > 0 \/ \E i \in skip + 1 .. Len(Walk) : Walk[i] = e
    /\ changed = "no" => \A i \in skip + 1 .. Len(Walk) : shown[Walk[i]] = 0

\* Where it is a revision: what has not been shown is no newer, and what was shown is newer.
RevisionInv ==
  reader = "reading" /\ listing = "svn" =>
    /\ wanted \subseteq relevant \cap matching \cap 1 .. head
    /\ \A e \in wanted : shown[e] > 0 \/ skip = 0 \/ e <= skip
    /\ \A e \in Entries : skip = 0 \/ e <= skip => shown[e] = 0

PagesInv == PagesTypeOK /\ ListingInv /\ EachShownOnce /\ CountedInv /\ RevisionInv

\* A beginning of a sequence.
LEMMA PrefixFacts ==
  ASSUME NEW X, NEW q \in Seq(X), NEW n \in Nat
  PROVE  /\ Prefix(n, q) \in Seq(X)
         /\ Len(Prefix(n, q)) = IF n < Len(q) THEN n ELSE Len(q)
         /\ \A i \in 1 .. Len(Prefix(n, q)) : Prefix(n, q)[i] = q[i]
<1> DEFINE m == IF n < Len(q) THEN n ELSE Len(q)
<1>1. m \in 0 .. Len(q) /\ Prefix(n, q) = SubSeq(q, 1, m)
  BY DEF Prefix
<1> HIDE DEF m
<1>2. SubSeq(q, 1, m) \in Seq(X) /\ Len(SubSeq(q, 1, m)) = m
      /\ \A i \in 1 .. m : SubSeq(q, 1, m)[i] = q[i]
  BY <1>1
<1> QED BY <1>1, <1>2 DEF m

\* What is left of a sequence, if anything is.
LEMMA RestFacts ==
  ASSUME NEW X, NEW q \in Seq(X), NEW n \in Nat
  PROVE  LET t == SubSeq(q, n + 1, Len(q))
         IN  /\ t \in Seq(X) /\ Len(t) = IF n <= Len(q) THEN Len(q) - n ELSE 0
             /\ \A i \in 1 .. Len(t) : t[i] = q[n + i]
<1> DEFINE t == SubSeq(q, n + 1, Len(q))
<1>1. CASE n <= Len(q)
  <2>1. t \in Seq(X) /\ Len(t) = Len(q) - n
    BY <1>1
  <2>2. \A i \in 1 .. Len(q) - n : t[i] = q[n + i]
    BY <1>1
  <2> QED BY <1>1, <2>1, <2>2
<1>2. CASE ~(n <= Len(q))
  <2>1. t = <<>>
    BY <1>2
  <2> QED BY <1>2, <2>1
<1> QED BY <1>1, <1>2

\* No list has an entry twice.
LEMMA ListApart ==
  ASSUME NEW kind, NEW q, NEW T, IsList(kind, q, T)
  PROVE  \A i, j \in 1 .. Len(q) : q[i] = q[j] => i = j
<1> SUFFICES ASSUME NEW i \in 1 .. Len(q), NEW j \in 1 .. Len(q), q[i] = q[j] PROVE i = j
  OBVIOUS
<1>1. q \in Seq(Entries)
  BY DEF IsList
<1>2. q[i] \in Nat /\ q[j] \in Nat
  <2>1. q[i] \in Entries /\ q[j] \in Entries
    BY <1>1
  <2> QED BY <2>1 DEF Entries
<1>3. ~Before(kind, q[i], q[j]) /\ ~Before(kind, q[j], q[i])
  BY <1>2 DEF Before
<1>4. ~(i < j) /\ ~(j < i)
  BY <1>3 DEF IsList
<1> QED BY <1>1, <1>4

\* The page is handed every item that it asks for once.
LEMMA ShowsFacts ==
  ASSUME shown \in [Entries -> Nat], NEW items \in Seq(Entries), NEW S, Shows(items, S),
         \A i, j \in 1 .. Len(items) : items[i] = items[j] => i = j
  PROVE  /\ shown' \in [Entries -> Nat]
         /\ \A i \in 1 .. Len(items) : items[i] \in S => shown'[items[i]] = shown[items[i]] + 1
         /\ \A e \in Entries : (e \notin S \/ \A i \in 1 .. Len(items) : items[i] # e)
                                 => shown'[e] = shown[e]
         /\ \A e \in Entries : shown'[e] >= shown[e]
<1> DEFINE at(e) == {i \in DOMAIN items : items[i] = e /\ e \in S}
<1>1. DOMAIN items = 1 .. Len(items) /\ \A i \in 1 .. Len(items) : items[i] \in Entries
  OBVIOUS
<1>2. shown' = [e \in Entries |-> shown[e] + Cardinality(at(e))]
  BY DEF Shows
<1>3. ASSUME NEW i \in 1 .. Len(items), items[i] \in S PROVE Cardinality(at(items[i])) = 1
  <2>1. at(items[i]) = {i}
    BY <1>1, <1>3
  <2> QED BY <2>1, FS_Singleton
<1>4. ASSUME NEW e \in Entries, e \notin S \/ \A i \in 1 .. Len(items) : items[i] # e
      PROVE  Cardinality(at(e)) = 0
  <2>1. at(e) = {}
    BY <1>1, <1>4
  <2> QED BY <2>1, FS_EmptySet
<1> HIDE DEF at
<1>5. ASSUME NEW e \in Entries PROVE Cardinality(at(e)) \in {0, 1}
  <2>1. CASE e \notin S \/ \A i \in 1 .. Len(items) : items[i] # e
    BY <1>4, <2>1
  <2>2. CASE e \in S /\ \E i \in 1 .. Len(items) : items[i] = e
    BY <1>3, <2>2
  <2> QED BY <2>1, <2>2
<1>6. shown' \in [Entries -> Nat] /\ \A e \in Entries : shown'[e] >= shown[e]
  <2>1. \A e \in Entries : shown[e] + Cardinality(at(e)) \in Nat
                           /\ shown[e] + Cardinality(at(e)) >= shown[e]
    BY <1>5
  <2> QED BY <1>2, <2>1
<1>7. \A i \in 1 .. Len(items) : items[i] \in S => shown'[items[i]] = shown[items[i]] + 1
  BY <1>1, <1>2, <1>3
<1>8. \A e \in Entries : (e \notin S \/ \A i \in 1 .. Len(items) : items[i] # e)
        => shown'[e] = shown[e]
  BY <1>2, <1>4
<1> QED BY <1>6, <1>7, <1>8

\* The list a page is cut from.
LEMMA WalkLists == PagesTypeOK => IsList(listing, Walk, Listed \cap matching) /\ Walk \in Seq(Entries)
<1> SUFFICES ASSUME PagesTypeOK
             PROVE  IsList(listing, Walk, Listed \cap matching) /\ Walk \in Seq(Entries)
  OBVIOUS
<1>1. Listed \cap matching \in SUBSET Entries
  BY DEF PagesTypeOK
<1>2. IsList(listing, Walk, Listed \cap matching)
  BY <1>1, OrderedLists DEF Walk
<1> QED BY <1>2 DEF IsList

\* A part of a list is shown, as much of it as fits.
LEMMA BoundedKeeps ==
  ASSUME PagesInv, reader = "reading", listing # "svn",
         NEW items \in Seq(Entries), Len(items) > 0 => skip + Len(items) <= Len(Walk),
         \A i \in 1 .. Len(items) : items[i] = Walk[skip + i],
         NEW further, further \in BOOLEAN, ~further => skip + Len(items) >= Len(Walk),
         BoundedPage(items, further), UNCHANGED <<sourceVars, wanted, changed>>
  PROVE  PagesInv'
<1> DEFINE keep == Fit(items)
           page == Prefix(keep, items)
<1> USE DEF PagesInv
<1>1. PagesTypeOK /\ skip \in Nat /\ shown \in [Entries -> Nat] /\ wanted \subseteq Entries
  BY DEF PagesTypeOK
<1>2. /\ UNCHANGED <<listing, youngest, relevant, matching, size, head, wanted, changed>>
      /\ Listed' = Listed /\ Walk' = Walk /\ ListingInv'
  BY DEF sourceVars, Listed, Walk, Ordered, ListingInv
<1>3. IsList(listing, Walk, Listed \cap matching) /\ Walk \in Seq(Entries) /\ Len(Walk) \in Nat
  BY <1>1, WalkLists
<1>4. RevisionInv'
  BY <1>2 DEF RevisionInv
<1>5. CASE keep = -1
  <2>1. reader' = "failed" /\ UNCHANGED <<skip, shown>>
    BY <1>5 DEF BoundedPage
  <2>2. PagesTypeOK'
    BY <1>1, <1>2, <2>1 DEF PagesTypeOK
  <2>3. EachShownOnce' /\ CountedInv'
    BY <1>2, <2>1 DEF EachShownOnce, NothingMissed, NothingTwice, CountedInv
  <2> QED BY <1>2, <1>4, <2>2, <2>3
<1>6. CASE keep # -1
  <2>1. /\ Shows(page, Entries)
        /\ skip' = skip + keep
        /\ reader' = IF further \/ keep < Len(items) THEN "reading" ELSE "done"
    BY <1>6 DEF BoundedPage, Turn
  <2>2. keep \in 0 .. Len(items) /\ Len(items) \in Nat
    <3>1. SizesKnown
      BY <1>1 DEF PagesTypeOK, SizesKnown
    <3> QED BY <1>6, <3>1, FitIsLongest
  <2> HIDE DEF keep
  <2>3. page \in Seq(Entries) /\ Len(page) = keep /\ \A i \in 1 .. keep : page[i] = Walk[skip + i]
    BY <2>2, PrefixFacts
  <2> HIDE DEF page
  <2>4. \A i \in 1 .. keep : skip + i \in 1 .. Len(Walk)
    BY <1>1, <1>3, <2>2
  <2>5. \A i, j \in 1 .. Len(Walk) : Walk[i] = Walk[j] => i = j
    BY <1>3, ListApart
  <2>6. \A i, j \in 1 .. Len(page) : page[i] = page[j] => i = j
    <3> SUFFICES ASSUME NEW i \in 1 .. Len(page), NEW j \in 1 .. Len(page), page[i] = page[j]
                 PROVE  i = j
      OBVIOUS
    <3>1. skip + i = skip + j
      BY <2>3, <2>4, <2>5
    <3> QED BY <1>1, <2>2, <2>3, <3>1
  <2>7. /\ shown' \in [Entries -> Nat]
        /\ \A i \in 1 .. keep : shown'[page[i]] = shown[page[i]] + 1
        /\ \A e \in Entries : (\A i \in 1 .. keep : page[i] # e) => shown'[e] = shown[e]
        /\ \A e \in Entries : shown'[e] >= shown[e]
    <3>1. \A i \in 1 .. keep : page[i] \in Entries
      BY <2>3
    <3> QED BY <1>1, <2>1, <2>3, <2>6, <3>1, ShowsFacts
  <2>8. PagesTypeOK'
    <3>1. skip' \in Nat /\ reader' \in {"reading", "done"}
      BY <1>1, <2>1, <2>2
    <3> QED BY <1>1, <1>2, <2>7, <3>1 DEF PagesTypeOK
  <2>9. CountedInv
    OBVIOUS
  <2>10. reader' = "done" => skip + keep >= Len(Walk)
    BY <1>1, <1>3, <2>1, <2>2
  <2>16. changed # "shrunk" => skip + keep <= Len(Walk)
    BY <1>1, <1>3, <2>2, <2>9 DEF CountedInv
  <2>11. ASSUME changed # "shrunk", NEW e \in wanted, ~(shown'[e] > 0)
         PROVE  \E i \in skip + keep + 1 .. Len(Walk) : Walk[i] = e
    <3>1. e \in Entries /\ shown[e] \in Nat /\ shown'[e] \in Nat
      BY <1>1, <2>7
    <3>2. ~(shown[e] > 0)
      BY <2>7, <2>11, <3>1
    <3>3. PICK i \in skip + 1 .. Len(Walk) : Walk[i] = e
      BY <2>9, <2>11, <3>2 DEF CountedInv
    <3>4. ~(i <= skip + keep)
      <4> SUFFICES ASSUME i <= skip + keep PROVE FALSE
        OBVIOUS
      <4>1. i - skip \in 1 .. keep /\ skip + (i - skip) = i
        BY <1>1, <1>3, <2>2
      <4>2. page[i - skip] = e
        BY <2>3, <3>3, <4>1
      <4>3. shown'[e] = shown[e] + 1
        BY <2>7, <4>1, <4>2
      <4> QED BY <2>11, <3>1, <4>3
    <3>5. i \in skip + keep + 1 .. Len(Walk)
      BY <1>1, <1>3, <2>2, <3>4
    <3> QED BY <3>3, <3>5
  <2>12. ASSUME NEW i \in skip + keep + 1 .. Len(Walk)
         PROVE  shown'[Walk[i]] = shown[Walk[i]] /\ i \in skip + 1 .. Len(Walk)
    <3>1. i \in 1 .. Len(Walk) /\ i \in skip + 1 .. Len(Walk) /\ Walk[i] \in Entries
      BY <1>1, <1>3, <2>2
    <3>2. \A j \in 1 .. keep : skip + j # i
      BY <1>1, <2>2
    <3>3. \A j \in 1 .. keep : page[j] # Walk[i]
      BY <2>3, <2>4, <2>5, <3>1, <3>2
    <3> QED BY <2>7, <3>1, <3>3
  <2>13. CountedInv'
    BY <1>2, <2>1, <2>9, <2>11, <2>12, <2>16 DEF CountedInv
  <2>14. NothingMissed'
    <3> SUFFICES ASSUME reader' = "done", changed # "shrunk", NEW e \in wanted PROVE shown'[e] > 0
      BY <1>2 DEF NothingMissed
    <3>1. skip + keep + 1 .. Len(Walk) = {}
      BY <1>1, <1>3, <2>2, <2>10
    <3> QED BY <2>11, <3>1
  <2>15. NothingTwice'
    <3> SUFFICES ASSUME changed = "no", NEW e \in Entries PROVE shown'[e] <= 1
      BY <1>2 DEF NothingTwice
    <3>1. shown[e] <= 1 /\ shown[e] \in Nat
      BY <1>1 DEF EachShownOnce, NothingTwice
    <3>2. CASE \A i \in 1 .. keep : page[i] # e
      BY <2>7, <3>1, <3>2
    <3>3. ASSUME NEW i \in 1 .. keep, page[i] = e PROVE shown'[e] <= 1
      <4>1. skip + i \in skip + 1 .. Len(Walk) /\ Walk[skip + i] = e
        <5>1. i \in 1 .. keep /\ skip + i \in 1 .. Len(Walk)
          BY <2>4, <3>3
        <5>2. skip + i \in skip + 1 .. Len(Walk)
          BY <1>1, <1>3, <2>2, <5>1
        <5> QED BY <2>3, <3>3, <5>2
      <4>2. shown[e] = 0
        BY <2>9, <4>1 DEF CountedInv
      <4> QED BY <2>7, <3>3, <4>2
    <3> QED BY <3>2, <3>3
  <2> QED BY <1>2, <1>4, <2>8, <2>13, <2>14, <2>15 DEF EachShownOnce
<1> QED BY <1>5, <1>6

\* In the beginning nothing was shown.
LEMMA PagesBegin == PagesInit => PagesInv
<1> SUFFICES ASSUME PagesInit PROVE PagesInv
  OBVIOUS
<1>1. /\ shown = [e \in Entries |-> 0] /\ reader = "new" /\ head = 0 /\ skip = 0
      /\ wanted = {} /\ changed = "no" /\ youngest \in Entries /\ size \in [Entries -> Sizes]
      /\ listing \in Listings /\ relevant \subseteq Entries /\ matching \subseteq Entries
  BY DEF PagesInit
<1>2. head \in 0 .. MaxEntries /\ head <= youngest
  <2>1. MaxEntries \in Nat
    BY PageAssumption
  <2> QED BY <1>1, <2>1 DEF Entries
<1>3. PagesTypeOK
  BY <1>1, <1>2 DEF PagesTypeOK
<1>4. ListingInv
  BY <1>1, <1>2 DEF PagesInit, ListingInv
<1>5. EachShownOnce /\ CountedInv /\ RevisionInv
  BY <1>1 DEF EachShownOnce, NothingMissed, NothingTwice, CountedInv, RevisionInv
<1> QED BY <1>3, <1>4, <1>5 DEF PagesInv

\* A revision is added.
LEMMA CommitKeeps ==
  ASSUME PagesInv, Commit
  PROVE  PagesInv'
<1> USE DEF PagesInv
<1>1. /\ listing = "svn" /\ youngest' \in Entries /\ head <= youngest'
      /\ UNCHANGED <<listing, relevant, matching, size, head, reader, skip, shown, wanted, changed>>
  <2>1. youngest \in Nat /\ youngest >= 1 /\ MaxEntries \in Nat /\ head \in Nat /\ head <= youngest
    BY PageAssumption DEF PagesTypeOK, Entries, ListingInv
  <2> QED BY <2>1 DEF Commit, Entries, readerVars
<1>2. PagesTypeOK' /\ ListingInv'
  BY <1>1 DEF PagesTypeOK, ListingInv
<1> QED BY <1>1, <1>2 DEF EachShownOnce, NothingMissed, NothingTwice, CountedInv, RevisionInv

\* The walk meets one commit more: what a counting reader has not seen does not move to the front.
LEMMA AppearsKeeps ==
  ASSUME PagesInv, NEW m \in Entries, Appears(m)
  PROVE  PagesInv'
<1> USE DEF PagesInv
<1>1. /\ listing = "git" /\ relevant' = relevant \cup {m}
      /\ changed' = IF changed = "no" THEN "grown" ELSE changed
      /\ UNCHANGED <<listing, youngest, matching, size, head, reader, skip, shown, wanted>>
  BY DEF Appears
<1>2. PagesTypeOK' /\ ListingInv'
  BY <1>1 DEF PagesTypeOK, ListingInv
<1>3. EachShownOnce' /\ RevisionInv'
  BY <1>1 DEF EachShownOnce, NothingMissed, NothingTwice, RevisionInv
<1>4. CountedInv'
  <2> SUFFICES ASSUME reader = "reading", changed # "shrunk"
               PROVE  /\ skip <= Len(Walk')
                      /\ \A e \in wanted : shown[e] > 0 \/ \E i \in skip + 1 .. Len(Walk') : Walk'[i] = e
    BY <1>1 DEF CountedInv
  <2>1. /\ skip <= Len(Walk) /\ skip \in Nat
        /\ \A e \in wanted : shown[e] > 0 \/ \E i \in skip + 1 .. Len(Walk) : Walk[i] = e
    BY <1>1 DEF CountedInv, PagesTypeOK
  <2> DEFINE S == Listed \cap matching
             T == (Listed \cap matching)'
             r == Walk'
  <2>2. IsList("git", Walk, S) /\ Len(Walk) \in Nat
    BY <1>1, WalkLists
  <2>3. IsList("git", r, T) /\ Len(r) \in Nat
    <3>1. T \in SUBSET Entries
      BY <1>2 DEF PagesTypeOK
    <3>2. r = Lists("git", T)[MaxEntries]
      BY <1>1 DEF Walk, Ordered
    <3> HIDE DEF r, T
    <3>3. IsList("git", r, T)
      BY <3>1, <3>2, ListsList
    <3> QED BY <3>3 DEF IsList
  <2>4. S \subseteq T
    BY <1>1 DEF Listed
  <2> HIDE DEF S, T, r
  <2>5. \A i \in 1 .. Len(Walk) : \E j \in 1 .. Len(r) : j >= i /\ r[j] = Walk[i]
    BY <2>2, <2>3, <2>4, LaterInMore
  <2>6. skip <= Len(r)
    <3>1. CASE skip = 0
      BY <2>3, <3>1
    <3>2. CASE skip # 0
      <4>1. skip \in 1 .. Len(Walk)
        BY <2>1, <2>2, <3>2
      <4> QED BY <2>3, <2>5, <4>1
    <3> QED BY <3>1, <3>2
  <2>7. ASSUME NEW e \in wanted, ~(shown[e] > 0) PROVE \E i \in skip + 1 .. Len(r) : r[i] = e
    <3>1. PICK i \in skip + 1 .. Len(Walk) : Walk[i] = e
      BY <2>1, <2>7
    <3>2. i \in 1 .. Len(Walk)
      BY <2>1, <2>2
    <3>3. PICK j \in 1 .. Len(r) : j >= i /\ r[j] = e
      BY <2>5, <3>1, <3>2
    <3>4. j \in skip + 1 .. Len(r)
      BY <2>1, <2>3, <3>3
    <3> QED BY <3>3, <3>4
  <2> QED BY <2>6, <2>7 DEF r
<1> QED BY <1>2, <1>3, <1>4

\* A commit the walk no longer meets leaves nothing to say about a count.
LEMMA DisappearsKeeps ==
  ASSUME PagesInv, NEW m \in Entries, Disappears(m)
  PROVE  PagesInv'
<1> USE DEF PagesInv
<1>1. /\ listing = "git" /\ relevant' = relevant \ {m} /\ changed' = "shrunk"
      /\ UNCHANGED <<listing, youngest, matching, size, head, reader, skip, shown, wanted>>
  BY DEF Disappears
<1>2. PagesTypeOK' /\ ListingInv'
  BY <1>1 DEF PagesTypeOK, ListingInv
<1> QED BY <1>1, <1>2 DEF EachShownOnce, NothingMissed, NothingTwice, CountedInv, RevisionInv

\* Subversion is asked for the newest revision, which is no older than the last answer.
LEMMA ConnectKeeps ==
  ASSUME PagesInv, ConnectHistory
  PROVE  PagesInv'
<1> USE DEF PagesInv
<1>1. /\ listing = "svn" /\ head' = youngest
      /\ UNCHANGED <<listing, youngest, relevant, matching, size, reader, skip, shown, wanted, changed>>
  BY DEF ConnectHistory, readerVars
<1>2. youngest \in Nat /\ head \in Nat /\ head <= youngest /\ youngest \in 0 .. MaxEntries
  BY PageAssumption DEF ListingInv, PagesTypeOK, Entries
<1>3. PagesTypeOK' /\ ListingInv'
  BY <1>1, <1>2 DEF PagesTypeOK, ListingInv
<1>4. EachShownOnce' /\ CountedInv'
  BY <1>1 DEF EachShownOnce, NothingMissed, NothingTwice, CountedInv
<1>5. RevisionInv'
  <2>1. 1 .. head \subseteq 1 .. head'
    BY <1>1, <1>2
  <2> QED BY <1>1, <2>1 DEF RevisionInv
<1> QED BY <1>3, <1>4, <1>5

\* A list begins.
LEMMA OpenListKeeps ==
  ASSUME PagesInv, Open
  PROVE  PagesInv'
<1> USE DEF PagesInv
<1>1. /\ reader' = "reading" /\ skip' = 0 /\ shown' = [e \in Entries |-> 0]
      /\ wanted' = Listed \cap matching /\ changed' = "no"
      /\ UNCHANGED <<listing, youngest, relevant, matching, size, head>>
  BY DEF Open, sourceVars
<1>2. PagesTypeOK
  OBVIOUS
<1>3. PagesTypeOK'
  BY <1>1, <1>2 DEF PagesTypeOK
<1>4. ListingInv' /\ EachShownOnce'
  BY <1>1 DEF ListingInv, EachShownOnce, NothingMissed, NothingTwice
<1>5. Walk' = Walk
  BY <1>1 DEF Walk, Ordered, Listed
<1>6. IsList(listing, Walk, Listed \cap matching) /\ Len(Walk) \in Nat /\ Walk \in Seq(Entries)
  BY <1>2, WalkLists
<1>7. CountedInv'
  <2>1. 0 + 1 = 1 /\ 0 <= Len(Walk) /\ \A i \in 1 .. Len(Walk) : Walk[i] \in Entries
    BY <1>6
  <2>2. \A e \in wanted' : \E i \in 1 .. Len(Walk) : Walk[i] = e
    BY <1>1, <1>6 DEF IsList
  <2> QED BY <1>1, <1>5, <2>1, <2>2 DEF CountedInv
<1>8. RevisionInv'
  BY <1>1 DEF RevisionInv, Listed
<1> QED BY <1>3, <1>4, <1>7, <1>8

\* Without a connection nothing was wanted.
LEMMA NotConnectedKeeps ==
  ASSUME PagesInv, NotConnected
  PROVE  PagesInv'
<1> USE DEF PagesInv
<1>1. /\ reader = "reading" /\ listing = "svn" /\ head = 0 /\ skip' = skip /\ reader' = "done"
      /\ UNCHANGED <<listing, youngest, relevant, matching, size, head, shown, wanted, changed>>
  BY DEF NotConnected, Turn, sourceVars
<1>2. wanted = {}
  BY <1>1 DEF RevisionInv
<1>3. PagesTypeOK' /\ ListingInv'
  BY <1>1 DEF PagesTypeOK, ListingInv
<1> QED BY <1>1, <1>2, <1>3 DEF EachShownOnce, NothingMissed, NothingTwice, CountedInv, RevisionInv

\* What a request takes of a list that goes on.
LEMMA ClampFacts ==
  ASSUME NEW limit \in Nat, NEW high \in Nat \ {0}
  PROVE  Clamp(limit, 1, high) \in Nat \ {0}
BY DEF Clamp

\* A page of the history of a Git repository.
LEMMA GitKeeps ==
  ASSUME PagesInv, NEW limit \in 0 .. MaxLimit, GitPage(limit)
  PROVE  PagesInv'
<1> DEFINE n    == Clamp(limit, 1, PageLimit)
           rest == SubSeq(Walk, skip + 1, Len(Walk))
           read == Prefix(n + 1, rest)
           items == Prefix(n, read)
<1>1. /\ reader = "reading" /\ listing = "git"
      /\ BoundedPage(items, Len(read) > n)
      /\ UNCHANGED <<sourceVars, wanted, changed>>
  BY DEF GitPage, Walk
<1>2. n \in Nat \ {0}
  BY PageAssumption, ClampFacts
<1> HIDE DEF n
<1>3. skip \in Nat /\ Walk \in Seq(Entries) /\ Len(Walk) \in Nat
  BY WalkLists DEF PagesInv, PagesTypeOK
<1>4. rest \in Seq(Entries) /\ Len(rest) = (IF skip <= Len(Walk) THEN Len(Walk) - skip ELSE 0)
      /\ \A i \in 1 .. Len(rest) : rest[i] = Walk[skip + i]
  BY <1>3, RestFacts
<1> HIDE DEF rest
<1>5. read \in Seq(Entries) /\ Len(read) = (IF n + 1 < Len(rest) THEN n + 1 ELSE Len(rest))
      /\ \A i \in 1 .. Len(read) : read[i] = rest[i]
  BY <1>2, <1>4, PrefixFacts
<1> HIDE DEF read
<1>6. items \in Seq(Entries) /\ Len(items) = (IF n < Len(read) THEN n ELSE Len(read))
      /\ \A i \in 1 .. Len(items) : items[i] = read[i]
  BY <1>2, <1>5, PrefixFacts
<1> HIDE DEF items
<1>7. \A i \in 1 .. Len(items) : i \in 1 .. Len(read) /\ i \in 1 .. Len(rest)
  BY <1>2, <1>3, <1>4, <1>5, <1>6
<1>8. \A i \in 1 .. Len(items) : items[i] = Walk[skip + i]
  BY <1>4, <1>5, <1>6, <1>7
<1>9. Len(items) > 0 => skip + Len(items) <= Len(Walk)
  BY <1>2, <1>3, <1>4, <1>5, <1>6
<1>10. ~(Len(read) > n) => skip + Len(items) >= Len(Walk)
  BY <1>2, <1>3, <1>4, <1>5, <1>6
<1> DEFINE further == Len(read) > n
<1>11. further \in BOOLEAN /\ (~further => skip + Len(items) >= Len(Walk))
       /\ BoundedPage(items, further)
  BY <1>1, <1>10
<1> HIDE DEF further
<1> QED BY <1>1, <1>6, <1>8, <1>9, <1>11, BoundedKeeps

\* A page of the files of a diff.
LEMMA FilesKeeps ==
  ASSUME PagesInv, NEW limit \in 0 .. MaxLimit, FilesPage(limit)
  PROVE  PagesInv'
<1> DEFINE n    == Clamp(limit, 1, PageLimit)
           rest == SubSeq(Walk, skip + 1, Len(Walk))
           items == Prefix(n, rest)
<1>0. Ordered(Listed) = Walk
  <2>1. listing = "files"
    BY DEF FilesPage
  <2>2. matching = Entries /\ Listed \subseteq Entries
    BY <2>1 DEF PagesInv, ListingInv, PagesTypeOK, Listed
  <2>3. Listed \cap matching = Listed
    BY <2>2
  <2> QED BY <2>3 DEF Walk
<1>1. /\ reader = "reading" /\ listing = "files"
      /\ BoundedPage(items, skip + Len(items) < Len(Walk))
      /\ UNCHANGED <<sourceVars, wanted, changed>>
  BY <1>0 DEF FilesPage
<1>2. n \in Nat \ {0}
  BY PageAssumption, ClampFacts
<1> HIDE DEF n
<1>3. skip \in Nat /\ skip <= Len(Walk) /\ Walk \in Seq(Entries) /\ Len(Walk) \in Nat
  BY <1>1, WalkLists DEF PagesInv, ListingInv, CountedInv, PagesTypeOK
<1>4. rest \in Seq(Entries) /\ Len(rest) = (IF skip <= Len(Walk) THEN Len(Walk) - skip ELSE 0)
      /\ \A i \in 1 .. Len(rest) : rest[i] = Walk[skip + i]
  BY <1>3, RestFacts
<1> HIDE DEF rest
<1>5. items \in Seq(Entries) /\ Len(items) = (IF n < Len(rest) THEN n ELSE Len(rest))
      /\ \A i \in 1 .. Len(items) : items[i] = rest[i]
  BY <1>2, <1>4, PrefixFacts
<1> HIDE DEF items
<1>6. \A i \in 1 .. Len(items) : i \in 1 .. Len(rest)
  BY <1>2, <1>3, <1>4, <1>5
<1>7. skip + Len(items) <= Len(Walk) /\ \A i \in 1 .. Len(items) : items[i] = Walk[skip + i]
  BY <1>2, <1>3, <1>4, <1>5, <1>6
<1> DEFINE further == skip + Len(items) < Len(Walk)
<1>8. further \in BOOLEAN /\ (~further => skip + Len(items) >= Len(Walk))
      /\ BoundedPage(items, further)
  BY <1>1, <1>2, <1>3, <1>4, <1>5
<1> HIDE DEF further
<1> QED BY <1>1, <1>5, <1>7, <1>8, BoundedKeeps

\* A reply no frame can hold ends the session.
LEMMA SessionEndKeeps ==
  ASSUME PagesInv, listing = "svn", SessionEnds,
         UNCHANGED <<listing, youngest, relevant, matching, size, wanted, changed>>
  PROVE  PagesInv'
<1> USE DEF PagesInv
<1>1. reader' = "failed" /\ head' = 0 /\ UNCHANGED <<skip, shown>>
  BY DEF SessionEnds
<1>2. 0 <= youngest /\ 0 \in 0 .. MaxEntries
  BY PageAssumption DEF PagesTypeOK, Entries
<1>3. PagesTypeOK' /\ ListingInv'
  BY <1>1, <1>2 DEF PagesTypeOK, ListingInv
<1> QED BY <1>1, <1>3 DEF EachShownOnce, NothingMissed, NothingTwice, CountedInv, RevisionInv

\* A page of the history of a Subversion working copy.
LEMMA SvnKeeps ==
  ASSUME PagesInv, NEW limit \in 0 .. MaxLimit, SvnPage(limit)
  PROVE  PagesInv'
<1> DEFINE n     == Clamp(limit, 1, FetchLimit - 1)
           below == IF skip = 0 THEN head ELSE skip
           T     == relevant \cap 1 .. below
           q     == Ordered(T)
           log   == Prefix(n + 1, q)
           page  == Prefix(n, log)
           next  == CursorBelow(page)
           tooLarge == SizeUpTo(page, matching)[Len(page)] > FrameLimit
<1>24. CASE tooLarge
  <2>1. /\ listing = "svn" /\ SessionEnds
        /\ UNCHANGED <<listing, youngest, relevant, matching, size, wanted, changed>>
    BY <1>24 DEF SvnPage, Log
  <2> QED BY <2>1, SessionEndKeeps
<1> SUFFICES ASSUME ~tooLarge PROVE PagesInv'
  BY <1>24
<1> USE DEF PagesInv
<1>1. /\ reader = "reading" /\ listing = "svn"
      /\ Shows(page, matching) /\ skip' = next
      /\ reader' = IF Len(log) > n /\ next > 0 THEN "reading" ELSE "done"
      /\ UNCHANGED <<listing, youngest, relevant, matching, size, head, wanted, changed>>
  BY DEF SvnPage, Log, Turn, sourceVars
<1>2. n \in Nat \ {0}
  BY PageAssumption, ClampFacts
<1> HIDE DEF n
<1>3. /\ PagesTypeOK /\ skip \in Nat /\ head \in Nat /\ shown \in [Entries -> Nat]
      /\ wanted \subseteq Entries /\ relevant \subseteq Entries /\ NothingTwice
  BY DEF PagesTypeOK, EachShownOnce
<1>4. /\ wanted \subseteq relevant \cap matching \cap 1 .. head
      /\ \A e \in wanted : shown[e] > 0 \/ skip = 0 \/ e <= skip
      /\ \A e \in Entries : skip = 0 \/ e <= skip => shown[e] = 0
  BY <1>1 DEF RevisionInv
<1>5. \A e \in wanted : shown[e] > 0 \/ e \in T
  <2> SUFFICES ASSUME NEW e \in wanted, ~(shown[e] > 0) PROVE e \in T
    OBVIOUS
  <2>1. e \in relevant /\ e \in 1 .. head /\ (skip = 0 \/ e <= skip)
    BY <1>4
  <2> QED BY <1>3, <2>1
<1>6. \A e \in T : e \in Entries /\ e <= below /\ (skip = 0 \/ e <= skip) /\ shown[e] = 0
  BY <1>3, <1>4
<1>7. below \in Nat
  BY <1>3
<1>8. /\ q \in Seq(Entries) /\ Len(q) \in Nat
      /\ \A e : e \in T <=> \E i \in 1 .. Len(q) : q[i] = e
      /\ \A i, j \in 1 .. Len(q) : i < j => q[i] > q[j]
      /\ \A i, j \in 1 .. Len(q) : q[i] = q[j] => i = j
  <2>1. IsList(listing, q, T)
    <3>1. T \in SUBSET Entries
      BY <1>3
    <3> HIDE DEF T
    <3> QED BY <3>1, OrderedLists
  <2> HIDE DEF q, T
  <2>2. \A i, j \in 1 .. Len(q) : q[i] = q[j] => i = j
    BY <2>1, ListApart
  <2> QED BY <1>1, <2>1, <2>2 DEF IsList, Before
<1> HIDE DEF q, T, below
<1>9. log \in Seq(Entries) /\ Len(log) = (IF n + 1 < Len(q) THEN n + 1 ELSE Len(q))
      /\ \A i \in 1 .. Len(log) : log[i] = q[i]
  BY <1>2, <1>8, PrefixFacts
<1> HIDE DEF log
<1>10. page \in Seq(Entries) /\ Len(page) = (IF n < Len(log) THEN n ELSE Len(log))
       /\ \A i \in 1 .. Len(page) : page[i] = log[i]
  BY <1>2, <1>9, PrefixFacts
<1> HIDE DEF page
<1>11. Len(page) = (IF n < Len(q) THEN n ELSE Len(q)) /\ (Len(log) > n <=> Len(q) > n)
  BY <1>2, <1>8, <1>9, <1>10
<1>12. \A i \in 1 .. Len(page) : i \in 1 .. Len(q) /\ page[i] = q[i] /\ q[i] \in T
  <2> SUFFICES ASSUME NEW i \in 1 .. Len(page) PROVE i \in 1 .. Len(q) /\ page[i] = q[i] /\ q[i] \in T
    OBVIOUS
  <2>1. i \in 1 .. Len(q) /\ i \in 1 .. Len(log)
    BY <1>2, <1>8, <1>9, <1>10
  <2> QED BY <1>8, <1>9, <1>10, <2>1
<1>13. \A i, j \in 1 .. Len(page) : page[i] = page[j] => i = j
  BY <1>8, <1>12
<1>14. /\ shown' \in [Entries -> Nat]
       /\ \A i \in 1 .. Len(page) : page[i] \in matching => shown'[page[i]] = shown[page[i]] + 1
       /\ \A e \in Entries : (e \notin matching \/ \A i \in 1 .. Len(page) : page[i] # e)
                               => shown'[e] = shown[e]
       /\ \A e \in Entries : shown'[e] >= shown[e]
  BY <1>1, <1>3, <1>10, <1>13, ShowsFacts
<1>15. next \in Nat
  <2>1. page = <<>> \/ page[Len(page)] \in Entries
    BY <1>10
  <2> QED BY <2>1 DEF CursorBelow, Entries
<1>16. PagesTypeOK'
  BY <1>1, <1>3, <1>14, <1>15 DEF PagesTypeOK
<1>17. ListingInv' /\ CountedInv'
  BY <1>1 DEF ListingInv, CountedInv
<1>18. NothingTwice'
  <2> SUFFICES ASSUME NEW e \in Entries PROVE shown'[e] <= 1
    BY DEF NothingTwice
  <2>1. shown[e] <= 1 /\ shown[e] \in Nat
    BY <1>1, <1>3 DEF NothingTwice, ListingInv
  <2>2. CASE e \notin matching \/ \A i \in 1 .. Len(page) : page[i] # e
    BY <1>14, <2>1, <2>2
  <2>3. ASSUME NEW i \in 1 .. Len(page), page[i] = e, e \in matching PROVE shown'[e] <= 1
    <3>1. shown[e] = 0
      BY <1>6, <1>12, <2>3
    <3> QED BY <1>14, <2>3, <3>1
  <2> QED BY <2>2, <2>3
<1>19. ASSUME NEW e \in wanted, ~(shown'[e] > 0)
       PROVE  \E i \in 1 .. Len(q) : q[i] = e /\ ~(i <= Len(page))
  <2>1. e \in Entries /\ shown[e] \in Nat /\ shown'[e] \in Nat /\ shown'[e] >= shown[e]
    BY <1>3, <1>14
  <2>2. e \in T /\ e \in matching
    BY <1>4, <1>5, <1>19, <2>1
  <2>3. PICK i \in 1 .. Len(q) : q[i] = e
    BY <1>8, <2>2
  <2>4. ~(i <= Len(page))
    <3> SUFFICES ASSUME i <= Len(page) PROVE FALSE
      OBVIOUS
    <3>1. i \in 1 .. Len(page)
      BY <1>10
    <3>2. shown'[e] = shown[e] + 1
      BY <1>12, <1>14, <2>2, <2>3, <3>1
    <3> QED BY <1>19, <2>1, <3>2
  <2> QED BY <2>3, <2>4
<1>20. CASE ~(Len(q) > n)
  <2>1. Len(page) = Len(q) /\ reader' = "done"
    BY <1>1, <1>2, <1>8, <1>11, <1>20
  <2>2. NothingMissed'
    <3> SUFFICES ASSUME NEW e \in wanted PROVE shown'[e] > 0
      BY <1>1 DEF NothingMissed
    <3> QED BY <1>8, <1>19, <2>1
  <2>3. RevisionInv'
    BY <2>1 DEF RevisionInv
  <2> QED BY <1>16, <1>17, <1>18, <2>2, <2>3 DEF EachShownOnce
<1>21. CASE Len(q) > n
  <2>1. Len(page) = n /\ n \in 1 .. Len(q) /\ n + 1 \in 1 .. Len(q) /\ n \in 1 .. Len(page)
    BY <1>2, <1>8, <1>11, <1>21
  <2>2. q[n] \in Entries /\ q[n + 1] \in Entries /\ q[n] > q[n + 1]
    BY <1>2, <1>8, <2>1
  <2>3. next = q[n] - 1
    <3>1. page # <<>>
      BY <1>2, <1>10, <2>1
    <3> QED BY <1>12, <2>1, <3>1 DEF CursorBelow
  <2>4. skip' = q[n] - 1 /\ skip' > 0 /\ reader' = "reading"
    BY <1>1, <1>11, <1>21, <2>2, <2>3 DEF Entries
  <2>5. NothingMissed'
    BY <2>4 DEF NothingMissed
  <2>6. ASSUME NEW e \in wanted PROVE shown'[e] > 0 \/ e <= skip'
    <3> SUFFICES ASSUME ~(shown'[e] > 0) PROVE e <= skip'
      OBVIOUS
    <3>1. PICK i \in 1 .. Len(q) : q[i] = e /\ ~(i <= n)
      BY <1>19, <2>1
    <3>2. n < i
      BY <1>2, <3>1
    <3>3. q[n] > e /\ e \in Entries
      BY <1>3, <1>8, <2>1, <3>1, <3>2
    <3> QED BY <2>2, <2>4, <3>3 DEF Entries
  <2>7. ASSUME NEW e \in Entries, e <= skip' PROVE shown'[e] = 0
    <3>1. e < q[n]
      BY <2>2, <2>4, <2>7 DEF Entries
    <3>2. shown[e] = 0
      <4>1. q[n] \in T
        BY <1>12, <2>1
      <4>2. skip = 0 \/ q[n] <= skip
        BY <1>6, <4>1
      <4>3. skip = 0 \/ e <= skip
        BY <1>3, <2>2, <3>1, <4>2 DEF Entries
      <4> QED BY <1>4, <4>3
    <3>3. ASSUME NEW i \in 1 .. Len(page) PROVE page[i] # e
      <4>1. i \in 1 .. Len(q) /\ page[i] = q[i] /\ (i = n \/ i < n)
        BY <1>2, <1>12, <2>1
      <4>2. i = n \/ q[i] > q[n]
        BY <1>8, <2>1, <4>1
      <4>3. q[i] \in Entries
        BY <1>8, <4>1
      <4> QED BY <2>2, <3>1, <4>1, <4>2, <4>3 DEF Entries
    <3> QED BY <1>14, <3>2, <3>3
  <2>8. RevisionInv'
    <3>1. skip' # 0
      BY <2>4
    <3> QED BY <1>1, <1>4, <2>6, <2>7, <3>1 DEF RevisionInv
  <2> QED BY <1>16, <1>17, <1>18, <2>5, <2>8 DEF EachShownOnce
<1> QED BY <1>20, <1>21

-----------------------------------------------------------------------------
(* The promise of the pages *)

\* Every step keeps the invariant.
LEMMA PagesStep == PagesInv /\ [PagesNext]_pageVars => PagesInv'
<1> SUFFICES ASSUME PagesInv, [PagesNext]_pageVars PROVE PagesInv'
  OBVIOUS
<1>1. CASE Commit
  BY <1>1, CommitKeeps
<1>7. ASSUME NEW m \in Entries, Appears(m) \/ Disappears(m) PROVE PagesInv'
  BY <1>7, AppearsKeeps, DisappearsKeeps
<1>2. CASE ConnectHistory
  BY <1>2, ConnectKeeps
<1>3. CASE Open
  BY <1>3, OpenListKeeps
<1>4. CASE NotConnected
  BY <1>4, NotConnectedKeeps
<1>5. ASSUME NEW limit \in 0 .. MaxLimit, Page(limit) PROVE PagesInv'
  BY <1>5, SvnKeeps, GitKeeps, FilesKeeps DEF Page
<1>6. CASE UNCHANGED pageVars
  <2>1. UNCHANGED <<listing, youngest, relevant, matching, size, head,
                    reader, skip, shown, wanted, changed>>
    BY <1>6 DEF pageVars, sourceVars, readerVars
  <2>2. Walk' = Walk
    BY <2>1 DEF Walk, Ordered, Listed
  <2> QED BY <2>1, <2>2 DEF PagesInv, PagesTypeOK, ListingInv, EachShownOnce, NothingMissed,
             NothingTwice, CountedInv, RevisionInv
<1> QED BY <1>1, <1>2, <1>3, <1>4, <1>5, <1>6, <1>7 DEF PagesNext, Request

\* In every reachable state the cursor separates what the page was handed from what it was not, also
\* after a session that ended over a reply larger than a frame; a count of commits does so until one
\* disappears (SvnRepository::history, RepositoryReader::history, diff_files, bounded_page).
THEOREM PagesSound == PagesSpec => []PagesInv
BY PagesBegin, PagesStep, PTL DEF PagesSpec

\* For every number of entries, size, limit, budget and frame: who follows the cursor to the end has
\* seen everything that matched when he began, and nothing twice; in Subversion's history also while
\* revisions arrive, in a Git history the first as long as no commit has disappeared from it and the
\* second as long as none has appeared either (SvnRepository::history, RepositoryReader::history,
\* diff_files, bounded_page).
THEOREM EachIsShownOnce == PagesSpec => []EachShownOnce
<1>1. PagesInv => EachShownOnce
  BY DEF PagesInv
<1> QED BY PagesSound, <1>1, PTL
=============================================================================
