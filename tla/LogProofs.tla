------------------------------ MODULE LogProofs ------------------------------
(***************************************************************************)
(* What an operation reserves is enough, the operations preserve LogInv's    *)
(* invariant, and the theorems about the log.                                *)
(***************************************************************************)
EXTENDS LogInv, FiniteSetTheorems

\* A finite set of at most m elements can be numbered.
LEMMA Numbering ==
  ASSUME NEW S, IsFiniteSet(S), NEW m \in Nat, Cardinality(S) <= m
  PROVE  \E f \in [S -> 1..m] : \A x, y \in S : f[x] = f[y] => x = y
<1>1. Cardinality(S) \in Nat /\ ExistsBijection(1..Cardinality(S), S)
  BY FS_CardinalityType, Zenon
<1>2. PICK g \in Bijection(1..Cardinality(S), S) : TRUE
  BY <1>1, Zenon DEF ExistsBijection
<1>3. \A x \in S : \E k \in 1..Cardinality(S) : g[k] = x
  BY <1>2, Zenon DEF Bijection, Surjection
<1> DEFINE f == [x \in S |-> CHOOSE k \in 1..Cardinality(S) : g[k] = x]
<1>4. \A x \in S : f[x] \in 1..Cardinality(S) /\ g[f[x]] = x
  BY <1>3, Zenon
<1>5. \A x \in S : f[x] \in 1..m
  BY <1>1, <1>4
<1>6. f \in [S -> 1..m]
  BY <1>5, Zenon
<1>7. \A x, y \in S : f[x] = f[y] => x = y
  BY <1>4, Zenon
<1> HIDE DEF f
<1> QED
  BY <1>6, <1>7, Zenon

\* Of what the members of A have in use, each no more than m.
LEMMA Reserved ==
  ASSUME NEW A, NEW B, NEW m \in Nat, IsFiniteSet(A), NEW W,
         \A a \in A : W[a] \subseteq B /\ IsFiniteSet(W[a]) /\ Cardinality(W[a]) <= m,
         NEW U \in SUBSET (A \X B), \A x \in U : x[2] \in W[x[1]]
  PROVE  IsFiniteSet(U) /\ Cardinality(U) <= Cardinality(A) * m
<1> DEFINE F == [a \in A |-> CHOOSE f \in [W[a] -> 1..m] : \A x, y \in W[a] : f[x] = f[y] => x = y]
<1>1. \A a \in A : /\ F[a] \in [W[a] -> 1..m]
                   /\ \A x, y \in W[a] : F[a][x] = F[a][y] => x = y
  BY Numbering, Zenon
<1> HIDE DEF F
<1> DEFINE G == [x \in U |-> <<x[1], F[x[1]][x[2]]>>]
<1>2. \A x \in U : x[1] \in A /\ x[2] \in W[x[1]] /\ x = <<x[1], x[2]>>
  OBVIOUS
<1>3. \A a \in A : \A w \in W[a] : F[a][w] \in 1..m
  BY <1>1
<1>4. \A x \in U : F[x[1]][x[2]] \in 1..m
  BY Zenon, <1>3, <1>2
<1>5. G \in [U -> A \X (1..m)]
  BY Zenon, <1>2, <1>4
<1>6. \A x, y \in U : G[x] = G[y] => x[1] = y[1] /\ F[x[1]][x[2]] = F[y[1]][y[2]]
  BY Zenon
<1>7. \A x, y \in U : G[x] = G[y] => x[1] = y[1] /\ x[2] = y[2]
  BY <1>1, <1>2, <1>6
<1>8. \A x, y \in U : G[x] = G[y] => x = y
  <2> SUFFICES ASSUME NEW x \in U, NEW y \in U, G[x] = G[y] PROVE x = y
    BY Zenon
  <2>1. x[1] = y[1] /\ x[2] = y[2]
    BY <1>7, Zenon
  <2>2. x = <<x[1], x[2]>> /\ y = <<y[1], y[2]>>
    BY <1>2, Zenon
  <2> QED
    BY <2>1, <2>2, Zenon
<1> HIDE DEF G
<1>9. G \in Injection(U, A \X (1..m))
  BY Zenon, <1>5, <1>8 DEF Injection, IsInjective
<1>10. IsFiniteSet(1..m) /\ Cardinality(1..m) = m
  BY FS_Interval
<1>11. IsFiniteSet(A \X (1..m)) /\ Cardinality(A \X (1..m)) = Cardinality(A) * m
  BY <1>10, FS_Product, Zenon
<1> QED
  BY <1>9, <1>11, FS_Injection

\* Used grows with Active, with what the operations wrote and with the log; it
\* is finite.
UsedIsFinite == IsFiniteSet(Used) /\ Cardinality(Used) \in Nat
LEMMA UsedFinite == TypeOK /\ OpInv /\ BufInv => UsedIsFinite
<1> SUFFICES ASSUME TypeOK, OpInv, BufInv PROVE UsedIsFinite
  BY Zenon
<1>1. \A a \in Active : wrote[a] \subseteq Block /\ IsFiniteSet(wrote[a]) /\ Cardinality(wrote[a]) <= OpBlocks
  BY Zenon DEF TypeOK, BufInv, Active
<1>2. IsFiniteSet(Active) /\ Used \in SUBSET (Active \X Block) /\ \A x \in Used : x[2] \in wrote[x[1]]
  BY Zenon DEF OpInv, Used
<1>3. OpBlocks \in Nat
  BY LogConstants
<1>4. IsFiniteSet(Used)
  BY <1>1, <1>2, <1>3, Reserved, Zenon
<1>5. Cardinality(Used) \in Nat
  BY <1>4, FS_CardinalityType
<1> QED
  BY Zenon, <1>4, <1>5 DEF UsedIsFinite

\* The reservation leaves an entry for a block that is not in the log yet, and
\* it is then used.
LEMMA RoomForOne ==
  ASSUME LInv, NEW p \in Proc, pc[p] \in InOp, NEW b \in wrote[p], b \notin Logged
  PROVE  Len(lh) < LogSize
<1> DEFINE U == Used \cup {<<p, b>>}
<1>1. b \in Block /\ p \in Active
  BY Zenon DEF LInv, TypeOK, Active
<1>2. U \in SUBSET (Active \X Block) /\ \A x \in U : x[2] \in wrote[x[1]]
  BY <1>1 DEF Used
<1>3. IsFiniteSet(Used) /\ Cardinality(Used) \in Nat
  BY Zenon, UsedFinite DEF LInv, UsedIsFinite
<1>4. Cardinality(U) = Cardinality(Used) + 1
  <2>1. <<p, b>> \notin Used
    BY Zenon DEF Used
  <2> QED
    BY <1>3, <2>1, FS_AddElement, Zenon
<1>5. \A a \in Active : wrote[a] \subseteq Block /\ IsFiniteSet(wrote[a]) /\ Cardinality(wrote[a]) <= MaxOpBlocks
  <2>1. \A a \in Active : wrote[a] \subseteq Block /\ IsFiniteSet(wrote[a]) /\ Cardinality(wrote[a]) <= OpBlocks
    BY Zenon DEF LInv, TypeOK, BufInv, Active
  <2>2. \A a \in Active : Cardinality(wrote[a]) \in Nat
    BY <2>1, FS_CardinalityType, Zenon
  <2> QED
    BY <2>1, <2>2, LogConstants
<1> HIDE DEF U
<1>6. IsFiniteSet(Active) /\ Cardinality(Active) = outstanding /\ outstanding # 0 /\ MaxOpBlocks \in Nat
  BY Zenon, <1>1, LogConstants DEF LInv, OpInv
<1>7. Cardinality(U) <= Cardinality(Active) * MaxOpBlocks
  BY <1>2, <1>5, <1>6, Reserved, Zenon
<1> QED
  BY <1>3, <1>4, <1>6, <1>7, LogConstants DEF LInv, SpaceInv, TypeOK

-----------------------------------------------------------------------------
(* The invariant: the start, and the operations. *)

LEMMA InitInv == Init => LInv
<1> SUFFICES ASSUME Init PROVE LInv
  BY Zenon
<1> USE LogConstants DEF Init
<1>1. TypeOK
  <2>1. disk \in [Block -> Val] /\ logd \in [1..LogSize -> Val]
    BY Zenon
  <2>2. hdr \in Seq(Block) /\ lh \in Seq(Block)
    OBVIOUS
  <2>3. cache \in [Block -> Val] /\ refcnt \in [Block -> 0..(RefMod - 1)]
    BY <2>1
  <2>4. pc \in [Proc -> PcValues] /\ buf \in [Proc -> Block \cup {"none"}]
    BY Zenon DEF PcValues
  <2>5. wrote \in [Proc -> SUBSET Block]
    BY Zenon
  <2> QED
    BY <2>1, <2>2, <2>3, <2>4, <2>5, Zenon DEF TypeOK
<1>2. ListInv
  BY DEF ListInv, Distinct
<1>3. BootInv
  BY Zenon DEF BootInv
<1>4. Active = {} /\ \A p \in Proc : pc[p] \notin Committing /\ ~Holds(p)
  BY Zenon DEF Active, InOp, Committing, Holds
<1>5. OpInv
  BY Zenon, <1>4, FS_EmptySet DEF OpInv
<1>6. BufInv
  BY <1>4, FS_EmptySet DEF BufInv
<1>7. CacheInv
  BY Zenon DEF CacheInv
<1>8. PhaseInv
  BY Zenon, <1>4 DEF PhaseInv
<1>9. PinInv
  BY <1>4 DEF PinInv, One, Pinned, Held
<1>10. SpaceInv
  BY Zenon DEF SpaceInv
<1> QED
  BY <1>1, <1>2, <1>3, <1>5, <1>6, <1>7, <1>8, <1>9, <1>10 DEF LInv

LEMMA BeginStep == ASSUME LInv, NEW p \in Proc, begin_op(p) PROVE LInv'
<1>1. CASE MustWait
  <2>1. pc' = [pc EXCEPT ![p] = "sleep"] /\ pc[p] = "begin" /\ boot = "up" /\ outstanding' = outstanding
    BY Zenon, <1>1 DEF begin_op, Goto, Running
  <2>2. pc' \in [Proc -> PcValues] /\ \A q \in Proc : SameSide(q)
    BY Zenon, <2>1 DEF LInv, TypeOK, PcValues, SameSide, Outside
  <2> QED
    BY Zenon, <2>1, <2>2, SameSideStep DEF begin_op, LInv, TypeOK
<1>2. CASE ~MustWait
  <2>1. pc' = [pc EXCEPT ![p] = "op"] /\ pc[p] = "begin" /\ boot = "up" /\ outstanding' = outstanding + 1
    BY Zenon, <1>2 DEF begin_op, Goto, Running
  <2>2. UNCHANGED <<store, cache, refcnt, lh, committing, buf, wrote, tail,
                    boot, panicked, ops, crashes>>
    BY Zenon DEF begin_op
  <2>3. ~committing /\ Len(lh) + (outstanding + 1) * MaxOpBlocks <= LogSize
    BY <1>2, LogConstants DEF MustWait, LInv, TypeOK
  <2>4. pc' \in [Proc -> PcValues] /\ pc'[p] = "op" /\ \A q \in Proc \ {p} : pc'[q] = pc[q]
    BY Zenon, <2>1 DEF LInv, TypeOK, PcValues, InOp
  <2>5. \A q \in Proc : /\ pc'[q] \in Committing <=> pc[q] \in Committing
                        /\ pc[q] \in Committing => pc'[q] = pc[q]
                        /\ Holds(q)' <=> Holds(q)
                        /\ \A l \in {"erase", "install"} : pc'[q] = l <=> pc[q] = l
    BY Zenon, <2>1, <2>4 DEF Committing, Holds
  <2>6. Active' = Active \cup {p} /\ p \notin Active
    BY Zenon, <2>1, <2>4 DEF Active, InOp
  <2>7. Logged' = Logged /\ \A b \in Block : Held(b)' <=> Held(b)
    BY Zenon, <2>2, <2>5 DEF Logged, Held
  <2>8. TypeOK'
    BY <2>1, <2>2, <2>4 DEF LInv, TypeOK, store
  <2>9. ListInv'
    BY Zenon, <2>2 DEF LInv, ListInv, Distinct, store
  <2>10. BootInv'
    BY Zenon, <2>1, <2>2 DEF BootInv
  <2>11. OpInv'
    <3>1. IsFiniteSet(Active') /\ Cardinality(Active') = outstanding'
      BY Zenon, <2>1, <2>6, FS_AddElement DEF LInv, OpInv
    <3>2. outstanding' # 0 /\ Active' # {}
      BY <2>1, <2>6 DEF LInv, TypeOK
    <3> QED
      BY Zenon, <2>2, <2>3, <2>5, <3>1, <3>2 DEF LInv, OpInv
  <2>12. BufInv'
    <3>1. \A q \in Proc : pc'[q] \notin InOp => pc[q] \notin InOp
      BY Zenon, <2>1, <2>4 DEF InOp
    <3> QED
      BY Zenon, <2>2, <2>5, <3>1 DEF LInv, BufInv
  <2>13. CacheInv'
    BY Zenon, <2>2, <2>7 DEF LInv, CacheInv, store
  <2>14. PhaseInv'
    <3>1. \A l : LogState(l)' <=> LogState(l)
      BY <2>2 DEF LogState, Kept, store
    <3> QED
      BY <2>2, <2>5, <3>1, Zenon DEF LInv, PhaseInv
  <2>15. PinInv'
    <3>1. \A b \in Block : Pinned(b)' <=> Pinned(b)
      BY <2>2, <2>5 DEF Pinned, Installed
    <3> QED
      BY Zenon, <2>1, <2>2, <2>7, <3>1 DEF LInv, PinInv, One, store
  <2>16. SpaceInv'
    <3>1. UsedIsFinite'
      BY <2>8, <2>11, <2>12, UsedFinite, PTL
    <3> QED
      BY <2>1, <2>2, <2>3, <3>1, LogConstants DEF LInv, TypeOK, SpaceInv, UsedIsFinite
  <2> QED
    BY Zenon, <2>8, <2>9, <2>10, <2>11, <2>12, <2>13, <2>14, <2>15, <2>16 DEF LInv
<1> QED
  BY Zenon, <1>1, <1>2

LEMMA ModifyStep ==
  ASSUME LInv, NEW p \in Proc, NEW b \in Block, NEW v \in Val, Modify(p, b, v) PROVE LInv'
<1>1. /\ boot = "up" /\ pc[p] = "op" /\ ~Held(b) /\ Cardinality(wrote[p] \cup {b}) <= OpBlocks
      /\ pc' = [pc EXCEPT ![p] = "log_write"] /\ buf' = [buf EXCEPT ![p] = b]
      /\ wrote' = [wrote EXCEPT ![p] = wrote[p] \cup {b}]
      /\ cache' = [cache EXCEPT ![b] = v]
      /\ refcnt' = [refcnt EXCEPT ![b] = (refcnt[b] + 1) % RefMod]
  BY Zenon DEF Modify, Goto, Running
<1>2. UNCHANGED <<disk, logd, hdr, lh, outstanding, committing, tail, boot, panicked, ops, crashes>>
  BY Zenon DEF Modify, store
<1>3. /\ ~committing /\ hdr = <<>> /\ tail = 0
      /\ \A q \in Proc : pc[q] \notin Committing
  BY Zenon, <1>1, OpFacts DEF InOp
<1>4. /\ pc'[p] = "log_write" /\ buf'[p] = b /\ wrote'[p] = wrote[p] \cup {b}
      /\ \A q \in Proc \ {p} : pc'[q] = pc[q] /\ buf'[q] = buf[q] /\ wrote'[q] = wrote[q]
  BY Zenon, <1>1 DEF LInv, TypeOK
<1>5. TypeOK'
  <2>1. (refcnt[b] + 1) % RefMod \in 0..(RefMod - 1)
    BY LogConstants DEF LInv, TypeOK
  <2> QED
    BY Zenon, <1>1, <1>2, <2>1 DEF LInv, TypeOK, PcValues, InOp
<1>6. ListInv'
  BY <1>2 DEF LInv, ListInv, Distinct
<1>7. BootInv'
  BY Zenon, <1>1, <1>2 DEF BootInv
<1>8. Active' = Active /\ Logged' = Logged
  BY <1>1, <1>2, <1>4 DEF Active, InOp, Logged
<1>9. \A q \in Proc : pc'[q] \notin Committing
  BY Zenon, <1>3, <1>4 DEF Committing
<1>10. OpInv'
  BY Zenon, <1>2, <1>3, <1>8, <1>9 DEF LInv, OpInv
<1>11. \A q \in Proc : Holds(q)' <=> Holds(q) \/ q = p
  BY Zenon, <1>4 DEF Holds
<1>12. ~Holds(p) /\ \A c \in Block : Held(c)' <=> Held(c) \/ c = b
  BY <1>1, <1>4, <1>11 DEF Held, Holds
<1>13. BufInv'
  <2>1. IsFiniteSet(wrote[p] \cup {b})
    BY FS_AddElement, Zenon DEF LInv, BufInv
  <2>2. \A q \in Proc : /\ Holds(q)' => buf'[q] \in wrote'[q]
                        /\ pc'[q] \notin InOp => wrote'[q] = {}
                        /\ IsFiniteSet(wrote'[q]) /\ Cardinality(wrote'[q]) <= OpBlocks
    BY <1>1, <1>4, <1>11, <2>1 DEF LInv, BufInv, InOp
  <2>3. \A q, r \in Proc : Holds(q)' /\ Holds(r)' /\ buf'[q] = buf'[r] => q = r
    BY <1>1, <1>4, <1>11 DEF LInv, BufInv, Held
  <2> QED
    BY Zenon, <2>2, <2>3 DEF BufInv
<1>14. CacheInv'
  BY Zenon, <1>1, <1>2, <1>8, <1>12 DEF LInv, CacheInv, TypeOK
<1>15. PhaseInv'
  <2>1. LogState("none")'
    BY Zenon, <1>2, <1>3 DEF LogState
  <2> QED
    BY <1>9, <2>1, Zenon DEF PhaseInv
<1>16. PinInv'
  <2>1. \A c \in Block : Pinned(c)' <=> Pinned(c)
    BY Zenon, <1>2, <1>3, <1>9 DEF Pinned, Installed, Committing
  <2>2. crashes = 0 => refcnt'[b] = (One(Pinned(b)) + 1) % RefMod
    <3>1. crashes = 0 => refcnt[b] = One(Pinned(b)) % RefMod /\ One(Pinned(b)) \in 0..1
      BY <1>1 DEF LInv, PinInv, One
    <3>2. refcnt'[b] = (refcnt[b] + 1) % RefMod
      BY Zenon, <1>1 DEF LInv, TypeOK
    <3> QED
      BY <3>1, <3>2, PinUp, LogConstants
  <2>3. \A c \in Block \ {b} : refcnt'[c] = refcnt[c]
    BY Zenon, <1>1 DEF LInv, TypeOK
  <2> QED
    BY Zenon, <1>1, <1>2, <1>12, <2>1, <2>2, <2>3 DEF LInv, PinInv, One
<1>17. SpaceInv'
  <2>1. UsedIsFinite' /\ UsedIsFinite
    BY <1>5, <1>10, <1>13, UsedFinite, PTL DEF LInv
  <2>2. Used \in SUBSET Used'
    BY Zenon, <1>4, <1>8 DEF Used, Active
  <2>3. Cardinality(Used) <= Cardinality(Used')
    BY Zenon, <2>1, <2>2, FS_Subset DEF UsedIsFinite
  <2> QED
    BY <1>2, <2>1, <2>3, LogConstants DEF LInv, TypeOK, SpaceInv, UsedIsFinite
<1> QED
  BY Zenon, <1>5, <1>6, <1>7, <1>10, <1>13, <1>14, <1>15, <1>16, <1>17 DEF LInv

LEMMA Appended ==
  ASSUME NEW S, NEW s \in Seq(S), NEW e \in S
  PROVE  /\ Append(s, e) \in Seq(S) /\ Len(Append(s, e)) = Len(s) + 1
         /\ \A i \in 1..Len(s) : Append(s, e)[i] = s[i]
         /\ Append(s, e)[Len(s) + 1] = e
OBVIOUS

LEMMA Product == \A x \in Nat \ {0}, y, z \in Nat : x * z \in Nat /\ y * z \in Nat
OBVIOUS

\* What the space that is left says after a block was logged, and after an operation ended.
LEMMA SpaceMore ==
  ASSUME NEW l \in Nat, NEW l2 \in Nat, NEW a \in Nat, NEW z \in Nat, NEW u \in Nat,
         NEW u2 \in Nat, NEW e \in {0, 1}, l2 = l + e, u + e <= u2, l + a <= z + u
  PROVE  l2 + a <= z + u2
OBVIOUS

LEMMA SpaceLess ==
  ASSUME NEW l \in Nat, NEW a \in Nat, NEW a2 \in Nat, NEW z \in Nat, NEW u \in Nat,
         NEW m \in Nat, NEW x \in Nat, a = a2 + m, x <= m, l + a <= z + u
  PROVE  l + a2 <= z + (u - x)
OBVIOUS

LEMMA LogWriteStep == ASSUME LInv, NEW p \in Proc, log_write(p) PROVE LInv'
<1> DEFINE b == buf[p]
<1>1. /\ boot = "up" /\ pc[p] = "append" /\ Holds(p)
      /\ pc' = [pc EXCEPT ![p] = "op"] /\ buf' = [buf EXCEPT ![p] = "none"]
  BY Zenon DEF log_write, Goto, Running, Holds
<1>2. UNCHANGED <<disk, logd, hdr, cache, outstanding, committing, wrote, tail, boot,
                  panicked, ops, crashes>>
  BY Zenon DEF log_write, store
<1>3. b \in wrote[p] /\ b \in Block
  BY Zenon, <1>1 DEF LInv, BufInv, TypeOK
<1>4. /\ ~committing /\ hdr = <<>> /\ tail = 0
      /\ \A q \in Proc : pc[q] \notin Committing
  BY Zenon, <1>1, OpFacts DEF InOp
<1>5. pc'[p] = "op" /\ \A q \in Proc \ {p} : pc'[q] = pc[q] /\ buf'[q] = buf[q]
  BY Zenon, <1>1 DEF LInv, TypeOK
<1>6. Active' = Active
  BY Zenon, <1>1, <1>5 DEF Active, InOp
<1>7. \A q \in Proc : pc'[q] \notin Committing
  BY Zenon, <1>4, <1>5 DEF Committing
<1>8. \A q \in Proc : Holds(q)' <=> Holds(q) /\ q # p
  BY Zenon, <1>5 DEF Holds
<1>9. \A c \in Block : Held(c)' <=> Held(c) /\ c # b
  BY Zenon, <1>1, <1>5, <1>8 DEF Held, LInv, BufInv
<1>10. \A i : ~Installed(i) /\ ~Installed(i)'
  BY Zenon, <1>4, <1>7 DEF Installed, Committing
<1>11. IF b \in Logged
       THEN lh' = lh /\ refcnt' = bunpin(refcnt, b)
       ELSE lh' = Append(lh, b) /\ refcnt' = bunpin(bpin(refcnt, b), b)
  BY Zenon DEF log_write
<1>12. /\ lh' \in Seq(Block) /\ Distinct(lh)' /\ Len(lh') <= LogSize
       /\ Logged' = Logged \cup {b}
       /\ \A c \in Block : Pinned(c)' <=> Pinned(c) \/ c = b
       /\ Len(lh') = Len(lh) + One(b \notin Logged)
  <2>1. CASE b \in Logged
    <3>1. lh' = lh
      BY Zenon, <1>11, <2>1
    <3>2. Logged' = Logged /\ Pinned(b) /\ \A c \in Block : Pinned(c)' <=> Pinned(c)
      BY Zenon, <1>10, <2>1, <3>1 DEF Logged, Pinned
    <3> QED
      BY <2>1, <3>1, <3>2 DEF LInv, TypeOK, ListInv, Distinct, One
  <2>2. CASE b \notin Logged
    <3>1. lh' = Append(lh, b)
      BY Zenon, <1>11, <2>2
    <3>2. lh \in Seq(Block) /\ Len(lh) \in Nat
      BY DEF LInv, TypeOK
    <3>3. /\ lh' \in Seq(Block) /\ Len(lh') = Len(lh) + 1 /\ lh'[Len(lh) + 1] = b
          /\ \A i \in 1..Len(lh) : lh'[i] = lh[i]
      BY <1>3, <3>1, <3>2, Appended
    <3>4. \A i \in 1..Len(lh) : lh[i] # b
      BY Zenon, <2>2 DEF Logged
    <3>5. Distinct(lh)'
      BY <3>2, <3>3, <3>4 DEF LInv, ListInv, Distinct
    <3>6. Logged' = Logged \cup {b}
      BY <3>2, <3>3 DEF Logged
    <3>7. \A c \in Block : Pinned(c)' <=> Pinned(c) \/ c = b
      BY <1>10, <3>2, <3>3 DEF Pinned
    <3>8. Len(lh) < LogSize
      BY Zenon, <1>1, <1>3, <2>2, RoomForOne DEF InOp
    <3> QED
      BY <2>2, <3>2, <3>3, <3>5, <3>6, <3>7, <3>8, LogConstants DEF One
  <2> QED
    BY Zenon, <2>1, <2>2
<1>13. /\ refcnt' \in [Block -> 0..(RefMod - 1)]
       /\ \A c \in Block \ {b} : refcnt'[c] = refcnt[c]
       /\ crashes = 0 => refcnt'[b] = 1 % RefMod
  <2>1. refcnt \in [Block -> 0..(RefMod - 1)] /\ RefMod \in Nat /\ RefMod > 1
    BY LogConstants DEF LInv, TypeOK
  <2>2. Held(b)
    BY Zenon, <1>1 DEF Held
  <2>3. ((2 % RefMod) + RefMod - 1) % RefMod = 1 % RefMod
    <3>1. 2 \in 1..2 /\ 2 - 1 = 1
      OBVIOUS
    <3> QED
      BY <2>1, <3>1, PinDown, Zenon
  <2>4. CASE b \in Logged
    <3>1. refcnt' = [refcnt EXCEPT ![b] = (refcnt[b] + RefMod - 1) % RefMod]
      BY Zenon, <1>11, <2>4 DEF bunpin
    <3>2. (refcnt[b] + RefMod - 1) % RefMod \in 0..(RefMod - 1)
      BY <1>3, <2>1
    <3>3. Pinned(b)
      BY Zenon, <1>10, <2>4 DEF Logged, Pinned
    <3>4. crashes = 0 => refcnt[b] = 2 % RefMod
      BY <1>3, <2>2, <3>3 DEF LInv, PinInv, One
    <3>5. crashes = 0 => (refcnt[b] + RefMod - 1) % RefMod = 1 % RefMod
      BY Zenon, <2>3, <3>4
    <3> QED
      BY Zenon, <1>3, <2>1, <3>1, <3>2, <3>5
  <2>5. CASE b \notin Logged
    <3>1. /\ bpin(refcnt, b) \in [Block -> 0..(RefMod - 1)]
          /\ \A c \in Block \ {b} : bpin(refcnt, b)[c] = refcnt[c]
          /\ bpin(refcnt, b)[b] = (refcnt[b] + 1) % RefMod
      <4>1. (refcnt[b] + 1) % RefMod \in 0..(RefMod - 1)
        BY <1>3, <2>1
      <4> QED
        BY Zenon, <1>3, <2>1, <4>1 DEF bpin
    <3> DEFINE r == bpin(refcnt, b)
    <3> HIDE DEF r
    <3>2. refcnt' = [r EXCEPT ![b] = (r[b] + RefMod - 1) % RefMod]
      BY Zenon, <1>11, <2>5 DEF bunpin, r
    <3>3. r \in [Block -> 0..(RefMod - 1)] /\ r[b] = (refcnt[b] + 1) % RefMod /\ \A c \in Block \ {b} : r[c] = refcnt[c]
      BY Zenon, <3>1 DEF r
    <3>4. (r[b] + RefMod - 1) % RefMod \in 0..(RefMod - 1)
      BY <1>3, <2>1, <3>3
    <3>5. ~Pinned(b)
      BY Zenon, <2>5 DEF Logged, Pinned
    <3>6. crashes = 0 => refcnt[b] = 1 % RefMod
      BY <1>3, <2>2, <3>5 DEF LInv, PinInv, One
    <3>7. crashes = 0 => r[b] = 2 % RefMod
      BY <2>1, <3>3, <3>6, PinUp
    <3>8. crashes = 0 => (r[b] + RefMod - 1) % RefMod = 1 % RefMod
      BY Zenon, <2>3, <3>7
    <3> QED
      BY Zenon, <1>3, <2>1, <3>2, <3>3, <3>4, <3>8
  <2> QED
    BY Zenon, <2>4, <2>5
<1> HIDE DEF b
<1>14. TypeOK'
  BY Zenon, <1>1, <1>2, <1>12, <1>13 DEF LInv, TypeOK, PcValues, InOp
<1>15. ListInv'
  BY Zenon, <1>2, <1>12 DEF LInv, ListInv, Distinct
<1>16. BootInv'
  BY Zenon, <1>1, <1>2 DEF BootInv
<1>17. OpInv'
  BY <1>2, <1>4, <1>6, <1>7 DEF LInv, OpInv
<1>18. BufInv'
  <2>1. pc[p] \in InOp /\ pc'[p] \in InOp
    BY Zenon, <1>1, <1>5 DEF InOp
  <2> QED
    BY <1>2, <1>5, <1>8, <2>1, Zenon DEF LInv, BufInv
<1>19. CacheInv'
  BY <1>2, <1>9, <1>12, Zenon DEF LInv, CacheInv
<1>20. PhaseInv'
  <2>1. LogState("none")'
    BY Zenon, <1>2, <1>4 DEF LogState
  <2> QED
    BY <1>7, <2>1, Zenon DEF PhaseInv
<1>21. PinInv'
  BY <1>1, <1>2, <1>3, <1>9, <1>12, <1>13 DEF LInv, PinInv, One
<1>22. SpaceInv'
  <2>1. UsedIsFinite' /\ UsedIsFinite
    BY <1>14, <1>17, <1>18, UsedFinite, PTL DEF LInv
  <2>2. Used \in SUBSET Used'
    BY Zenon, <1>2, <1>6, <1>12 DEF Used
  <2>3. Cardinality(Used) + One(b \notin Logged) <= Cardinality(Used')
    <3>1. CASE b \in Logged
      <4>1. Cardinality(Used) <= Cardinality(Used') /\ One(b \notin Logged) = 0
        BY Zenon, <2>1, <2>2, <3>1, FS_Subset DEF UsedIsFinite, One
      <4> QED
        BY <4>1, <2>1 DEF UsedIsFinite
    <3>2. CASE b \notin Logged
      <4>1. <<p, b>> \in Used' /\ <<p, b>> \notin Used
        BY Zenon, <1>1, <1>2, <1>3, <1>6, <1>12, <3>2 DEF Used, Active, InOp
      <4>2. Used \cup {<<p, b>>} \in SUBSET Used'
        BY Zenon, <2>2, <4>1
      <4>3. Cardinality(Used \cup {<<p, b>>}) = Cardinality(Used) + 1
        BY <2>1, <4>1, FS_AddElement, Zenon DEF UsedIsFinite
      <4>4. Cardinality(Used \cup {<<p, b>>}) <= Cardinality(Used')
        BY Zenon, <2>1, <4>2, FS_Subset DEF UsedIsFinite
      <4>5. One(b \notin Logged) = 1
        BY Zenon, <3>2 DEF One
      <4> QED
        BY Zenon, <4>3, <4>4, <4>5
    <3> QED
      BY Zenon, <3>1, <3>2
  <2>4. /\ outstanding * MaxOpBlocks \in Nat /\ LogSize \in Nat /\ Len(lh) \in Nat /\ Len(lh') \in Nat
        /\ One(b \notin Logged) \in {0, 1}
    <3>1. outstanding \in Nat /\ MaxOpBlocks \in Nat \ {0} /\ LogSize \in Nat
      BY LogConstants DEF LInv, TypeOK
    <3>2. Len(lh) \in Nat /\ Len(lh') \in Nat
      BY <1>12 DEF LInv, TypeOK
    <3> QED
      BY Zenon, <3>1, <3>2, Product DEF One
  <2>5. ASSUME outstanding # 0
        PROVE  Len(lh') + outstanding * MaxOpBlocks <= LogSize + Cardinality(Used')
    <3>1. Len(lh) + outstanding * MaxOpBlocks <= LogSize + Cardinality(Used)
      BY Zenon, <2>5 DEF LInv, SpaceInv
    <3> QED
      BY Zenon, <1>12, <2>1, <2>3, <2>4, <3>1, SpaceMore DEF UsedIsFinite
  <2> QED
    BY Zenon, <1>2, <2>5 DEF SpaceInv
<1> QED
  BY Zenon, <1>14, <1>15, <1>16, <1>17, <1>18, <1>19, <1>20, <1>21, <1>22 DEF LInv

LEMMA EndOpStep == ASSUME LInv, NEW p \in Proc, end_op(p) PROVE LInv'
<1>1. boot = "up" /\ pc[p] = "op" /\ pc[p] \in InOp
  BY Zenon DEF end_op, Running, InOp
<1>2. /\ ~committing /\ hdr = <<>> /\ tail = 0
      /\ \A q \in Proc : pc[q] \notin Committing
  BY Zenon, <1>1, OpFacts
<1>3. /\ outstanding' = outstanding - 1
      /\ committing' = (outstanding = 1)
      /\ pc' = IF outstanding = 1
               THEN [pc EXCEPT ![p] = IF lh = <<>> THEN "done" ELSE "write_log"]
               ELSE WakeLog([pc EXCEPT ![p] = "idle"])
      /\ wrote' = [wrote EXCEPT ![p] = {}]
  BY <1>2, Zenon DEF end_op
<1>4. UNCHANGED <<disk, logd, hdr, cache, refcnt, lh, buf, tail, boot, panicked, ops, crashes>>
  BY Zenon, <1>2 DEF end_op, store
<1>5. /\ pc' \in [Proc -> PcValues]
      /\ \A q \in Proc \ {p} : pc'[q] = pc[q] \/ (pc[q] = "sleep" /\ pc'[q] = "begin")
      /\ pc'[p] = IF outstanding = 1 THEN IF lh = <<>> THEN "done" ELSE "write_log" ELSE "idle"
  <2>1. CASE outstanding = 1
    BY Zenon, <1>3, <2>1 DEF LInv, TypeOK, PcValues, Committing
  <2>2. CASE outstanding # 1
    BY Zenon, <1>3, <2>2 DEF LInv, TypeOK, PcValues, WakeLog
  <2> QED
    BY Zenon, <2>1, <2>2
<1>6. wrote'[p] = {} /\ \A q \in Proc \ {p} : wrote'[q] = wrote[q]
  BY Zenon, <1>3 DEF LInv, TypeOK
<1>7. Active' = Active \ {p} /\ p \in Active /\ Logged' = Logged
  BY Zenon, <1>1, <1>4, <1>5 DEF Active, InOp, Logged
<1>8. \A q \in Proc : /\ pc'[q] \in Committing <=> q = p /\ outstanding = 1
                      /\ Holds(q)' <=> Holds(q)
                      /\ pc'[q] \notin {"install", "erase"}
  BY <1>1, <1>2, <1>5 DEF Committing, Holds
<1>9. \A c \in Block : (Held(c)' <=> Held(c)) /\ (Pinned(c)' <=> Pinned(c))
  BY Zenon, <1>2, <1>4, <1>8 DEF Held, Pinned, Installed, Committing
<1>10. IsFiniteSet(Active') /\ Cardinality(Active') = outstanding' /\ outstanding' \in Nat /\ outstanding \in Nat \ {0}
  <2>1. Cardinality(Active') = outstanding - 1 /\ IsFiniteSet(Active')
    BY Zenon, <1>7, FS_RemoveElement DEF LInv, OpInv
  <2>2. Cardinality(Active') \in Nat
    BY Zenon, <2>1, FS_CardinalityType
  <2> QED
    BY <1>3, <2>1, <2>2 DEF LInv, TypeOK
<1>11. TypeOK'
  BY <1>3, <1>4, <1>5, <1>10, Zenon DEF LInv, TypeOK
<1>12. ListInv'
  BY <1>4 DEF LInv, ListInv, Distinct
<1>13. BootInv'
  BY Zenon, <1>1, <1>4 DEF BootInv
<1>14. OpInv'
  <2>1. committing' <=> outstanding = 1
    BY <1>3, Zenon
  <2>2. outstanding = 1 => outstanding' = 0
    BY <1>3, <1>10
  <2> QED
    BY <1>8, <1>10, <2>1, <2>2, FS_EmptySet, Zenon DEF OpInv
<1>15. BufInv'
  <2>1. \A q \in Proc \ {p} : pc'[q] \in InOp <=> pc[q] \in InOp
    BY Zenon, <1>5 DEF InOp
  <2>2. ~Holds(p)
    BY Zenon, <1>1 DEF Holds
  <2>3. IsFiniteSet({}) /\ Cardinality({}) <= OpBlocks
    BY FS_EmptySet, LogConstants
  <2> QED
    BY <1>4, <1>6, <1>8, <2>1, <2>2, <2>3 DEF LInv, BufInv
<1>16. CacheInv'
  BY Zenon, <1>4, <1>7, <1>9 DEF LInv, CacheInv
<1>17. PhaseInv'
  <2>1. CASE outstanding = 1
    <3>1. LogState(pc[p])'
      BY <1>2, <1>4, <1>5, <2>1 DEF LogState, LInv, TypeOK
    <3> QED
      BY <1>3, <1>8, <2>1, <3>1, Zenon DEF PhaseInv
  <2>2. CASE outstanding # 1
    <3>1. LogState("none")'
      BY <1>2, <1>4, Zenon DEF LogState
    <3> QED
      BY <1>8, <2>2, <3>1, Zenon DEF PhaseInv
  <2> QED
    BY Zenon, <2>1, <2>2
<1>18. PinInv'
  BY Zenon, <1>4, <1>9 DEF LInv, PinInv, One
<1>19. SpaceInv'
  <2>1. UsedIsFinite' /\ UsedIsFinite
    BY <1>11, <1>14, <1>15, UsedFinite, PTL DEF LInv
  <2> DEFINE mine == {p} \X wrote[p]
  <2>2. IsFiniteSet(mine) /\ Cardinality(mine) <= MaxOpBlocks /\ Cardinality(mine) \in Nat
    <3>1. IsFiniteSet(wrote[p]) /\ Cardinality(wrote[p]) <= OpBlocks /\ Cardinality(wrote[p]) \in Nat
      BY Zenon, FS_CardinalityType DEF LInv, BufInv
    <3>2. IsFiniteSet({p}) /\ Cardinality({p}) = 1
      BY FS_Singleton, Zenon
    <3>3. IsFiniteSet(mine) /\ Cardinality(mine) = 1 * Cardinality(wrote[p])
      BY <3>1, <3>2, FS_Product
    <3> QED
      BY <3>1, <3>3, LogConstants
  <2>3. Used' = Used \ mine
    BY Zenon, <1>6, <1>7 DEF Used, Active
  <2> HIDE DEF mine
  <2>4. Cardinality(Used') = Cardinality(Used) - Cardinality(Used \cap mine)
    BY <2>1, <2>3, FS_Difference, Zenon DEF UsedIsFinite
  <2>5. Cardinality(Used \cap mine) <= Cardinality(mine) /\ Cardinality(Used \cap mine) \in Nat
    BY <2>2, FS_Intersection, FS_CardinalityType, Zenon
  <2>6. outstanding * MaxOpBlocks = outstanding' * MaxOpBlocks + MaxOpBlocks
    BY <1>3, <1>10, LogConstants
  <2>7. outstanding * MaxOpBlocks \in Nat /\ outstanding' * MaxOpBlocks \in Nat
    <3>1. MaxOpBlocks \in Nat
      BY Zenon, LogConstants
    <3> QED
      BY <1>10, <3>1, Product, Zenon
  <2>8. Len(lh) \in Nat /\ LogSize \in Nat /\ MaxOpBlocks \in Nat
    BY LogConstants DEF LInv, TypeOK
  <2>9. Len(lh) + outstanding * MaxOpBlocks <= LogSize + Cardinality(Used)
    BY Zenon, <1>10 DEF LInv, SpaceInv
  <2>10. Cardinality(Used \cap mine) <= MaxOpBlocks
    BY <2>2, <2>5, <2>8
  <2>11. Len(lh) + outstanding' * MaxOpBlocks <= LogSize + (Cardinality(Used) - Cardinality(Used \cap mine))
    BY Zenon, <2>1, <2>5, <2>6, <2>7, <2>8, <2>9, <2>10, SpaceLess DEF UsedIsFinite
  <2> QED
    BY Zenon, <1>4, <2>4, <2>11 DEF SpaceInv
<1> QED
  BY Zenon, <1>11, <1>12, <1>13, <1>14, <1>15, <1>16, <1>17, <1>18, <1>19 DEF LInv

LEMMA CrashStep == ASSUME LInv, Crash PROVE LInv'
<1>1. /\ crashes' = crashes + 1 /\ cache' = disk /\ refcnt' = [b \in Block |-> 0]
      /\ lh' = <<>> /\ outstanding' = 0 /\ committing' = FALSE
      /\ pc' = [p \in Proc |-> "idle"] /\ buf' = [p \in Proc |-> "none"]
      /\ wrote' = [p \in Proc |-> {}] /\ boot' = "read_head" /\ tail' = 0
      /\ ~panicked /\ UNCHANGED <<disk, logd, hdr, panicked, ops>>
  BY Zenon DEF Crash, store
<1>2. TypeOK'
  <2>1. /\ refcnt' \in [Block -> 0..(RefMod - 1)] /\ pc' \in [Proc -> PcValues]
        /\ buf' \in [Proc -> Block \cup {"none"}] /\ wrote' \in [Proc -> SUBSET Block]
    BY <1>1, LogConstants DEF PcValues
  <2>2. cache' \in [Block -> Val] /\ lh' \in Seq(Block) /\ crashes' \in Nat
    BY <1>1 DEF LInv, TypeOK
  <2>3. disk' \in [Block -> Val] /\ logd' \in [1..LogSize -> Val] /\ hdr' \in Seq(Block)
        /\ ops' \in Nat /\ panicked' \in BOOLEAN
    BY Zenon, <1>1 DEF LInv, TypeOK
  <2> QED
    BY <1>1, <2>1, <2>2, <2>3, Zenon DEF TypeOK
<1>3. ListInv'
  BY <1>1, LogConstants DEF LInv, ListInv, Distinct
<1>4. Alone'
  BY Zenon, <1>1 DEF Alone
<1>5. BootInv'
  BY Zenon, <1>1 DEF BootInv
<1>6. CacheInv'
  BY Zenon, <1>1 DEF CacheInv
<1>7. crashes' # 0
  BY <1>1 DEF LInv, TypeOK
<1>8. OpInv' /\ BufInv'
  <2>1. \A p \in Proc : pc'[p] \notin InOp /\ pc'[p] \notin Committing /\ ~Holds(p)' /\ wrote'[p] = {}
    BY Zenon, <1>1 DEF InOp, Committing, Holds
  <2>2. Active' = {}
    BY Zenon, <2>1 DEF Active
  <2>3. OpInv'
    BY Zenon, <1>1, <2>1, <2>2, FS_EmptySet DEF OpInv
  <2>4. BufInv'
    BY <2>1, FS_EmptySet, LogConstants DEF BufInv
  <2> QED
    BY Zenon, <2>3, <2>4
<1> QED
  BY <1>1, <1>2, <1>3, <1>4, <1>5, <1>6, <1>7, <1>8, BootControl

LEMMA NextLInv == LInv /\ [Next]_vars => LInv'
<1> SUFFICES ASSUME LInv, [Next]_vars PROVE LInv'
  BY Zenon
<1>1. ASSUME NEW p \in Proc, OpStep(p) PROVE LInv'
  BY <1>1, BeginStep, ModifyStep, CheckStep, LogWriteStep, EndOpStep, Zenon DEF OpStep
<1>2. ASSUME NEW p \in Proc, CommitStep(p) PROVE LInv'
  BY <1>2, WriteLogStep, WriteHeadStep, InstallStep, EraseStep, EndCommitStep, Zenon DEF CommitStep
<1>3. ASSUME Recover PROVE LInv'
  BY <1>3, ReadHeadStep, RecoverInstallStep, RecoverEraseStep, Zenon DEF Recover
<1>4. CASE UNCHANGED vars
  <2>1. pc' \in [Proc -> PcValues] /\ \A q \in Proc : SameSide(q)
    BY Zenon, <1>4 DEF vars, mem, LInv, TypeOK, SameSide
  <2> QED
    BY <1>4, <2>1, SameSideStep DEF vars, mem, LInv, TypeOK
<1> QED
  BY <1>1, <1>2, <1>3, <1>4, CallStep, CrashStep, EvictStep, Zenon DEF Next

\* For any number of processes, blocks, operations and crashes the log is in one
\* of the states of LInv: the blocks that differ from their home locations are
\* logged or locked, what begin_op reserved is enough, a commit runs alone, and
\* before the first crash the reference counts are exact.
THEOREM LogInvariant == Spec => []LInv
<1> QED
  BY InitInv, NextLInv, PTL DEF Spec

-----------------------------------------------------------------------------
(* What the log promises. *)

LEMMA CrashRefines == ASSUME LInv, Crash PROVE Refines
<1>1. UNCHANGED <<disk, logd, hdr>> /\ boot' = "read_head" /\ pc' = [p \in Proc |-> "idle"]
  BY Zenon DEF Crash, store
<1>2. Recovered' = Recovered
  BY Zenon, <1>1 DEF Recovered
<1>3. Active' = {}
  BY Zenon, <1>1 DEF Active, InOp
<1>4. AD!Crash
  BY Zenon, <1>1, <1>2, <1>3 DEF AD!Crash, Active
<1> QED
  BY Zenon, <1>4 DEF Refines, AD!AdNext

LEMMA StepRefines == LInv /\ LInv' /\ Kept /\ [Next]_vars => Refines
<1> SUFFICES ASSUME LInv, LInv', Kept, [Next]_vars PROVE Refines
  BY Zenon
<1>1. ASSUME NEW b \in Block, Evict(b) PROVE Refines
  <2>1. UNCHANGED <<disk, logd, hdr, pc, boot>>
    BY Zenon, <1>1 DEF Evict, store
  <2>2. cache' = cache
    BY Zenon, <1>1, EvictKeeps
  <2>3. Active' = Active
    BY Zenon, <2>1 DEF Active
  <2> QED
    BY Zenon, <2>1, <2>2, <2>3, AdQuiet, AdStutter
<1>2. CASE UNCHANGED vars
  <2>1. Active' = Active
    BY Zenon, <1>2 DEF vars, mem, Active
  <2> QED
    BY Zenon, <1>2, <2>1, AdQuiet, AdStutter DEF vars, store, mem
<1> QED
  BY <1>1, <1>2, OpRefines, CommitRefines, RecoverRefines, CrashRefines, Zenon DEF Next

LEMMA InitRefines == Init => AD!AdInit
<1> SUFFICES ASSUME Init PROVE AD!AdInit
  BY Zenon
<1>1. TypeOK /\ Active = {}
  BY Zenon, InitInv DEF LInv, Init, Active, InOp
<1>2. Recovered = disk
  BY Zenon, <1>1, EmptyRecovers DEF EmptyHeader, Init
<1> QED
  BY Zenon, <1>1, <1>2 DEF AD!AdInit, TypeOK, Init, Active

\* Crashes are counted.
LEMMA CrashBound == Spec => [](crashes \in Nat /\ crashes <= MaxCrashes)
<1> DEFINE B == crashes \in Nat /\ crashes <= MaxCrashes
<1>1. Init => B
  BY LogConstants DEF Init
<1>2. B /\ [Next]_vars => B'
  <2> SUFFICES ASSUME B, [Next]_vars PROVE B'
    BY Zenon
  <2>1. CASE Crash
    BY <2>1, LogConstants DEF Crash
  <2>2. ASSUME NEW p \in Proc, Call(p) \/ OpStep(p) \/ CommitStep(p) PROVE crashes' = crashes
    BY <2>2, Zenon DEF Call, OpStep, begin_op, Modify, log_write_check, log_write, end_op, Panic,
                CommitStep, write_log, write_head, install_trans, erase_head, end_commit
  <2>3. CASE Recover
    BY Zenon, <2>3 DEF Recover, read_head, recover_install, recover_erase
  <2>4. CASE UNCHANGED vars
    BY Zenon, <2>4 DEF vars
  <2>5. ASSUME NEW b \in Block, Evict(b) PROVE crashes' = crashes
    BY Zenon, <2>5 DEF Evict
  <2> QED
    BY Zenon, <2>1, <2>2, <2>3, <2>4, <2>5 DEF Next
<1> QED
  BY <1>1, <1>2, PTL DEF Spec

\* The log is a disk on which whole groups of operations become durable at once,
\* through any number of crashes, also crashes of the recovery: if the buffers
\* of logged blocks stay in the cache.  Without a crash they do, because
\* log_write pins them; after a crash that has to be assumed, because
\* install_trans unpins blocks the recovery never pinned.
THEOREM LogIsAtomic ==
  ASSUME ~EvictLogged \/ MaxCrashes = 0
  PROVE  Spec => CrashAtomic
<1>1. crashes \in Nat /\ crashes <= MaxCrashes => Kept
  BY LogConstants DEF Kept
<1>2. LInv /\ LInv' /\ Kept /\ [Next]_vars => [AD!AdNext]_(AD!adVars)
  BY Zenon, StepRefines DEF Refines
<1> QED
  BY <1>1, <1>2, InitRefines, CrashBound, LogInvariant, PTL DEF Spec, CrashAtomic, AD!AdSpec

\* When the end_op that committed returns, the disk would recover to exactly what
\* the cache holds; also when earlier recoveries have spoilt the reference counts.
THEOREM DurableOnReturnTheorem == Spec => []DurableOnReturn
<1>1. LInv => DurableOnReturn
  <2> SUFFICES ASSUME LInv, NEW p \in Proc, pc[p] = "done" PROVE Recovered = cache
    BY Zenon DEF DurableOnReturn
  <2>1. LogState("done") /\ \A b \in Block : ~Held(b)
    BY Zenon, CommitFacts DEF Committing
  <2>2. hdr = <<>> /\ lh = <<>>
    BY Zenon, <2>1 DEF LogState
  <2>3. Recovered = disk
    BY Zenon, <2>2, EmptyRecovers DEF EmptyHeader, LInv
  <2>4. \A b \in Block : cache[b] = disk[b]
    BY <2>1, <2>2 DEF LInv, CacheInv, Logged
  <2> QED
    BY <2>3, <2>4 DEF LInv, TypeOK
<1> QED
  BY <1>1, LogInvariant, PTL

\* Until power is first lost, a block that waits in the log is pinned: the count
\* of its buffer is not zero and bget cannot recycle it.
THEOREM PinnedBeforeCrash == Spec => [](crashes = 0 => LoggedPinned)
<1>1. LInv => (crashes = 0 => LoggedPinned)
  <2> SUFFICES ASSUME LInv, crashes = 0, Running, NEW i \in 1..Len(lh), ~Installed(i)
               PROVE  refcnt[lh[i]] # 0
    BY Zenon DEF LoggedPinned, Installed
  <2>1. lh[i] \in Block /\ Pinned(lh[i])
    BY DEF LInv, TypeOK, Pinned
  <2>2. refcnt[lh[i]] = (1 + One(Held(lh[i]))) % RefMod
    BY Zenon, <2>1 DEF LInv, PinInv, One
  <2> QED
    BY <2>2, LogConstants DEF One
<1> QED
  BY <1>1, LogInvariant, PTL
=============================================================================
