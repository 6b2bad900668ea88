------------------------- MODULE CheckedModuleProofs -------------------------
(***************************************************************************)
(* What the checks of a module guarantee, for any names, blocks of any     *)
(* depth and any number of inputs.                                         *)
(***************************************************************************)
EXTENDS CheckedModule, SequenceTheorems, WellFoundedInduction, TLAPS

-----------------------------------------------------------------------------
(* Positions. *)

(* A set of numbers that is not empty has a least element, ...            *)
LEMMA LeastExists ==
  ASSUME NEW S, S \subseteq Nat, S # {}
  PROVE  \E m \in S : \A k \in S : m <= k
<1>1. PICK m \in S : \A k \in S : ~ (<<k, m>> \in OpToRel(<, Nat))
  BY WFMin, NatLessThanWellFounded
<1>2. ASSUME NEW k \in S PROVE m <= k
  <2>1. k \in Nat /\ m \in Nat
    OBVIOUS
  <2>2. ~ (<<k, m>> \in OpToRel(<, Nat))
    BY <1>1
  <2>3. ~ (k < m)
    <3> SUFFICES ASSUME k < m PROVE FALSE
      OBVIOUS
    <3> QED
      BY <2>1, <2>2 DEF OpToRel
  <2> QED
    BY <2>1, <2>3
<1> QED
  BY <1>2

(* ... and a set of positions a greatest one.                             *)
LEMMA GreatestExists ==
  ASSUME NEW n \in Nat, NEW S, S \subseteq 1 .. n, S # {}
  PROVE  \E m \in S : \A k \in S : k <= m
<1> DEFINE T == {n - i : i \in S}
<1>1. ASSUME NEW i \in S PROVE n - i \in Nat
  OBVIOUS
<1>2. T \subseteq Nat
  BY <1>1
<1>3. T # {}
  OBVIOUS
<1>4. PICK t \in T : \A k \in T : t <= k
  BY <1>2, <1>3, LeastExists
<1>5. PICK m \in S : t = n - m
  BY <1>4
<1>6. ASSUME NEW k \in S PROVE k <= m
  <2>1. n - m <= n - k
    BY <1>4, <1>5
  <2> QED
    BY <2>1
<1> QED
  BY <1>6

(* Max is that element, ...                                                *)
LEMMA MaxIsGreatest ==
  ASSUME NEW n \in Nat, NEW S, S \subseteq 1 .. n, S # {}
  PROVE  Max(S) \in S /\ \A k \in S : k <= Max(S)
<1>1. \E m \in S : \A k \in S : m >= k
  BY GreatestExists
<1> QED
  BY <1>1 DEF Max

(* ... and no other position is both in the set and not below any of it.  *)
LEMMA GreatestIsMax ==
  ASSUME NEW n \in Nat, NEW S, S \subseteq 1 .. n, NEW m \in S, \A k \in S : k <= m
  PROVE  Max(S) = m
<1>1. S # {}
  OBVIOUS
<1>2. Max(S) \in S /\ m <= Max(S) /\ Max(S) <= m
  BY <1>1, MaxIsGreatest
<1>3. ASSUME NEW k \in S PROVE k \in Nat
  OBVIOUS
<1>4. m \in Nat /\ Max(S) \in Nat
  BY <1>2, <1>3
<1> QED
  BY <1>2, <1>4

-----------------------------------------------------------------------------
(* Side effects. *)

(* The block of the module is the outermost, and no other is one.          *)
BlocksNested ==
  /\ blocks \in Seq(BlockKind)
  /\ Len(blocks) > 0
  /\ \A i \in 1 .. Len(blocks) : blocks[i] = "Module" <=> i = 1

LEMMA InnermostSurrounds ==
  ASSUME BlocksNested, blocks[Len(blocks)] # "Instant"
  PROVE  Surrounding = blocks[Len(blocks)]
<1> DEFINE S == {i \in 1 .. Len(blocks) : blocks[i] # "Instant"}
<1>1. Len(blocks) \in Nat /\ S \subseteq 1 .. Len(blocks) /\ Len(blocks) \in S
  BY DEF BlocksNested
<1>2. \A k \in S : k <= Len(blocks)
  BY <1>1
<1>3. Max(S) = Len(blocks)
  BY <1>1, <1>2, GreatestIsMax
<1> QED
  BY <1>3 DEF Surrounding

LEMMA NextSurrounds ==
  ASSUME BlocksNested, Len(blocks) > 1,
         blocks[Len(blocks)] = "Instant", blocks[Len(blocks) - 1] # "Instant"
  PROVE  Surrounding = blocks[Len(blocks) - 1]
<1> DEFINE S == {i \in 1 .. Len(blocks) : blocks[i] # "Instant"}
<1>1. Len(blocks) \in Nat /\ S \subseteq 1 .. Len(blocks) /\ Len(blocks) - 1 \in S
  BY DEF BlocksNested
<1>2. \A k \in S : k <= Len(blocks) - 1
  BY <1>1
<1>3. Max(S) = Len(blocks) - 1
  BY <1>1, <1>2, GreatestIsMax
<1> QED
  BY <1>3 DEF Surrounding

(* Two blocks tell whether a place is in a function.                       *)
LEMMA TwoBlocksSuffice ==
  ASSUME BlocksNested
  PROVE  ~InContextEffectsAllowed(blocks) <=> InFunction /\ ~InstantInInstant
<1> DEFINE n == Len(blocks)
<1>1. n \in Nat /\ n > 0
  BY DEF BlocksNested
<1>2. n \in 1 .. n
  BY <1>1
<1>3. blocks[n] \in BlockKind
  BY <1>2 DEF BlocksNested
<1>4. blocks[n] = "Module" <=> n = 1
  BY <1>2 DEF BlocksNested
<1>5. CASE blocks[n] # "Instant"
  <2>1. Surrounding = blocks[n]
    BY <1>5, InnermostSurrounds
  <2> QED
    BY <1>1, <1>3, <1>4, <1>5, <2>1
    DEF InContextEffectsAllowed, InFunction, InstantInInstant, BlockKind
<1>6. CASE blocks[n] = "Instant"
  <2>1. n # 1
    <3>1. blocks[n] # "Module"
      BY <1>6
    <3> QED
      BY <1>4, <3>1
  <2>2. n > 1
    <3> HIDE DEF n
    <3> QED
      BY <1>1, <2>1
  <2>3. n - 1 \in 1 .. n
    BY <1>1, <2>2
  <2>4. blocks[n - 1] \in BlockKind
    BY <2>3 DEF BlocksNested
  <2>5. CASE blocks[n - 1] = "Instant"
    BY <1>1, <1>6, <2>2, <2>5 DEF InContextEffectsAllowed, InstantInInstant
  <2>6. CASE blocks[n - 1] # "Instant"
    <3>1. Surrounding = blocks[n - 1]
      BY <1>6, <2>2, <2>6, NextSurrounds
    <3> QED
      BY <1>1, <1>6, <2>2, <2>4, <2>6, <3>1
      DEF InContextEffectsAllowed, InFunction, InstantInInstant, BlockKind
  <2> QED
    BY <2>5, <2>6
<1> QED
  BY <1>5, <1>6

LEMMA EnterKeepsNesting ==
  ASSUME BlocksNested, EnterBlock
  PROVE  BlocksNested'
<1>1. PICK entered \in DefBlocks \union LambdaBlocks \union AttrBlocks :
        blocks' = blocks \o entered
  BY DEF EnterBlock
<1>2. entered \in Seq(BlockKind \ {"Module"})
  <2> DEFINE Inner == BlockKind \ {"Module"}
  <2>1. /\ \A a \in Inner : <<a>> \in Seq(Inner)
        /\ \A a, b \in Inner : <<a, b>> \in Seq(Inner)
    OBVIOUS
  <2>2. {"Func", "ConstFunc", "ConstInstant", "Proc", "Instant"} \subseteq Inner
    BY DEF BlockKind
  <2> HIDE DEF Inner
  <2>3. entered \in Seq(Inner)
    BY <2>1, <2>2 DEF DefBlocks, LambdaBlocks, AttrBlocks
  <2> QED
    BY <2>3 DEF Inner
<1>3. blocks' \in Seq(BlockKind) /\ Len(blocks') = Len(blocks) + Len(entered)
  BY <1>1, <1>2 DEF BlocksNested
<1>4. ASSUME NEW i \in 1 .. Len(blocks')
      PROVE  blocks'[i] = "Module" <=> i = 1
  <2>1. CASE i <= Len(blocks)
    BY <1>1, <1>2, <1>3, <2>1 DEF BlocksNested
  <2>2. CASE i > Len(blocks)
    <3>1. i - Len(blocks) \in 1 .. Len(entered) /\ blocks'[i] = entered[i - Len(blocks)]
      BY <1>1, <1>2, <1>3, <2>2 DEF BlocksNested
    <3>2. entered[i - Len(blocks)] # "Module"
      BY <1>2, <3>1
    <3>3. i # 1
      BY <1>3, <2>2 DEF BlocksNested
    <3> QED
      BY <3>1, <3>2, <3>3
  <2> QED
    BY <1>3, <2>1, <2>2 DEF BlocksNested
<1> QED
  BY <1>2, <1>3, <1>4 DEF BlocksNested

LEMMA LeaveKeepsNesting ==
  ASSUME BlocksNested, LeaveBlock
  PROVE  BlocksNested'
BY DEF BlocksNested, LeaveBlock

(* What is reported is what is not nested.                                 *)
PlainReported == met \subseteq {"plain", "nested"} /\ (effect_errs <=> "plain" \in met)

EffectInv == BlocksNested /\ PlainReported

(* An input is rejected for a side effect if and only if a function causes *)
(* one, whatever the depth of the blocks, except that it is let through    *)
(* when every such effect is in an instant block on an instant block       *)
(* (effectcheck.rs, in_context_effects_allowed).                           *)
THEOREM RejectedForEffects == Spec => []EffectsReported
<1>1. Init => EffectInv
  BY DEF Init, EffectInv, BlocksNested, PlainReported, BlockKind
<1>2. EffectInv /\ [Next]_vars => EffectInv'
  <2> SUFFICES ASSUME EffectInv, [Next]_vars
               PROVE  BlocksNested' /\ PlainReported'
    BY DEF EffectInv
  <2> USE DEF EffectInv
  <2>1. CASE EnterBlock
    <3>1. PlainReported'
      BY <2>1 DEF EnterBlock, PlainReported
    <3> QED
      BY <2>1, <3>1, EnterKeepsNesting
  <2>2. CASE LeaveBlock
    <3>1. PlainReported'
      BY <2>2 DEF LeaveBlock, PlainReported
    <3> QED
      BY <2>2, <3>1, LeaveKeepsNesting
  <2>3. CASE MeetEffect
    <3>1. ~InContextEffectsAllowed(blocks) <=> InFunction /\ ~InstantInInstant
      BY TwoBlocksSuffice
    <3>2. PlainReported'
      BY <2>3, <3>1 DEF MeetEffect, PlainReported, Place
    <3>3. BlocksNested'
      BY <2>3 DEF MeetEffect, BlocksNested
    <3> QED
      BY <3>2, <3>3
  <2>4. CASE EndEffects
    <3>1. BlocksNested'
      BY <2>4 DEF EndEffects, BlocksNested
    <3>2. CASE effect_errs' = effect_errs /\ met' = met
      BY <3>1, <3>2 DEF PlainReported
    <3>3. CASE effect_errs' = FALSE /\ met' = {}
      BY <3>1, <3>3 DEF PlainReported
    <3> QED
      BY <2>4, <3>2, <3>3 DEF EndEffects
  <2>5. CASE EnterSubr \/ EnterVar \/ EnterLambda \/ Attribute \/ Leave \/ Use
    BY <2>5 DEF EnterSubr, EnterVar, EnterLambda, Attribute, Leave, Use, effects,
                BlocksNested, PlainReported
  <2>6. CASE EndOwnership
    BY <2>6 DEF EndOwnership, BlocksNested, PlainReported
  <2>7. CASE UNCHANGED vars
    BY <2>7 DEF vars, effects, BlocksNested, PlainReported
  <2> QED
    BY <2>1, <2>2, <2>3, <2>4, <2>5, <2>6, <2>7 DEF Next
<1>3. EffectInv => EffectsReported
  <2> SUFFICES ASSUME PlainReported PROVE EffectsReported
    BY DEF EffectInv
  <2>1. met = {"nested"} => "plain" \notin met
    OBVIOUS
  <2>2. met # {"nested"} => ("plain" \in met <=> met # {})
    BY DEF PlainReported
  <2> QED
    BY <2>1, <2>2 DEF PlainReported, EffectsReported
<1> QED
  BY <1>1, <1>2, <1>3, PTL DEF Spec

-----------------------------------------------------------------------------
(* Ownership. *)

LocalVarsType == [alive : SUBSET Names, dropped : SUBSET Names]
States == {"live", "pending", "moved", "unknown", "attribute"}
Bindings == UNION {[D -> States] : D \in SUBSET Names}

(* What the checker has noted of a scope, and what the scope binds, as far *)
(* as the names K are concerned: those it makes no mistake about.          *)
ScopeAgrees(K, noted, scope) ==
  /\ \A n \in noted.alive : n \in K => n \in DOMAIN scope
  /\ \A n \in noted.dropped : n \in K => n \in DOMAIN scope /\ scope[n] = "moved"
  /\ \A n \in DOMAIN scope :
       n \in K /\ scope[n] \in {"live", "pending"} => n \in noted.alive

(* What was moved was noted in its scope or in one around it, when a       *)
(* variable of the same name had been moved there.                         *)
MovesNoted(K, noted, scopes) ==
  \A i \in 1 .. Len(scopes) : \A n \in DOMAIN scopes[i] :
    n \in K /\ scopes[i][n] = "moved" => \E j \in 1 .. i : n \in noted[j].dropped

Agree(K, noted, scopes) ==
  /\ noted \in Seq(LocalVarsType)
  /\ scopes \in Seq(Bindings)
  /\ Len(noted) = Len(scopes)
  /\ Len(scopes) > 0
  /\ \A i \in 1 .. Len(scopes) : ScopeAgrees(K, noted[i], scopes[i])
  /\ MovesNoted(K, noted, scopes)

OwnerType == [scopes : Seq(LocalVarsType), errs : SUBSET Names, missing : SUBSET Names]

IsWith(new, old, name, state) ==
  /\ DOMAIN new = DOMAIN old \union {name}
  /\ \A n \in DOMAIN new : new[n] = IF n = name THEN state ELSE old[n]

LEMMA BindingsWith ==
  ASSUME NEW scope \in Bindings, NEW name \in Names,
         NEW state \in States
  PROVE  With(scope, name, state) \in Bindings /\ IsWith(With(scope, name, state), scope, name, state)
<1>1. PICK D \in SUBSET Names : scope \in [D -> States]
  BY DEF Bindings
<1>2. With(scope, name, state) \in
        [D \union {name} -> States]
  BY <1>1 DEF With
<1>3. D \union {name} \in SUBSET Names
  BY <1>1
<1>4. With(scope, name, state) \in Bindings
  BY <1>2, <1>3 DEF Bindings
<1>5. IsWith(With(scope, name, state), scope, name, state)
  BY DEF IsWith, With
<1> QED
  BY <1>4, <1>5

LEMMA BindingsAll ==
  ASSUME NEW D \in SUBSET Names, NEW state \in States
  PROVE  [n \in D |-> state] \in Bindings
BY DEF Bindings

LEMMA BindingsBound ==
  ASSUME NEW scope \in Bindings
  PROVE  Bound(scope) \in Bindings
<1>1. PICK D \in SUBSET Names : scope \in [D -> States]
  BY DEF Bindings
<1>2. Bound(scope) \in [D -> States]
  BY <1>1 DEF Bound, States
<1> QED
  BY <1>2 DEF Bindings

LEMMA OuterDropped ==
  ASSUME NEW K, NEW noted, NEW scopes, Agree(K, noted, scopes), NEW i \in 1 .. Len(scopes),
         NEW n \in DOMAIN scopes[i], n \in K, scopes[i][n] = "moved"
  PROVE  \E j \in 1 .. i : n \in noted[j].dropped
BY DEF Agree, MovesNoted

(* One scope is changed: entry and bindings.                               *)
LEMMA ChangeKeeps ==
  ASSUME NEW K, NEW noted, NEW scopes, Agree(K, noted, scopes), NEW h \in 1 .. Len(scopes),
         NEW entry \in LocalVarsType, NEW scope \in Bindings,
         ScopeAgrees(K, entry, scope),
         noted[h].dropped \subseteq entry.dropped,
         \A n \in DOMAIN scope : n \in K /\ scope[n] = "moved" =>
           \/ n \in DOMAIN scopes[h] /\ scopes[h][n] = "moved"
           \/ n \in entry.dropped
           \/ \E j \in 1 .. h : n \in noted[j].dropped
  PROVE  Agree(K, [noted EXCEPT ![h] = entry], [scopes EXCEPT ![h] = scope])
<1> DEFINE N == [noted EXCEPT ![h] = entry]
           S == [scopes EXCEPT ![h] = scope]
<1>1. /\ N \in Seq(LocalVarsType) /\ S \in Seq(Bindings)
      /\ Len(N) = Len(noted) /\ Len(S) = Len(scopes)
      /\ Len(N) = Len(S) /\ Len(S) \in Nat /\ Len(S) > 0
  BY DEF Agree
<1>2. ASSUME NEW i \in 1 .. Len(S)
      PROVE  /\ N[i] = IF i = h THEN entry ELSE noted[i]
             /\ S[i] = IF i = h THEN scope ELSE scopes[i]
  BY <1>1 DEF Agree
<1> HIDE DEF N, S
<1>3. ASSUME NEW i \in 1 .. Len(S) PROVE ScopeAgrees(K, N[i], S[i])
  BY <1>1, <1>2, <1>3 DEF Agree
<1>4. ASSUME NEW i \in 1 .. Len(S) PROVE noted[i].dropped \subseteq N[i].dropped
  BY <1>2, <1>4
<1>5. ASSUME NEW i \in 1 .. Len(S), NEW n \in DOMAIN S[i], n \in K, S[i][n] = "moved"
      PROVE  \E j \in 1 .. i : n \in N[j].dropped
  <2>1. i \in Nat /\ Len(S) \in Nat /\ i <= Len(S)
    BY <1>1
  <2>2. \A j \in 1 .. i : j \in 1 .. Len(S)
    BY <2>1
  <2>3. ASSUME \E j \in 1 .. i : n \in noted[j].dropped
        PROVE  \E j \in 1 .. i : n \in N[j].dropped
    BY <1>4, <2>2, <2>3
  <2>4. CASE i # h \/ (n \in DOMAIN scopes[h] /\ scopes[h][n] = "moved")
    <3>1. n \in DOMAIN scopes[i] /\ scopes[i][n] = "moved"
      BY <1>2, <1>5, <2>4
    <3> QED
      BY <1>1, <1>5, <2>3, <3>1, OuterDropped
  <2>5. CASE i = h /\ n \in entry.dropped
    BY <1>2, <2>1, <2>5
  <2>6. CASE i = h /\ \E j \in 1 .. h : n \in noted[j].dropped
    BY <2>3, <2>6
  <2> QED
    BY <1>2, <1>5, <2>4, <2>5, <2>6
<1>6. MovesNoted(K, N, S)
  BY <1>5 DEF MovesNoted
<1> QED
  BY <1>1, <1>3, <1>6 DEF Agree, N, S

(* A scope is entered in which nothing is moved.                           *)
LEMMA AppendKeeps ==
  ASSUME NEW K, NEW noted, NEW scopes, Agree(K, noted, scopes),
         NEW entry \in LocalVarsType, NEW scope \in Bindings,
         ScopeAgrees(K, entry, scope),
         \A n \in DOMAIN scope : scope[n] # "moved"
  PROVE  Agree(K, Append(noted, entry), Append(scopes, scope))
<1> DEFINE N == Append(noted, entry)
           S == Append(scopes, scope)
           d == Len(scopes)
<1>1. /\ N \in Seq(LocalVarsType) /\ S \in Seq(Bindings)
      /\ d \in Nat /\ Len(noted) = d /\ Len(N) = d + 1 /\ Len(S) = d + 1
  BY DEF Agree
<1>2. /\ \A i \in 1 .. d : N[i] = noted[i] /\ S[i] = scopes[i]
      /\ N[d + 1] = entry /\ S[d + 1] = scope
  BY DEF Agree
<1> HIDE DEF N, S, d
<1>3. \A i \in 1 .. d + 1 : i \in 1 .. d \/ i = d + 1
  BY <1>1
<1>4. ASSUME NEW i \in 1 .. d + 1 PROVE ScopeAgrees(K, N[i], S[i])
  BY <1>2, <1>3 DEF Agree, d
<1>5. ASSUME NEW i \in 1 .. d + 1, NEW n \in DOMAIN S[i], n \in K, S[i][n] = "moved"
      PROVE  \E j \in 1 .. i : n \in N[j].dropped
  <2>1. i \in 1 .. d /\ n \in DOMAIN scopes[i] /\ scopes[i][n] = "moved"
    BY <1>2, <1>3, <1>5
  <2>2. PICK j \in 1 .. i : n \in noted[j].dropped
    BY <1>5, <2>1, OuterDropped DEF d
  <2>3. j \in 1 .. d
    BY <1>1, <2>1
  <2> QED
    BY <1>2, <2>2, <2>3
<1>6. MovesNoted(K, N, S)
  BY <1>1, <1>5 DEF MovesNoted
<1> QED
  BY <1>1, <1>4, <1>6 DEF Agree, N, S

(* The innermost scope is left, and the variable around it defined.        *)
LEMMA LeaveKeeps ==
  ASSUME NEW K, NEW noted, NEW scopes, Agree(K, noted, scopes), Len(scopes) > 1
  PROVE  Agree(K, SubSeq(noted, 1, Len(noted) - 1), SubSeq(scopes, 1, Len(scopes) - 1))
<1> DEFINE d == Len(scopes) - 1
           N == SubSeq(noted, 1, d)
           S == SubSeq(scopes, 1, d)
<1>1. /\ N \in Seq(LocalVarsType) /\ S \in Seq(Bindings)
      /\ d \in Nat /\ d > 0 /\ Len(noted) - 1 = d /\ Len(N) = d /\ Len(S) = d
      /\ Len(scopes) = d + 1
  BY DEF Agree
<1>2. \A i \in 1 .. d : N[i] = noted[i] /\ S[i] = scopes[i]
  BY DEF Agree
<1> HIDE DEF N, S, d
<1>3. \A i \in 1 .. d : i \in 1 .. Len(scopes)
  BY <1>1
<1>4. ASSUME NEW i \in 1 .. d PROVE ScopeAgrees(K, N[i], S[i])
  BY <1>2, <1>3 DEF Agree
<1>5. ASSUME NEW i \in 1 .. d, NEW n \in DOMAIN S[i], n \in K, S[i][n] = "moved"
      PROVE  \E j \in 1 .. i : n \in N[j].dropped
  <2>1. n \in DOMAIN scopes[i] /\ scopes[i][n] = "moved"
    BY <1>2, <1>5
  <2>2. PICK j \in 1 .. i : n \in noted[j].dropped
    BY <1>3, <1>5, <2>1, OuterDropped
  <2>3. j \in 1 .. d
    BY <1>1, <2>2
  <2> QED
    BY <1>2, <2>2, <2>3
<1>6. MovesNoted(K, N, S)
  BY <1>1, <1>5 DEF MovesNoted
<1> QED
  BY <1>1, <1>4, <1>6 DEF Agree, N, S, d

-----------------------------------------------------------------------------
(* The operations of the checker on its record. *)

(* c is d but for its scopes.                                              *)
Rescoped(c, d, scopes) ==
  /\ c \in OwnerType
  /\ c.scopes = scopes
  /\ c.missing = d.missing

LEMMA ScopesReplaced ==
  ASSUME NEW c \in OwnerType, NEW scopes \in Seq(LocalVarsType)
  PROVE  Rescoped([c EXCEPT !.scopes = scopes], c, scopes)
<1> DEFINE d == [c EXCEPT !.scopes = scopes]
<1>1. d \in OwnerType
  BY DEF OwnerType
<1>2. d.scopes = scopes /\ d.missing = c.missing
  BY DEF OwnerType
<1> QED
  BY <1>1, <1>2 DEF Rescoped

LEMMA ScopeReplaced ==
  ASSUME NEW c \in OwnerType, NEW i \in 1 .. Len(c.scopes), NEW entry \in LocalVarsType
  PROVE  Rescoped([c EXCEPT !.scopes[i] = entry], c, [c.scopes EXCEPT ![i] = entry])
<1> DEFINE S == [c.scopes EXCEPT ![i] = entry]
<1>1. c.scopes \in Seq(LocalVarsType)
  BY DEF OwnerType
<1>2. S \in Seq(LocalVarsType)
  BY <1>1
<1>3. [c EXCEPT !.scopes[i] = entry] = [c EXCEPT !.scopes = S]
  OBVIOUS
<1> HIDE DEF S
<1>4. Rescoped([c EXCEPT !.scopes = S], c, S)
  BY <1>2, ScopesReplaced
<1>5. Rescoped([c EXCEPT !.scopes[i] = entry], c, S)
  BY <1>3, <1>4
<1> QED
  BY <1>5 DEF S

LEMMA LiveInType ==
  ASSUME NEW local \in LocalVarsType, NEW names \in SUBSET Names
  PROVE  /\ LiveIn(local, names) \in LocalVarsType
         /\ LiveIn(local, names).alive = local.alive \union names
         /\ LiveIn(local, names).dropped = local.dropped
BY DEF LocalVarsType, LiveIn

(* Names are defined in the innermost scope.                               *)
LEMMA NamesDefined ==
  ASSUME NEW K, NEW c \in OwnerType, NEW scopes, Agree(K, c.scopes, scopes), NEW names \in SUBSET Names,
         NEW scope \in Bindings,
         ScopeAgrees(K, LiveIn(c.scopes[Len(scopes)], names), scope),
         \A n \in DOMAIN scope : scope[n] = "moved" =>
           n \in DOMAIN scopes[Len(scopes)] /\ scopes[Len(scopes)][n] = "moved"
  PROVE  LET d == DefineParams(c, names)
         IN  /\ d \in OwnerType
             /\ d.missing = c.missing
             /\ Agree(K, d.scopes, [scopes EXCEPT ![Len(scopes)] = scope])
<1> DEFINE h == Len(scopes)
           entry == LiveIn(c.scopes[h], names)
           d == DefineParams(c, names)
<1>1. h \in 1 .. Len(scopes) /\ Len(c.scopes) = h /\ c.scopes \in Seq(LocalVarsType)
  BY DEF Agree
<1>2. c.scopes[h] \in LocalVarsType
  BY <1>1
<1>3. entry \in LocalVarsType /\ entry.dropped = c.scopes[h].dropped
  BY <1>2, LiveInType
<1>4. d = [c EXCEPT !.scopes[h] = entry]
  BY <1>1 DEF DefineParams
<1> HIDE DEF d, entry, h
<1>5. Rescoped(d, c, [c.scopes EXCEPT ![h] = entry])
  BY <1>1, <1>3, <1>4, ScopeReplaced
<1>6. Agree(K, [c.scopes EXCEPT ![h] = entry], [scopes EXCEPT ![h] = scope])
  BY <1>1, <1>3, ChangeKeeps DEF entry, h
<1>7. d \in OwnerType /\ d.missing = c.missing /\ Agree(K, d.scopes, [scopes EXCEPT ![h] = scope])
  BY <1>5, <1>6 DEF Rescoped
<1> QED
  BY <1>7 DEF d, h

LEMMA ScopeEntered ==
  ASSUME NEW c \in OwnerType
  PROVE  Rescoped(EnterScope(c), c, Append(c.scopes, LocalVars))
<1> DEFINE S == Append(c.scopes, LocalVars)
<1>1. c.scopes \in Seq(LocalVarsType) /\ LocalVars \in LocalVarsType
  BY DEF OwnerType, LocalVarsType, LocalVars
<1>2. S \in Seq(LocalVarsType)
  BY <1>1
<1>3. EnterScope(c) = [c EXCEPT !.scopes = S]
  BY DEF EnterScope
<1> HIDE DEF S
<1>4. Rescoped(EnterScope(c), c, S)
  BY <1>2, <1>3, ScopesReplaced
<1> QED
  BY <1>4 DEF S

LEMMA ScopeLeft ==
  ASSUME NEW c \in OwnerType, Len(c.scopes) > 1
  PROVE  Rescoped(LeaveScope(c), c, SubSeq(c.scopes, 1, Len(c.scopes) - 1))
<1> DEFINE S == SubSeq(c.scopes, 1, Len(c.scopes) - 1)
<1>1. c.scopes \in Seq(LocalVarsType)
  BY DEF OwnerType
<1>2. S \in Seq(LocalVarsType)
  BY <1>1
<1>3. LeaveScope(c) = [c EXCEPT !.scopes = S]
  BY DEF LeaveScope
<1> HIDE DEF S
<1>4. Rescoped(LeaveScope(c), c, S)
  BY <1>2, <1>3, ScopesReplaced
<1> QED
  BY <1>4 DEF S

-----------------------------------------------------------------------------
(* The steps of the ownership check. *)

OwnerAgrees(K, c, scopes) ==
  /\ c \in OwnerType
  /\ c.missing \cap K = {}
  /\ Agree(K, c.scopes, scopes)

OwnerInv ==
  /\ mistaken \subseteq Names
  /\ OwnerAgrees(Names \ mistaken, owner, env)

LEMMA NameBound ==
  ASSUME NEW K, OwnerAgrees(K, owner, env), NEW name \in Names \ DOMAIN env[Depth],
         NEW state \in {"live", "pending"}
  PROVE  OwnerAgrees(K, Define(owner, name), Bind(name, state))
<1> DEFINE h == Len(env)
           old == env[h]
           noted == owner.scopes[h]
           scope == With(old, name, state)
           entry == LiveIn(noted, {name})
<1>1. h \in 1 .. h /\ old \in Bindings /\ noted \in LocalVarsType /\ ScopeAgrees(K, noted, old)
  BY DEF OwnerAgrees, Agree
<1>2. {name} \in SUBSET Names /\ name \notin DOMAIN old
  BY DEF Depth
<1>3. Define(owner, name) = DefineParams(owner, {name})
  BY DEF Define, DefineParams
<1>4. Bind(name, state) = [env EXCEPT ![h] = scope]
  BY DEF Bind, Depth
<1> HIDE DEF old, noted
<1>5. scope \in Bindings /\ IsWith(scope, old, name, state)
  <2>1. state \in States /\ name \in Names
    BY DEF States
  <2> QED
    BY <1>1, <2>1, BindingsWith
<1>6. entry.alive = noted.alive \union {name} /\ entry.dropped = noted.dropped
  BY <1>1, <1>2, LiveInType
<1> HIDE DEF scope, entry
<1>7. ScopeAgrees(K, entry, scope)
  BY <1>1, <1>2, <1>5, <1>6 DEF ScopeAgrees, IsWith
<1>8. \A n \in DOMAIN scope : scope[n] = "moved" => n \in DOMAIN old /\ old[n] = "moved"
  BY <1>5 DEF IsWith
<1>9. /\ DefineParams(owner, {name}) \in OwnerType
      /\ DefineParams(owner, {name}).missing = owner.missing
      /\ Agree(K, DefineParams(owner, {name}).scopes, [env EXCEPT ![h] = scope])
  BY <1>2, <1>5, <1>7, <1>8, NamesDefined DEF OwnerAgrees, entry, noted, old, h
<1> QED
  BY <1>3, <1>4, <1>9 DEF OwnerAgrees

(* An attribute is bound, and not defined.                                 *)
LEMMA AttributeBound ==
  ASSUME NEW K, OwnerAgrees(K, owner, env), NEW name \in Names \ DOMAIN env[Depth]
  PROVE  OwnerAgrees(K, owner, Bind(name, "attribute"))
<1> DEFINE h == Len(env)
           old == env[h]
           noted == owner.scopes[h]
           scope == With(old, name, "attribute")
<1>1. /\ h \in 1 .. h /\ old \in Bindings /\ noted \in LocalVarsType /\ ScopeAgrees(K, noted, old)
      /\ [owner.scopes EXCEPT ![h] = noted] = owner.scopes
  BY DEF OwnerAgrees, Agree
<1>2. name \notin DOMAIN old
  BY DEF Depth
<1>3. Bind(name, "attribute") = [env EXCEPT ![h] = scope]
  BY DEF Bind, Depth
<1>4. Agree(K, owner.scopes, env)
  BY DEF OwnerAgrees
<1> HIDE DEF old, noted
<1>5. scope \in Bindings /\ IsWith(scope, old, name, "attribute")
  BY <1>1, BindingsWith DEF States
<1> HIDE DEF scope
<1>6. ScopeAgrees(K, noted, scope)
  BY <1>1, <1>2, <1>5 DEF ScopeAgrees, IsWith
<1>7. \A n \in DOMAIN scope : scope[n] = "moved" => n \in DOMAIN old /\ old[n] = "moved"
  BY <1>5 DEF IsWith
<1>8. Agree(K, [owner.scopes EXCEPT ![h] = noted], [env EXCEPT ![h] = scope])
  BY <1>1, <1>4, <1>5, <1>6, <1>7, ChangeKeeps DEF old, noted, h
<1> QED
  BY <1>1, <1>3, <1>8 DEF OwnerAgrees

LEMMA ScopePushed ==
  ASSUME NEW K, NEW c, NEW scopes, OwnerAgrees(K, c, scopes), NEW scope \in Bindings,
         \A n \in DOMAIN scope : scope[n] = "unknown"
  PROVE  OwnerAgrees(K, EnterScope(c), Append(scopes, scope))
<1>1. Rescoped(EnterScope(c), c, Append(c.scopes, LocalVars))
  BY ScopeEntered DEF OwnerAgrees
<1>2. LocalVars \in LocalVarsType /\ ScopeAgrees(K, LocalVars, scope)
  BY DEF LocalVars, LocalVarsType, ScopeAgrees
<1>3. Agree(K, Append(c.scopes, LocalVars), Append(scopes, scope))
  BY <1>2, AppendKeeps DEF OwnerAgrees
<1> QED
  BY <1>1, <1>3 DEF OwnerAgrees, Rescoped

LEMMA LastReplaced ==
  ASSUME NEW T, NEW s \in Seq(T), NEW a \in T, NEW b \in T
  PROVE  /\ Len(Append(s, a)) = Len(s) + 1 /\ Append(s, a)[Len(s) + 1] = a
         /\ [Append(s, a) EXCEPT ![Len(s) + 1] = b] = Append(s, b)
<1> DEFINE L == [Append(s, a) EXCEPT ![Len(s) + 1] = b]
           R == Append(s, b)
<1>1. L \in Seq(T) /\ R \in Seq(T) /\ Len(L) = Len(s) + 1 /\ Len(R) = Len(s) + 1
  OBVIOUS
<1>2. ASSUME NEW i \in 1 .. Len(L) PROVE L[i] = R[i]
  <2>1. Len(s) \in Nat /\ i \in 1 .. Len(s) + 1
    BY <1>1
  <2>2. CASE i = Len(s) + 1
    <3>1. Append(s, a) \in Seq(T) /\ Len(Append(s, a)) = Len(s) + 1
      OBVIOUS
    <3>2. L[i] = b
      BY <2>1, <2>2, <3>1
    <3>3. R[i] = b
      BY <2>2
    <3> QED
      BY <3>2, <3>3
  <2>3. CASE i \in 1 .. Len(s)
    <3>1. Append(s, a) \in Seq(T) /\ i \in 1 .. Len(Append(s, a)) /\ i # Len(s) + 1
      BY <2>1, <2>3
    <3>2. L[i] = Append(s, a)[i]
      <4> DEFINE t == Append(s, a)
                 k == Len(s) + 1
      <4>1. t \in Seq(T) /\ i \in 1 .. Len(t) /\ i # k
        BY <3>1
      <4> HIDE DEF t, k
      <4>2. [t EXCEPT ![k] = b][i] = t[i]
        BY <4>1
      <4> QED
        BY <4>2 DEF t, k
    <3>3. Append(s, a)[i] = s[i] /\ R[i] = s[i]
      BY <2>3, AppendProperties
    <3> QED
      BY <3>2, <3>3
  <2> QED
    BY <2>1, <2>2, <2>3
<1>3. L = R
  <2> HIDE DEF L, R
  <2> QED
    BY <1>1, <1>2, SeqEqual
<1> QED
  BY <1>3

LEMMA ParamsPushed ==
  ASSUME NEW K, NEW c, NEW scopes, OwnerAgrees(K, c, scopes), NEW params \in SUBSET Names
  PROVE  OwnerAgrees(K, DefineParams(EnterScope(c), params), Append(scopes, Fresh(params)))
<1> DEFINE empty == [n \in {} |-> "live"]
           entered == Append(scopes, empty)
           fresh == Fresh(params)
           h == Len(scopes) + 1
           noted == EnterScope(c).scopes[h]
<1>1. empty \in Bindings /\ fresh \in Bindings
  BY BindingsAll DEF Fresh, States
<1>2. OwnerAgrees(K, EnterScope(c), entered)
  BY <1>1, ScopePushed
<1>3. /\ Len(entered) = h /\ h \in 1 .. h /\ entered[h] = empty
      /\ [entered EXCEPT ![h] = fresh] = Append(scopes, fresh)
  <2>1. scopes \in Seq(Bindings) /\ Len(scopes) \in Nat
    BY DEF OwnerAgrees, Agree
  <2>2. \A a, b \in Bindings :
          /\ Len(Append(scopes, a)) = h /\ Append(scopes, a)[h] = a
          /\ [Append(scopes, a) EXCEPT ![h] = b] = Append(scopes, b)
    BY <2>1, LastReplaced
  <2>3. h \in 1 .. h
    BY <2>1
  <2> HIDE DEF empty, fresh
  <2> QED
    BY <1>1, <2>2, <2>3
<1>4. noted \in LocalVarsType /\ noted = LocalVars
  <2>1. /\ c.scopes \in Seq(LocalVarsType) /\ Len(c.scopes) + 1 = h
        /\ LocalVars \in LocalVarsType /\ EnterScope(c).scopes = Append(c.scopes, LocalVars)
    BY ScopeEntered DEF OwnerAgrees, Agree, Rescoped, LocalVars, LocalVarsType
  <2> QED
    BY <2>1, LastReplaced
<1> HIDE DEF noted, h, entered
<1>5. LiveIn(noted, params).alive = noted.alive \union params
      /\ LiveIn(noted, params).dropped = noted.dropped
  BY <1>4, LiveInType
<1>6. noted.alive = {} /\ noted.dropped = {}
  BY <1>4 DEF LocalVars
<1>7. ScopeAgrees(K, LiveIn(noted, params), fresh)
  BY <1>5, <1>6 DEF ScopeAgrees, Fresh
<1>8. \A n \in DOMAIN fresh : fresh[n] # "moved"
  BY DEF Fresh
<1> DEFINE d == DefineParams(EnterScope(c), params)
<1> HIDE DEF fresh
<1>9. /\ d \in OwnerType
      /\ d.missing = EnterScope(c).missing
      /\ Agree(K, d.scopes, [entered EXCEPT ![Len(entered)] = fresh])
  BY <1>1, <1>2, <1>3, <1>7, <1>8, NamesDefined DEF OwnerAgrees, noted
<1> QED
  BY <1>2, <1>3, <1>9 DEF OwnerAgrees, fresh

LEMMA ScopePopped ==
  ASSUME NEW K, OwnerAgrees(K, owner, env), Len(env) > 1
  PROVE  OwnerAgrees(K, LeaveScope(owner),
                     [SubSeq(env, 1, Depth - 1) EXCEPT ![Depth - 1] = Bound(@)])
<1> DEFINE d == Len(env) - 1
           N == SubSeq(owner.scopes, 1, Len(owner.scopes) - 1)
           S == SubSeq(env, 1, d)
           scope == Bound(S[d])
<1>1. Rescoped(LeaveScope(owner), owner, N)
  BY ScopeLeft DEF OwnerAgrees, Agree
<1>2. Agree(K, N, S)
  BY LeaveKeeps DEF OwnerAgrees
<1>3. d \in Nat /\ d > 0 /\ Len(S) = d
  BY DEF OwnerAgrees, Agree
<1>4. [SubSeq(env, 1, Depth - 1) EXCEPT ![Depth - 1] = Bound(@)] = [S EXCEPT ![d] = scope]
  BY DEF Depth
<1> HIDE DEF N, S, d
<1>5. d \in 1 .. Len(S) /\ S[d] \in Bindings /\ N[d] \in LocalVarsType /\ ScopeAgrees(K, N[d], S[d])
  BY <1>2, <1>3 DEF Agree
<1>6. scope \in Bindings
  BY <1>5, BindingsBound
<1>7. /\ DOMAIN scope = DOMAIN S[d]
      /\ \A n \in DOMAIN S[d] : scope[n] = IF S[d][n] = "pending" THEN "live" ELSE S[d][n]
  BY DEF Bound
<1> HIDE DEF scope
<1>8. ScopeAgrees(K, N[d], scope)
  BY <1>5, <1>7 DEF ScopeAgrees
<1>9. \A n \in DOMAIN scope : scope[n] = "moved" => n \in DOMAIN S[d] /\ S[d][n] = "moved"
  BY <1>7
<1>10. Agree(K, [N EXCEPT ![d] = N[d]], [S EXCEPT ![d] = scope])
  BY <1>2, <1>5, <1>6, <1>8, <1>9, ChangeKeeps
<1>11. [N EXCEPT ![d] = N[d]] = N
  BY <1>2 DEF Agree
<1> QED
  BY <1>1, <1>4, <1>10, <1>11 DEF OwnerAgrees, Rescoped

(* Where the innermost variable of a name is.                              *)
LEMMA HomeIsVisible ==
  ASSUME NEW K, OwnerAgrees(K, owner, env), NEW name \in Names, Visible(name) # {}
  PROVE  /\ Home(name) \in 1 .. Len(env)
         /\ name \in DOMAIN env[Home(name)] /\ State(name) # "pending"
         /\ \A i \in Visible(name) : i <= Home(name)
<1>1. Len(env) \in Nat /\ Visible(name) \subseteq 1 .. Len(env)
  BY DEF OwnerAgrees, Agree, Visible, Depth
<1>2. Home(name) \in Visible(name) /\ \A i \in Visible(name) : i <= Home(name)
  BY <1>1, MaxIsGreatest DEF Home
<1> QED
  BY <1>1, <1>2 DEF Visible, State

(* A variable that is live is the one the checker finds, if it makes no    *)
(* mistake.                                                                *)
LEMMA LiveIsFound ==
  ASSUME NEW K, OwnerAgrees(K, owner, env), NEW name \in Names, name \in K,
         Visible(name) # {}, State(name) = "live", ~Mistakes(name)
  PROVE  Alive(owner, name) # {} /\ Max(Alive(owner, name)) = Home(name)
<1> DEFINE h == Home(name)
<1>1. /\ h \in 1 .. Len(env) /\ name \in DOMAIN env[h]
      /\ \A i \in Visible(name) : i <= h
  BY HomeIsVisible
<1>2. /\ Len(env) \in Nat /\ Len(owner.scopes) = Len(env)
      /\ \A i \in 1 .. Len(env) : ScopeAgrees(K, owner.scopes[i], env[i])
  BY DEF OwnerAgrees, Agree
<1> HIDE DEF h
<1>3. env[h][name] = "live"
  BY DEF State, h
<1>4. name \in owner.scopes[h].alive
  BY <1>1, <1>2, <1>3 DEF ScopeAgrees
<1>5. h \in Alive(owner, name)
  BY <1>1, <1>2, <1>4 DEF Alive
<1>6. Alive(owner, name) \subseteq 1 .. Len(env)
  BY <1>2 DEF Alive
<1>7. ASSUME NEW i \in Alive(owner, name) PROVE i <= h
  <2>1. i \in 1 .. Len(env) /\ name \in owner.scopes[i].alive
    BY <1>2 DEF Alive
  <2>2. name \in DOMAIN env[i]
    BY <1>2, <2>1 DEF ScopeAgrees
  <2>3. i \notin h + 1 .. Len(env)
    BY <2>2 DEF Mistakes, Depth, h
  <2> QED
    BY <1>1, <1>2, <2>1, <2>3
<1>8. Max(Alive(owner, name)) = h
  BY <1>2, <1>5, <1>6, <1>7, GreatestIsMax
<1> QED
  BY <1>5, <1>8 DEF h

(* What was noted as moved is moved, and the other way round.              *)
LEMMA DroppedIsMoved ==
  ASSUME NEW K, OwnerAgrees(K, owner, env), NEW name \in Names, name \in K
  PROVE  IsDropped(owner, name) <=> \E i \in Visible(name) : env[i][name] = "moved"
<1>1. /\ Len(env) \in Nat /\ Len(owner.scopes) = Len(env)
      /\ \A i \in 1 .. Len(env) : ScopeAgrees(K, owner.scopes[i], env[i])
  BY DEF OwnerAgrees, Agree
<1>2. ASSUME IsDropped(owner, name)
      PROVE  \E i \in Visible(name) : env[i][name] = "moved"
  <2>1. PICK i \in 1 .. Len(env) : name \in owner.scopes[i].dropped
    BY <1>1, <1>2 DEF IsDropped
  <2>2. name \in DOMAIN env[i] /\ env[i][name] = "moved"
    BY <1>1, <2>1 DEF ScopeAgrees
  <2> QED
    BY <2>1, <2>2 DEF Visible, Depth
<1>3. ASSUME NEW i \in Visible(name), env[i][name] = "moved"
      PROVE  IsDropped(owner, name)
  <2>1. i \in 1 .. Len(env) /\ name \in DOMAIN env[i]
    BY DEF Visible, Depth
  <2>2. PICK j \in 1 .. i : name \in owner.scopes[j].dropped
    BY <1>3, <2>1, OuterDropped DEF OwnerAgrees
  <2>3. j \in 1 .. Len(owner.scopes)
    BY <1>1, <2>1
  <2> QED
    BY <2>2, <2>3 DEF IsDropped
<1> QED
  BY <1>2, <1>3

(* The binding a use leaves where the variable is.                         *)
Moved(name) == With(env[Home(name)], name, "moved")

LEMMA MovedIsWith ==
  ASSUME NEW K, OwnerAgrees(K, owner, env), NEW name \in Names, Visible(name) # {}
  PROVE  [env EXCEPT ![Home(name)][name] = "moved"] = [env EXCEPT ![Home(name)] = Moved(name)]
<1> DEFINE h == Home(name)
<1>1. h \in 1 .. Len(env) /\ name \in DOMAIN env[h] /\ env[h] \in Bindings
  BY HomeIsVisible DEF OwnerAgrees, Agree
<1> HIDE DEF h
<1>2. PICK D \in SUBSET Names : env[h] \in [D -> States]
  BY <1>1 DEF Bindings
<1>3. [env[h] EXCEPT ![name] = "moved"] = With(env[h], name, "moved")
  BY <1>1, <1>2 DEF With
<1>4. [env EXCEPT ![h][name] = "moved"] = [env EXCEPT ![h] = [env[h] EXCEPT ![name] = "moved"]]
  OBVIOUS
<1> QED
  BY <1>3, <1>4 DEF h, Moved

LEMMA MoveAgrees ==
  ASSUME NEW K, OwnerAgrees(K, owner, env), NEW name \in Names, name \in K, Visible(name) # {},
         NEW entry \in LocalVarsType,
         entry.alive \subseteq owner.scopes[Home(name)].alive,
         owner.scopes[Home(name)].alive \subseteq entry.alive \union {name},
         owner.scopes[Home(name)].dropped \subseteq entry.dropped,
         entry.dropped \subseteq owner.scopes[Home(name)].dropped \union {name},
         name \in entry.dropped \/ IsDropped(owner, name)
  PROVE  Agree(K, [owner.scopes EXCEPT ![Home(name)] = entry], [env EXCEPT ![Home(name)] = Moved(name)])
<1> DEFINE h == Home(name)
           old == env[h]
           noted == owner.scopes[h]
           scope == Moved(name)
<1>1. /\ h \in 1 .. Len(env) /\ name \in DOMAIN old /\ \A i \in Visible(name) : i <= h
  BY HomeIsVisible
<1>2. /\ Len(env) \in Nat /\ Len(owner.scopes) = Len(env)
      /\ \A i \in 1 .. Len(env) : ScopeAgrees(K, owner.scopes[i], env[i])
      /\ env \in Seq(Bindings) /\ Agree(K, owner.scopes, env)
  BY DEF OwnerAgrees, Agree
<1>3. old \in Bindings /\ ScopeAgrees(K, noted, old)
  BY <1>1, <1>2
<1>4. scope \in Bindings /\ IsWith(scope, old, name, "moved")
  BY <1>3, BindingsWith DEF Moved, States
<1>5. /\ entry.alive \subseteq noted.alive /\ noted.alive \subseteq entry.alive \union {name}
      /\ noted.dropped \subseteq entry.dropped /\ entry.dropped \subseteq noted.dropped \union {name}
  OBVIOUS
<1> HIDE DEF h, old, noted, scope
<1>6. ScopeAgrees(K, entry, scope)
  BY <1>1, <1>3, <1>4, <1>5 DEF ScopeAgrees, IsWith
<1>7. ASSUME NEW n \in DOMAIN scope, scope[n] = "moved"
      PROVE  \/ n \in DOMAIN old /\ old[n] = "moved"
             \/ n \in entry.dropped
             \/ \E j \in 1 .. h : n \in owner.scopes[j].dropped
  <2>1. CASE n # name
    BY <1>4, <1>7, <2>1 DEF IsWith
  <2>2. CASE n = name /\ IsDropped(owner, name)
    <3>1. PICK j \in 1 .. Len(env) : name \in owner.scopes[j].dropped
      BY <1>2, <2>2 DEF IsDropped
    <3>2. j \in Visible(name)
      BY <1>2, <3>1 DEF ScopeAgrees, Visible, Depth
    <3>3. j \in 1 .. h
      BY <1>1, <1>2, <3>1, <3>2
    <3> QED
      BY <2>2, <3>1, <3>3
  <2> QED
    BY <2>1, <2>2
<1>8. Agree(K, [owner.scopes EXCEPT ![h] = entry], [env EXCEPT ![h] = scope])
  BY <1>1, <1>2, <1>4, <1>5, <1>6, <1>7, ChangeKeeps DEF old, noted
<1> QED
  BY <1>8 DEF h, scope

(* What is noted of one name is lost, and what its bindings are.           *)
SameBut(a, b, name) == \A n : n # name => (n \in a <=> n \in b)

LEMMA MistakeAgrees ==
  ASSUME NEW K, NEW L \in SUBSET K, NEW noted, NEW scopes, Agree(K, noted, scopes), NEW name,
         name \notin L,
         NEW N \in Seq(LocalVarsType), NEW S \in Seq(Bindings),
         Len(N) = Len(noted), Len(S) = Len(scopes),
         \A i \in 1 .. Len(scopes) :
           /\ SameBut(N[i].alive, noted[i].alive, name)
           /\ SameBut(N[i].dropped, noted[i].dropped, name)
           /\ DOMAIN S[i] = DOMAIN scopes[i]
           /\ \A n \in DOMAIN S[i] : n # name => S[i][n] = scopes[i][n]
  PROVE  Agree(L, N, S)
<1>1. Len(scopes) \in Nat /\ Len(scopes) > 0 /\ Len(N) = Len(S)
  BY DEF Agree
<1>2. \A n \in L : n \in K /\ n # name
  OBVIOUS
<1>3. ASSUME NEW i \in 1 .. Len(scopes) PROVE ScopeAgrees(L, N[i], S[i])
  BY <1>2 DEF Agree, ScopeAgrees, SameBut
<1>4. ASSUME NEW i \in 1 .. Len(S), NEW n \in DOMAIN S[i], n \in L, S[i][n] = "moved"
      PROVE  \E j \in 1 .. i : n \in N[j].dropped
  <2>1. i \in 1 .. Len(scopes) /\ n \in DOMAIN scopes[i] /\ scopes[i][n] = "moved"
    BY <1>2, <1>4
  <2>2. PICK j \in 1 .. i : n \in noted[j].dropped
    BY <1>2, <1>4, <2>1, OuterDropped
  <2>3. j \in 1 .. Len(scopes)
    BY <1>1, <2>1
  <2> QED
    BY <1>2, <1>4, <2>2, <2>3 DEF SameBut
<1>5. MovesNoted(L, N, S)
  BY <1>4 DEF MovesNoted
<1> QED
  BY <1>1, <1>3, <1>5 DEF Agree

(* The checker looks for a variable of a name it is mistaken about.        *)
LEMMA MistakenDrop ==
  ASSUME NEW K, NEW L \in SUBSET K, OwnerAgrees(K, owner, env), NEW name \in Names,
         name \notin L, NEW place, NEW isMut, NEW S \in Seq(Bindings), Len(S) = Len(env),
         \A i \in 1 .. Len(env) :
           /\ DOMAIN S[i] = DOMAIN env[i]
           /\ \A n \in DOMAIN S[i] : n # name => S[i][n] = env[i][n]
  PROVE  OwnerAgrees(L, CheckAcc(owner, name, place, isMut), S)
<1> DEFINE c == CheckAcc(owner, name, place, isMut)
           noted == owner.scopes
<1> SUFFICES OwnerAgrees(L, c, S)
  OBVIOUS
<1>1. /\ owner \in OwnerType /\ owner.missing \cap K = {} /\ Agree(K, noted, env)
      /\ noted \in Seq(LocalVarsType) /\ Len(noted) = Len(env)
  BY DEF OwnerAgrees, Agree
<1>2. ASSUME c \in OwnerType, c.missing \subseteq owner.missing \union {name},
             c.scopes \in Seq(LocalVarsType), Len(c.scopes) = Len(env),
             \A i \in 1 .. Len(env) : /\ SameBut(c.scopes[i].alive, noted[i].alive, name)
                                      /\ SameBut(c.scopes[i].dropped, noted[i].dropped, name)
      PROVE  OwnerAgrees(L, c, S)
  <2>1. c.missing \cap L = {}
    BY <1>1, <1>2
  <2> HIDE DEF c, noted
  <2>2. Agree(L, c.scopes, S)
    BY <1>1, <1>2, MistakeAgrees
  <2> QED
    BY <1>2, <2>1, <2>2 DEF OwnerAgrees
<1>3. CASE IsDropped(owner, name)
  <2>1. c = [owner EXCEPT !.errs = owner.errs \union {name}]
    BY <1>3 DEF CheckAcc
  <2>2. c \in OwnerType /\ c.missing = owner.missing /\ c.scopes = noted
    BY <1>1, <2>1 DEF OwnerType
  <2> HIDE DEF c, noted
  <2> QED
    BY <1>1, <1>2, <2>2 DEF SameBut
<1>4. CASE ~IsDropped(owner, name) /\ ~Moves(place, isMut)
  <2>1. c = owner
    BY <1>4 DEF CheckAcc
  <2> QED
    BY <1>1, <1>2, <2>1 DEF SameBut
<1>5. CASE ~IsDropped(owner, name) /\ Moves(place, isMut) /\ Alive(owner, name) = {}
  <2>1. c = [owner EXCEPT !.missing = owner.missing \union {name}]
    BY <1>5 DEF CheckAcc, Drop
  <2>2. c \in OwnerType /\ c.missing = owner.missing \union {name} /\ c.scopes = noted
    BY <1>1, <2>1 DEF OwnerType
  <2> HIDE DEF c, noted
  <2> QED
    BY <1>1, <1>2, <2>2 DEF SameBut
<1>6. CASE ~IsDropped(owner, name) /\ Moves(place, isMut) /\ Alive(owner, name) # {}
  <2> DEFINE m == Max(Alive(owner, name))
             entry == [alive |-> noted[m].alive \ {name}, dropped |-> noted[m].dropped \union {name}]
  <2>1. Alive(owner, name) \subseteq 1 .. Len(noted) /\ Len(noted) \in Nat
    BY <1>1 DEF Alive
  <2>2. m \in 1 .. Len(noted)
    BY <1>6, <2>1, MaxIsGreatest
  <2>3. c = [owner EXCEPT !.scopes[m] = entry]
    BY <1>6 DEF CheckAcc, Drop
  <2> HIDE DEF m
  <2>4. noted[m] \in LocalVarsType
    BY <1>1, <2>2
  <2>5. /\ entry \in LocalVarsType
        /\ entry.alive = noted[m].alive \ {name} /\ entry.dropped = noted[m].dropped \union {name}
    BY <2>4 DEF LocalVarsType
  <2> HIDE DEF entry
  <2>6. Rescoped(c, owner, [noted EXCEPT ![m] = entry])
    BY <1>1, <2>2, <2>3, <2>5, ScopeReplaced
  <2>7. /\ c.scopes \in Seq(LocalVarsType) /\ Len(c.scopes) = Len(env)
        /\ \A i \in 1 .. Len(env) : c.scopes[i] = IF i = m THEN entry ELSE noted[i]
    BY <1>1, <2>2, <2>5, <2>6 DEF Rescoped
  <2>8. \A i \in 1 .. Len(env) : /\ SameBut(c.scopes[i].alive, noted[i].alive, name)
                                 /\ SameBut(c.scopes[i].dropped, noted[i].dropped, name)
    BY <2>5, <2>7 DEF SameBut
  <2> HIDE DEF c, noted
  <2> QED
    BY <1>2, <2>6, <2>7, <2>8 DEF Rescoped
<1> QED
  BY <1>3, <1>4, <1>5, <1>6

(* A variable is used whose name the checker makes no mistake about.       *)
LEMMA UseKnown ==
  ASSUME NEW K, OwnerAgrees(K, owner, env), NEW name \in Names, name \in K,
         NEW place \in Places, NEW isMut \in BOOLEAN, Visible(name) # {},
         owner' = CheckAcc(owner, name, place, isMut),
         env' = IF Moves(place, isMut) /\ State(name) = "live"
                THEN [env EXCEPT ![Home(name)][name] = "moved"] ELSE env,
         Moves(place, isMut) /\ ~IsDropped(owner, name) => ~Mistakes(name)
  PROVE  OwnerAgrees(K, owner', env')
<1> DEFINE h == Home(name)
           noted == owner.scopes[h]
<1>1. /\ owner \in OwnerType /\ owner.missing \cap K = {} /\ owner.scopes \in Seq(LocalVarsType)
      /\ h \in 1 .. Len(owner.scopes) /\ noted \in LocalVarsType
      /\ [owner.scopes EXCEPT ![h] = noted] = owner.scopes
  <2>1. owner.scopes \in Seq(LocalVarsType) /\ h \in 1 .. Len(owner.scopes)
    BY HomeIsVisible DEF OwnerAgrees, Agree
  <2>2. noted \in LocalVarsType
    BY <2>1
  <2> QED
    BY <2>1, <2>2 DEF OwnerAgrees
<1>2. [env EXCEPT ![h][name] = "moved"] = [env EXCEPT ![h] = Moved(name)]
  BY MovedIsWith
<1>3. CASE IsDropped(owner, name)
  <2>1. owner' = [owner EXCEPT !.errs = owner.errs \union {name}]
    BY <1>3 DEF CheckAcc
  <2>2. owner' \in OwnerType /\ owner'.missing = owner.missing /\ owner'.scopes = owner.scopes
    BY <1>1, <2>1 DEF OwnerType
  <2>3. CASE env' = env
    BY <2>2, <2>3 DEF OwnerAgrees
  <2>4. CASE env' = [env EXCEPT ![h] = Moved(name)]
    <3>1. Agree(K, [owner.scopes EXCEPT ![h] = noted], [env EXCEPT ![h] = Moved(name)])
      BY <1>1, <1>3, MoveAgrees
    <3> HIDE DEF noted
    <3> QED
      BY <1>1, <2>2, <2>4, <3>1 DEF OwnerAgrees
  <2> QED
    BY <1>2, <2>3, <2>4
<1>4. CASE ~IsDropped(owner, name) /\ ~Moves(place, isMut)
  BY <1>4 DEF CheckAcc
<1>5. CASE ~IsDropped(owner, name) /\ Moves(place, isMut)
  <2>1. State(name) = "live"
    <3>1. h \in Visible(name) /\ State(name) # "pending"
      BY HomeIsVisible DEF Visible, Depth, State
    <3>2. State(name) # "moved"
      BY <1>5, <3>1, DroppedIsMoved DEF State
    <3>3. env[h] \in Bindings /\ name \in DOMAIN env[h]
      BY HomeIsVisible DEF OwnerAgrees, Agree
    <3>4. State(name) \in States
      BY <3>3 DEF State, Bindings
    <3> QED
      BY <1>5, <3>1, <3>2, <3>4 DEF States, Mistakes
  <2>2. Alive(owner, name) # {} /\ Max(Alive(owner, name)) = h
    BY <1>5, <2>1, LiveIsFound
  <2> DEFINE entry == [alive |-> noted.alive \ {name}, dropped |-> noted.dropped \union {name}]
  <2>3. owner' = [owner EXCEPT !.scopes[h] = entry]
    BY <1>5, <2>2 DEF CheckAcc, Drop
  <2>4. /\ entry \in LocalVarsType
        /\ entry.alive = noted.alive \ {name} /\ entry.dropped = noted.dropped \union {name}
    BY <1>1 DEF LocalVarsType
  <2>5. env' = [env EXCEPT ![h] = Moved(name)]
    BY <1>2, <1>5, <2>1
  <2> HIDE DEF entry
  <2>6. Agree(K, [owner.scopes EXCEPT ![h] = entry], [env EXCEPT ![h] = Moved(name)])
    BY <2>4, MoveAgrees
  <2>7. Rescoped(owner', owner, [owner.scopes EXCEPT ![h] = entry])
    BY <1>1, <2>3, <2>4, ScopeReplaced
  <2> QED
    BY <1>1, <2>5, <2>6, <2>7 DEF OwnerAgrees, Rescoped
<1> QED
  BY <1>3, <1>4, <1>5

LEMMA UseAgrees ==
  ASSUME OwnerInv, Use
  PROVE  OwnerInv'
<1> DEFINE K == Names \ mistaken
           L == Names \ mistaken'
<1>1. PICK name \in Names, place \in Places, isMut \in BOOLEAN :
        /\ Visible(name) # {}
        /\ owner' = CheckAcc(owner, name, place, isMut)
        /\ env' = IF Moves(place, isMut) /\ State(name) = "live"
                  THEN [env EXCEPT ![Home(name)][name] = "moved"] ELSE env
        /\ mistaken' = IF Moves(place, isMut) /\ ~IsDropped(owner, name) /\ Mistakes(name)
                       THEN mistaken \union {name} ELSE mistaken
  BY DEF Use
<1>2. OwnerAgrees(K, owner, env) /\ mistaken \subseteq Names
  BY DEF OwnerInv
<1>3. mistaken' \subseteq Names /\ L \in SUBSET K
  BY <1>1, <1>2
<1>4. CASE name \in L
  <2>1. mistaken' = mistaken /\ name \in K
    BY <1>1, <1>4
  <2>2. Moves(place, isMut) /\ ~IsDropped(owner, name) => ~Mistakes(name)
    BY <1>1, <1>4
  <2> HIDE DEF K
  <2>3. OwnerAgrees(K, owner', env')
    BY <1>1, <1>2, <2>1, <2>2, UseKnown
  <2> QED
    BY <1>3, <2>1, <2>3 DEF OwnerInv, K
<1>5. CASE name \notin L
  <2> DEFINE h == Home(name)
  <2>1. env \in Seq(Bindings) /\ h \in 1 .. Len(env)
    BY <1>1, <1>2, HomeIsVisible DEF OwnerAgrees, Agree
  <2>2. [env EXCEPT ![h][name] = "moved"] = [env EXCEPT ![h] = Moved(name)]
    BY <1>1, <1>2, MovedIsWith
  <2>3. Moved(name) \in Bindings /\ IsWith(Moved(name), env[h], name, "moved")
    BY <2>1, BindingsWith DEF Moved, States
  <2>4. name \in DOMAIN env[h]
    BY <1>1, <1>2, HomeIsVisible
  <2> HIDE DEF K, L, h
  <2>5. OwnerAgrees(L, owner', env')
    <3>1. CASE env' = env
      <4>1. OwnerAgrees(L, CheckAcc(owner, name, place, isMut), env)
        BY <1>2, <1>3, <1>5, <2>1, MistakenDrop
      <4> QED
        BY <1>1, <3>1, <4>1
    <3>2. CASE env' = [env EXCEPT ![h] = Moved(name)]
      <4>1. env' \in Seq(Bindings) /\ Len(env') = Len(env)
        BY <2>1, <2>3, <3>2
      <4>2. \A i \in 1 .. Len(env) : env'[i] = IF i = h THEN Moved(name) ELSE env[i]
        BY <2>1, <3>2
      <4>3. \A i \in 1 .. Len(env) :
              /\ DOMAIN env'[i] = DOMAIN env[i]
              /\ \A n \in DOMAIN env'[i] : n # name => env'[i][n] = env[i][n]
        BY <2>3, <2>4, <4>2 DEF IsWith
      <4>4. OwnerAgrees(L, CheckAcc(owner, name, place, isMut), env')
        BY <1>2, <1>3, <1>5, <4>1, <4>3, MistakenDrop
      <4> QED
        BY <1>1, <4>4
    <3> QED
      BY <1>1, <2>2, <3>1, <3>2 DEF h
  <2> QED
    BY <1>3, <2>5 DEF OwnerInv, L
<1> QED
  BY <1>4, <1>5

LEMMA OwnershipInvariant == Spec => []OwnerInv
<1>1. Init => OwnerInv
  <2> SUFFICES ASSUME Init PROVE OwnerInv
    OBVIOUS
  <2> DEFINE K == Names
             empty == [n \in {} |-> "live"]
  <2>1. empty \in Bindings /\ LocalVars \in LocalVarsType /\ ScopeAgrees(K, LocalVars, empty)
    BY BindingsAll DEF LocalVars, LocalVarsType, ScopeAgrees, States
  <2>2. DOMAIN empty = {}
    OBVIOUS
  <2>3. owner.scopes = <<LocalVars>> /\ env = <<empty>>
    BY DEF Init, NewChecker
  <2>4. owner \in OwnerType /\ owner.missing = {}
    BY <2>1 DEF Init, NewChecker, OwnerType
  <2> HIDE DEF empty, K
  <2>5. MovesNoted(K, <<LocalVars>>, <<empty>>)
    BY <2>2 DEF MovesNoted
  <2>6. Agree(K, <<LocalVars>>, <<empty>>)
    BY <2>1, <2>5 DEF Agree
  <2>7. OwnerAgrees(K, owner, env)
    BY <2>3, <2>4, <2>6 DEF OwnerAgrees
  <2>8. mistaken = {} /\ K = Names \ mistaken
    BY DEF Init, K
  <2> QED
    BY <2>7, <2>8 DEF OwnerInv
<1>2. OwnerInv /\ [Next]_vars => OwnerInv'
  <2> SUFFICES ASSUME OwnerInv, [Next]_vars
               PROVE  OwnerInv'
    OBVIOUS
  <2> DEFINE K == Names \ mistaken
             Kept == mistaken' = mistaken /\ OwnerAgrees(K, owner', env')
  <2>1. OwnerAgrees(K, owner, env)
    BY DEF OwnerInv
  <2>2. Kept => OwnerInv'
    BY DEF OwnerInv
  <2> HIDE DEF K
  <2>3. CASE EnterSubr
    <3>1. PICK name \in Names \ DOMAIN env[Depth], params \in SUBSET Names :
            /\ owner' = DefineParams(EnterScope(Define(owner, name)), params)
            /\ env' = Append(Bind(name, "live"), Fresh(params))
            /\ mistaken' = mistaken
      BY <2>3 DEF EnterSubr
    <3>2. OwnerAgrees(K, Define(owner, name), Bind(name, "live"))
      BY <2>1, NameBound
    <3> QED
      BY <2>2, <3>1, <3>2, ParamsPushed
  <2>4. CASE EnterVar
    <3>1. PICK name \in Names \ DOMAIN env[Depth] :
            /\ owner' = EnterScope(Define(owner, name))
            /\ env' = Append(Bind(name, "pending"), Fresh({}))
            /\ mistaken' = mistaken
      BY <2>4 DEF EnterVar
    <3>2. OwnerAgrees(K, Define(owner, name), Bind(name, "pending"))
      BY <2>1, NameBound
    <3>3. Fresh({}) \in Bindings /\ DOMAIN Fresh({}) = {}
      BY BindingsAll DEF Fresh, States
    <3> QED
      BY <2>1, <2>2, <3>1, <3>2, <3>3, ScopePushed
  <2>5. CASE EnterLambda
    <3>1. PICK params \in SUBSET Names :
            /\ owner' = EnterScope(owner)
            /\ env' = Append(env, [n \in params |-> "unknown"])
            /\ mistaken' = mistaken
      BY <2>5 DEF EnterLambda
    <3>2. [n \in params |-> "unknown"] \in Bindings
      BY BindingsAll DEF States
    <3>3. \A m \in DOMAIN [n \in params |-> "unknown"] : [n \in params |-> "unknown"][m] = "unknown"
      OBVIOUS
    <3> QED
      BY <2>1, <2>2, <3>1, <3>2, <3>3, ScopePushed
  <2>6. CASE Leave
    <3>1. /\ Len(env) > 1
          /\ owner' = LeaveScope(owner)
          /\ env' = [SubSeq(env, 1, Depth - 1) EXCEPT ![Depth - 1] = Bound(@)]
          /\ mistaken' = mistaken
      BY <2>6 DEF Leave, Depth
    <3> QED
      BY <2>1, <2>2, <3>1, ScopePopped
  <2>7. CASE Use
    BY <2>7, UseAgrees
  <2>8. CASE EndOwnership
    <3>1. owner' = [owner EXCEPT !.errs = {}] /\ env' = env /\ mistaken' = mistaken
      BY <2>8 DEF EndOwnership
    <3>2. owner' \in OwnerType /\ owner'.scopes = owner.scopes /\ owner'.missing = owner.missing
      BY <2>1, <3>1 DEF OwnerAgrees, OwnerType
    <3>3. OwnerAgrees(K, owner', env')
      BY <2>1, <3>1, <3>2 DEF OwnerAgrees
    <3> QED
      BY <2>2, <3>1, <3>3
  <2>9. CASE Attribute
    <3>1. PICK name \in Names \ DOMAIN env[Depth] :
            env' = Bind(name, "attribute") /\ owner' = owner /\ mistaken' = mistaken
      BY <2>9 DEF Attribute
    <3> QED
      BY <2>1, <2>2, <3>1, AttributeBound
  <2>10. CASE EnterBlock \/ LeaveBlock \/ MeetEffect \/ EndEffects \/ UNCHANGED vars
    <3>1. UNCHANGED <<owner, env, mistaken>>
      BY <2>10 DEF EnterBlock, LeaveBlock, MeetEffect, EndEffects, vars, ownership
    <3> QED
      BY <2>1, <2>2, <3>1
  <2> QED
    BY <2>3, <2>4, <2>5, <2>6, <2>7, <2>8, <2>9, <2>10 DEF Next
<1> QED
  BY <1>1, <1>2, PTL DEF Spec

(* As long as a variable that was moved exists, every use of its name is   *)
(* reported, and no other name is (ownercheck.rs, drop and                 *)
(* check_if_dropped), at any depth and in any later input, until the       *)
(* checker takes a variable of that name for another one.                  *)
THEOREM MovesAreRemembered == Spec => []MovesRemembered
<1>1. OwnerInv => MovesRemembered
  BY DroppedIsMoved DEF OwnerInv, MovesRemembered
<1> QED
  BY <1>1, OwnershipInvariant, PTL

(* The checker panics, having looked for a variable in vain                *)
(* (ownercheck.rs, drop), only over a name of which the program moves a    *)
(* parameter of a lambda, an attribute of a record or a variable that its  *)
(* own definition hides.                                                   *)
THEOREM PanicsOnlyByMistake == Spec => []MovedIsFound
<1>1. OwnerInv => MovedIsFound
  BY DEF OwnerInv, OwnerAgrees, OwnerType, MovedIsFound
<1> QED
  BY <1>1, OwnershipInvariant, PTL
=============================================================================
