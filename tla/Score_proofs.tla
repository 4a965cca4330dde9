----------------------------- MODULE Score_proofs -----------------------------
(* A declared win is scored, as the hand it was when it was declared, by its *)
(* best reading and alike in every suit: for every hand, melds and rules.    *)
EXTENDS Score, HandCheck_proofs

-----------------------------------------------------------------------------
(* The context that is rebuilt is the one the win was declared in           *)

\* The state the hand wins in, as the declaration's score sees it.
Declaring(w) == [LiveState(w) EXCEPT !.chankan = w.live \notin {"DRAW", "DISCARD"}]

\* Of a state, the context holds how the hand wins.
LEMMA ContextIsHow ==
  ASSUME NEW w, NEW s, NEW t, DetectWin(w, s) = DetectWin(w, t)
  PROVE  Context(w, s) = Context(w, t)
  BY DEF Context

HowDeclared(w) ==
  IF w.live = "DRAW" THEN "TSUMO" ELSE IF w.live = "DISCARD" THEN "RON" ELSE "CHANKAN"

LEMMA DetectDeclared ==
  ASSUME NEW w, w.live \in LivePhases
  PROVE  DetectWin(w, Declaring(w)) = HowDeclared(w)
  BY DEF DetectWin, Declaring, LiveState, HowDeclared, LivePhases, NONE

\* The state a finished round leaves, by tsumo or by ron.
EndedByTsumo(w) ==
  [LiveState(w) EXCEPT !.phase = "ROUND_END", !.winners = 1, !.pending = NONE]
EndedByRon(w, winners) ==
  [LiveState(w) EXCEPT !.phase = "ROUND_END", !.winners = winners]

Ended(w, s) ==
  \/ w.live = "DRAW" /\ s = EndedByTsumo(w)
  \/ w.live # "DRAW" /\ \E n \in 1 .. 3 : s = EndedByRon(w, n)

LEMMA PreparedIsDeclaring ==
  ASSUME win.live \in LivePhases, Ended(win, state)
  PROVE  Context(win, Prepared) = DeclaredContext(win)
  <1>1. DetectWin(win, Prepared) = HowDeclared(win)
    <2>1. CASE win.live = "DRAW"
      <3>1. state = EndedByTsumo(win)
        BY <2>1 DEF Ended
      <3> QED
        BY <2>1, <3>1
           DEF DetectWin, Prepared, SelfDrawn, EndedByTsumo, LiveState, HowDeclared, NONE
    <2>2. CASE win.live # "DRAW"
      <3>1. PICK n \in 1 .. 3 : state = EndedByRon(win, n)
        BY <2>2 DEF Ended
      <3> QED
        BY <2>2, <3>1
           DEF DetectWin, Prepared, SelfDrawn, EndedByRon, LiveState, HowDeclared,
               LivePhases, NONE
    <2> QED
      BY <2>1, <2>2
  <1> QED
    BY <1>1, DetectDeclared, ContextIsHow DEF DeclaredContext, Declaring

-----------------------------------------------------------------------------
(* What has been declared is a hand with a yaku                             *)

\* The hand the win was declared with has a yaku, in the context that the
\* question was asked in.
Declarable(w, r) ==
  \/ HasYaku(w, r, DeclaredContext(w))
  \/ w.live = "ANKAN_RESOLVE" /\ IsKokushi(w)

\* Nothing has happened; or the win has been declared, and perhaps settled.
ScoreInv ==
  /\ win \in Wins /\ rules \in RuleSets
  /\ \/ state = LiveState(win) /\ declared = NO_SCORE /\ result = UNKNOWN
     \/ /\ Ended(win, state) /\ Declarable(win, rules)
        /\ declared = BestResult(win, rules, DeclaredContext(win))
        /\ result \in {UNKNOWN, declared}

LEMMA InvInit == Init => ScoreInv
  BY DEF Init, ScoreInv

LEMMA LivePhase ==
  ASSUME ScoreInv, state.phase # "ROUND_END"
  PROVE  /\ state = LiveState(win) /\ state.phase = win.live /\ IsWin(win)
         /\ declared = NO_SCORE /\ result = UNKNOWN
  <1>1. IsWin(win)
    BY WinsAssumption DEF ScoreInv
  <1>2. ~ Ended(win, state)
    BY DEF Ended, EndedByTsumo, EndedByRon, LiveState
  <1> QED
    BY <1>1, <1>2 DEF ScoreInv, LiveState

LEMMA InvTsumo ==
  ASSUME ScoreInv, Tsumo
  PROVE  ScoreInv'
  <1>1. state.phase = "DRAW" /\ HasYaku(win, rules, Context(win, state))
    BY DEF Tsumo, CanTsumo
  <1>2. /\ state = LiveState(win) /\ win.live = "DRAW" /\ result = UNKNOWN
        /\ IsWin(win)
    BY <1>1, LivePhase
  <1>3. Context(win, state) = DeclaredContext(win)
    <2>1. DetectWin(win, LiveState(win)) = DetectWin(win, Declaring(win))
      BY <1>2, DetectDeclared DEF DetectWin, LiveState, HowDeclared, IsWin
    <2> QED
      BY <1>2, <2>1, ContextIsHow DEF DeclaredContext, Declaring
  <1>4. /\ state' = EndedByTsumo(win) /\ win' = win /\ rules' = rules
        /\ declared' = BestResult(win, rules, DeclaredContext(win)) /\ result' = UNKNOWN
    BY <1>2, <1>3 DEF Tsumo, EndedByTsumo
  <1>5. Ended(win, EndedByTsumo(win)) /\ Declarable(win, rules)
    BY <1>1, <1>2, <1>3 DEF Ended, Declarable
  <1> QED
    BY <1>4, <1>5 DEF ScoreInv

LEMMA InvRon ==
  ASSUME ScoreInv, NEW n \in 1 .. MaxWinners, Ron(n)
  PROVE  ScoreInv'
  <1>1. state.phase \in {"DISCARD", "KAKAN_RESOLVE", "ANKAN_RESOLVE"}
    BY DEF Ron, CanRon
  <1>2. /\ state = LiveState(win) /\ win.live = state.phase /\ result = UNKNOWN
        /\ IsWin(win)
    BY <1>1, LivePhase
  <1>3. [state EXCEPT !.chankan = state.pending # NONE] = Declaring(win)
    BY <1>1, <1>2 DEF Declaring, LiveState, NONE
  <1>4. Context(win, [state EXCEPT !.chankan = state.pending # NONE]) = DeclaredContext(win)
    BY <1>3 DEF DeclaredContext, Declaring
  <1>5. Declarable(win, rules)
    <2>1. CASE state.phase \in {"DISCARD", "KAKAN_RESOLVE"} /\ HasYaku(win, rules, Context(win, RonState))
      <3>1. RonState = Declaring(win)
        BY <1>1, <1>2, <2>1 DEF RonState, Declaring, LiveState
      <3> QED
        BY <2>1, <3>1 DEF Declarable, DeclaredContext, Declaring
    <2>2. CASE state.phase = "ANKAN_RESOLVE" /\ IsKokushi(win)
      BY <1>2, <2>2 DEF Declarable
    <2> QED
      BY <2>1, <2>2 DEF Ron, CanRon
  <1>6. n \in 1 .. 3
    BY WinnersAssumption
  <1>7. /\ state' = EndedByRon(win, n) /\ win' = win /\ rules' = rules
        /\ declared' = BestResult(win, rules, DeclaredContext(win)) /\ result' = UNKNOWN
    BY <1>2, <1>4 DEF Ron, FinishMultiRon, EndedByRon
  <1>8. Ended(win, EndedByRon(win, n))
    BY <1>1, <1>2, <1>6 DEF Ended
  <1> QED
    BY <1>5, <1>7, <1>8 DEF ScoreInv

LEMMA InvCalculate ==
  ASSUME ScoreInv, Calculate
  PROVE  ScoreInv'
  <1>1. state.phase = "ROUND_END"
    BY DEF Calculate
  <1>2. win.live \in LivePhases
    BY WinsAssumption DEF ScoreInv, IsWin
  <1>3. state # LiveState(win)
    BY <1>1, <1>2 DEF LiveState, LivePhases
  <1>4. Context(win, Prepared) = DeclaredContext(win)
    BY <1>2, <1>3, PreparedIsDeclaring DEF ScoreInv
  <1>5. result' = declared
    BY <1>3, <1>4 DEF Calculate, ScoreInv
  <1> QED
    BY <1>3, <1>5 DEF Calculate, ScoreInv

\* The declared win and what is made of it stay those of one hand.
THEOREM ScoreInvHolds == Spec => []ScoreInv
  <1>1. ASSUME ScoreInv, [Next]_vars
        PROVE  ScoreInv'
    <2>1. CASE Tsumo
      BY <1>1, <2>1, InvTsumo
    <2>2. CASE \E n \in 1 .. MaxWinners : Ron(n)
      BY <1>1, <2>2, InvRon
    <2>3. CASE Calculate
      BY <1>1, <2>3, InvCalculate
    <2>4. CASE UNCHANGED vars
      BY <1>1, <2>4 DEF ScoreInv, vars
    <2> QED
      BY <1>1, <2>1, <2>2, <2>3, <2>4 DEF Next
  <1> QED
    BY <1>1, InvInit, PTL DEF Spec

-----------------------------------------------------------------------------
(* The search for readings, level by level                                  *)

IsPartly(partly, w, c) ==
  partly = [n \in 0 .. MAX_MELDS + 1 |->
              IF n = 0 THEN {Undivided(w, c)}
                       ELSE UNION {Divided(r, w.type) : r \in partly[n - 1]}]

Partly(w, c) == CHOOSE partly : IsPartly(partly, w, c)

\* What one more cut makes of some partly divided hands.
Further(rs, type) == UNION {Divided(r, type) : r \in rs}

ReadingOf(r) == [groups |-> r.groups, pair |-> r.pair, pair_wins |-> r.pair_wins]

LEMMA ReadingsArePartly ==
  ASSUME NEW w, NEW c
  PROVE  ReadingsOf(w, c) =
           {ReadingOf(r) :
              r \in {x \in Partly(w, c)[MAX_MELDS + 1 - Len(w.melds)] : IsWhole(x)}}
  BY DEF ReadingsOf, Partly, IsPartly, ReadingOf

LEMMA PartlyRule ==
  ASSUME NEW w, NEW c
  PROVE  /\ Partly(w, c)[0] = {Undivided(w, c)}
         /\ \A n \in 1 .. MAX_MELDS + 1 :
              Partly(w, c)[n] = Further(Partly(w, c)[n - 1], w.type)
  <1> DEFINE p0 == {Undivided(w, c)}
             p1 == Further(p0, w.type)
             p2 == Further(p1, w.type)
             p3 == Further(p2, w.type)
             p4 == Further(p3, w.type)
             p5 == Further(p4, w.type)
             partly == [n \in 0 .. MAX_MELDS + 1 |->
                          IF n = 0 THEN p0 ELSE IF n = 1 THEN p1 ELSE
                          IF n = 2 THEN p2 ELSE IF n = 3 THEN p3 ELSE
                          IF n = 4 THEN p4 ELSE p5]
  <1> HIDE DEF p0, p1, p2, p3, p4, p5
  <1>1. /\ partly[0] = p0 /\ partly[1] = p1 /\ partly[2] = p2 /\ partly[3] = p3
        /\ partly[4] = p4 /\ partly[5] = p5
    BY DEF MAX_MELDS
  <1>2. ASSUME NEW n \in 0 .. MAX_MELDS + 1
        PROVE  partly[n] = IF n = 0 THEN p0 ELSE Further(partly[n - 1], w.type)
    <2>1. n \in {0, 1, 2, 3, 4, 5}
      BY DEF MAX_MELDS
    <2>2. /\ p1 = Further(p0, w.type) /\ p2 = Further(p1, w.type)
          /\ p3 = Further(p2, w.type) /\ p4 = Further(p3, w.type)
          /\ p5 = Further(p4, w.type)
      BY DEF p1, p2, p3, p4, p5
    <2> HIDE DEF partly
    <2>3. CASE n = 0
      BY <1>1, <2>3
    <2>4. CASE n = 1
      BY <1>1, <2>2, <2>4
    <2>5. CASE n = 2
      BY <1>1, <2>2, <2>5
    <2>6. CASE n = 3
      BY <1>1, <2>2, <2>6
    <2>7. CASE n = 4
      BY <1>1, <2>2, <2>7
    <2>8. CASE n = 5
      BY <1>1, <2>2, <2>8
    <2> QED
      BY <2>1, <2>3, <2>4, <2>5, <2>6, <2>7, <2>8
  <1>3. partly = [n \in 0 .. MAX_MELDS + 1 |->
                    IF n = 0 THEN p0 ELSE Further(partly[n - 1], w.type)]
    <2>1. partly = [n \in 0 .. MAX_MELDS + 1 |-> partly[n]]
      OBVIOUS
    <2> HIDE DEF partly
    <2> QED
      BY <1>2, <2>1
  <1>4. IsPartly(partly, w, c)
    BY <1>3 DEF IsPartly, Further, p0
  <1>5. IsPartly(Partly(w, c), w, c)
    BY <1>4 DEF Partly
  <1>6. Partly(w, c) = [n \in 0 .. MAX_MELDS + 1 |->
          IF n = 0 THEN {Undivided(w, c)} ELSE Further(Partly(w, c)[n - 1], w.type)]
    BY <1>5 DEF IsPartly, Further
  <1> QED
    BY <1>6 DEF MAX_MELDS

-----------------------------------------------------------------------------
(* One cut                                                                  *)

\* May a cut of n tiles of each of these types take the winning tile or not?
MayTake(r, n, types, type, wins) ==
  IF r.available /\ type \in types THEN wins \/ r.tiles[type] > n ELSE ~ wins

CutPair(r, i, type, q) ==
  /\ r.pair = NO_PAIR /\ Paired(r.tiles, i, q.tiles)
  /\ \E wins \in BOOLEAN :
       /\ MayTake(r, 2, {i}, type, wins)
       /\ q = [tiles |-> q.tiles, available |-> r.available /\ ~ wins,
               groups |-> r.groups, pair |-> i, pair_wins |-> wins]

NewGroup(kind, i, wins) == [kind |-> kind, base |-> i, open |-> FALSE, wins |-> wins]

CutGroup(r, i, type, q) ==
  /\ Len(r.groups) < MAX_MELDS
  /\ \E wins \in BOOLEAN : \E kind \in {"TRIPLET", "SEQUENCE"} :
       /\ \/ /\ kind = "TRIPLET" /\ r.tiles[i] >= 3 /\ q.tiles = Take(r.tiles, 3, {i})
             /\ MayTake(r, 3, {i}, type, wins)
          \/ /\ kind = "SEQUENCE" /\ HasSequence(r.tiles, i)
             /\ q.tiles = Take(r.tiles, 1, SequenceFrom(i))
             /\ MayTake(r, 1, SequenceFrom(i), type, wins)
       /\ q = [tiles |-> q.tiles, available |-> r.available /\ ~ wins,
               groups |-> Append(r.groups, NewGroup(kind, i, wins)),
               pair |-> r.pair, pair_wins |-> r.pair_wins]

LEMMA TakesMeans ==
  ASSUME NEW r, NEW cut, NEW type, NEW wins
  PROVE  wins \in Takes(r, cut, type)
           <=> wins \in BOOLEAN /\ MayTake(r, cut.n, cut.types, type, wins)
  BY DEF Takes, MayTake

LEMMA CutsMeans ==
  ASSUME NEW r, NEW i, NEW cut
  PROVE  cut \in Cuts(r, i) <=>
           \/ /\ r.pair = NO_PAIR /\ r.tiles[i] >= 2
              /\ cut = [kind |-> "PAIR", n |-> 2, types |-> {i}]
           \/ /\ Len(r.groups) < MAX_MELDS /\ r.tiles[i] >= 3
              /\ cut = [kind |-> "TRIPLET", n |-> 3, types |-> {i}]
           \/ /\ Len(r.groups) < MAX_MELDS /\ HasSequence(r.tiles, i)
              /\ cut = [kind |-> "SEQUENCE", n |-> 1, types |-> SequenceFrom(i)]
  BY DEF Cuts, When

LEMMA DividedMeans ==
  ASSUME NEW r, NEW type, NEW q, Held(r.tiles) # {}
  PROVE  q \in Divided(r, type)
           <=> \/ CutPair(r, Min(Held(r.tiles)), type, q)
               \/ CutGroup(r, Min(Held(r.tiles)), type, q)
  <1> DEFINE i == Min(Held(r.tiles))
  <1>1. q \in Divided(r, type) <=>
          \E cut \in Cuts(r, i) : \E wins \in Takes(r, cut, type) : q = After(r, i, cut, wins)
    BY DEF Divided
  <1> HIDE DEF i
  <1>2. ASSUME NEW cut \in Cuts(r, i), NEW wins \in Takes(r, cut, type),
               q = After(r, i, cut, wins)
        PROVE  CutPair(r, i, type, q) \/ CutGroup(r, i, type, q)
    <2>1. wins \in BOOLEAN /\ MayTake(r, cut.n, cut.types, type, wins)
      BY TakesMeans
    <2>2. CASE r.pair = NO_PAIR /\ r.tiles[i] >= 2
               /\ cut = [kind |-> "PAIR", n |-> 2, types |-> {i}]
      BY <1>2, <2>1, <2>2 DEF After, CutPair, Paired
    <2>3. CASE Len(r.groups) < MAX_MELDS /\ r.tiles[i] >= 3
               /\ cut = [kind |-> "TRIPLET", n |-> 3, types |-> {i}]
      BY <1>2, <2>1, <2>3 DEF After, CutGroup, NewGroup
    <2>4. CASE Len(r.groups) < MAX_MELDS /\ HasSequence(r.tiles, i)
               /\ cut = [kind |-> "SEQUENCE", n |-> 1, types |-> SequenceFrom(i)]
      BY <1>2, <2>1, <2>4 DEF After, CutGroup, NewGroup
    <2> QED
      BY <2>2, <2>3, <2>4, CutsMeans
  <1>3. ASSUME CutPair(r, i, type, q)
        PROVE  q \in Divided(r, type)
    <2> DEFINE cut == [kind |-> "PAIR", n |-> 2, types |-> {i}]
    <2>1. PICK wins \in BOOLEAN :
            /\ MayTake(r, 2, {i}, type, wins)
            /\ q = [tiles |-> q.tiles, available |-> r.available /\ ~ wins,
                    groups |-> r.groups, pair |-> i, pair_wins |-> wins]
      BY <1>3 DEF CutPair
    <2>2. cut \in Cuts(r, i) /\ wins \in Takes(r, cut, type)
      BY <1>3, <2>1, CutsMeans, TakesMeans DEF CutPair, Paired
    <2>3. q = After(r, i, cut, wins)
      BY <1>3, <2>1 DEF After, CutPair, Paired
    <2> QED
      BY <1>1, <2>2, <2>3
  <1>4. ASSUME CutGroup(r, i, type, q)
        PROVE  q \in Divided(r, type)
    <2>1. PICK wins \in BOOLEAN : \E kind \in {"TRIPLET", "SEQUENCE"} :
            /\ \/ /\ kind = "TRIPLET" /\ r.tiles[i] >= 3 /\ q.tiles = Take(r.tiles, 3, {i})
                  /\ MayTake(r, 3, {i}, type, wins)
               \/ /\ kind = "SEQUENCE" /\ HasSequence(r.tiles, i)
                  /\ q.tiles = Take(r.tiles, 1, SequenceFrom(i))
                  /\ MayTake(r, 1, SequenceFrom(i), type, wins)
            /\ q = [tiles |-> q.tiles, available |-> r.available /\ ~ wins,
                    groups |-> Append(r.groups, NewGroup(kind, i, wins)),
                    pair |-> r.pair, pair_wins |-> r.pair_wins]
      BY <1>4 DEF CutGroup
    <2>2. CASE /\ r.tiles[i] >= 3 /\ q.tiles = Take(r.tiles, 3, {i})
               /\ MayTake(r, 3, {i}, type, wins)
               /\ q = [tiles |-> q.tiles, available |-> r.available /\ ~ wins,
                       groups |-> Append(r.groups, NewGroup("TRIPLET", i, wins)),
                       pair |-> r.pair, pair_wins |-> r.pair_wins]
      <3> DEFINE cut == [kind |-> "TRIPLET", n |-> 3, types |-> {i}]
      <3>1. cut \in Cuts(r, i) /\ wins \in Takes(r, cut, type)
        BY <1>4, <2>2, CutsMeans, TakesMeans DEF CutGroup
      <3>2. q = After(r, i, cut, wins)
        BY <2>2 DEF After, NewGroup
      <3> QED
        BY <1>1, <3>1, <3>2
    <2>3. CASE /\ HasSequence(r.tiles, i) /\ q.tiles = Take(r.tiles, 1, SequenceFrom(i))
               /\ MayTake(r, 1, SequenceFrom(i), type, wins)
               /\ q = [tiles |-> q.tiles, available |-> r.available /\ ~ wins,
                       groups |-> Append(r.groups, NewGroup("SEQUENCE", i, wins)),
                       pair |-> r.pair, pair_wins |-> r.pair_wins]
      <3> DEFINE cut == [kind |-> "SEQUENCE", n |-> 1, types |-> SequenceFrom(i)]
      <3>1. cut \in Cuts(r, i) /\ wins \in Takes(r, cut, type)
        BY <1>4, <2>3, CutsMeans, TakesMeans DEF CutGroup
      <3>2. q = After(r, i, cut, wins)
        BY <2>3 DEF After, NewGroup
      <3> QED
        BY <1>1, <3>1, <3>2
    <2> QED
      BY <2>1, <2>2, <2>3
  <1> QED
    BY <1>1, <1>2, <1>3, <1>4 DEF i
-----------------------------------------------------------------------------
(* What a partly divided hand is                                            *)

\* After k cuts: the melds come first, and what was found is no quad.
IsPartial(r, w, k) ==
  /\ r.tiles \in [DOMAIN w.tiles -> Nat]
  /\ r.available \in BOOLEAN /\ r.pair_wins \in BOOLEAN
  /\ r.available => r.tiles[w.type] > 0
  /\ r.pair \in TileType \cup {NO_PAIR}
  /\ r.groups \in Seq(Groups)
  /\ Len(w.melds) <= Len(r.groups) /\ Len(r.groups) <= MAX_MELDS
  /\ Len(r.groups) + One(r.pair # NO_PAIR) = Len(w.melds) + k
  /\ \A i \in 1 .. Len(r.groups) :
       r.groups[i] \in Groups
         /\ (IF i <= Len(w.melds) THEN r.groups[i] = MeldGroup(w.melds[i])
                                  ELSE r.groups[i].kind # "QUAD" /\ ~ r.groups[i].open)

LEMMA SeqFacts ==
  ASSUME NEW S, NEW ms \in Seq(S)
  PROVE  /\ Len(ms) \in Nat /\ DOMAIN ms = 1 .. Len(ms)
         /\ \A i \in 1 .. Len(ms) : ms[i] \in S
  OBVIOUS

LEMMA WinTypes ==
  ASSUME NEW w, IsWin(w)
  PROVE  /\ IsTypes(DOMAIN w.tiles) /\ DOMAIN w.tiles \subseteq TileType
         /\ w.tiles \in [DOMAIN w.tiles -> Nat]
         /\ w.type \in DOMAIN w.tiles /\ w.tiles[w.type] > 0
         /\ Len(w.melds) \in 0 .. 4 /\ DOMAIN w.melds = 1 .. Len(w.melds)
         /\ \A i \in 1 .. Len(w.melds) : w.melds[i].kind \in MeldKinds /\ w.melds[i].base \in TileType
  <1>1. IsFiniteSet(0 .. 33)
    <2>1. 0 \in Int /\ 33 \in Int
      OBVIOUS
    <2> QED
      BY <2>1, FS_Interval
  <1>2. IsTypes(DOMAIN w.tiles)
    <2>1. DOMAIN w.tiles \subseteq 0 .. 33
      BY DEF IsWin, TileType
    <2> QED
      BY <1>1, <2>1, FS_Subset DEF IsTypes
  <1>3. w.melds \in Seq([kind : MeldKinds, base : TileType]) /\ Len(w.melds) <= 4
    BY DEF IsWin, MAX_MELDS
  <1>4. /\ Len(w.melds) \in Nat /\ DOMAIN w.melds = 1 .. Len(w.melds)
        /\ \A i \in 1 .. Len(w.melds) : w.melds[i] \in [kind : MeldKinds, base : TileType]
    BY <1>3, SeqFacts
  <1>5. w.tiles \in [DOMAIN w.tiles -> Nat]
    BY DEF IsWin, TILE_PER_TYPE
  <1>6. \A i \in 1 .. Len(w.melds) : w.melds[i].kind \in MeldKinds /\ w.melds[i].base \in TileType
    BY <1>4
  <1> DEFINE m == Len(w.melds)
  <1> HIDE DEF m
  <1>a. m \in Nat /\ m <= 4
    BY <1>3, <1>4 DEF m
  <1>7. m \in 0 .. 4
    BY <1>a
  <1>8. DOMAIN w.tiles \subseteq TileType /\ w.type \in DOMAIN w.tiles /\ w.tiles[w.type] > 0
    BY DEF IsWin
  <1> QED
    BY <1>2, <1>4, <1>5, <1>6, <1>7, <1>8 DEF m

LEMMA MeldGroupType ==
  ASSUME NEW m, m.kind \in MeldKinds, m.base \in TileType
  PROVE  MeldGroup(m) \in Groups /\ MeldGroup(m).kind = Kind(m)
  BY DEF MeldGroup, Kind, MeldKinds, Groups

LEMMA UndividedIsPartial ==
  ASSUME NEW w, IsWin(w), NEW c
  PROVE  IsPartial(Undivided(w, c), w, 0)
  <1> DEFINE gs == Melds(w)
  <1>1. /\ Len(w.melds) \in 0 .. 4 /\ DOMAIN w.melds = 1 .. Len(w.melds)
        /\ \A i \in 1 .. Len(w.melds) : MeldGroup(w.melds[i]) \in Groups
    BY WinTypes, MeldGroupType
  <1>2. /\ gs \in Seq(Groups) /\ Len(gs) = Len(w.melds)
        /\ \A i \in 1 .. Len(w.melds) : gs[i] = MeldGroup(w.melds[i])
    BY <1>1 DEF Melds
  <1> HIDE DEF gs
  <1>3. /\ Undivided(w, c).tiles = w.tiles /\ Undivided(w, c).available \in BOOLEAN
        /\ Undivided(w, c).groups = gs /\ Undivided(w, c).pair = NO_PAIR
        /\ Undivided(w, c).pair_wins = FALSE
    BY DEF Undivided, gs
  <1>4. w.tiles \in [DOMAIN w.tiles -> Nat] /\ w.tiles[w.type] > 0
    BY WinTypes
  <1> DEFINE r == Undivided(w, c)
  <1> HIDE DEF r
  <1>5. /\ r.tiles = w.tiles /\ r.available \in BOOLEAN /\ r.groups = gs
        /\ r.pair = NO_PAIR /\ r.pair_wins = FALSE
    BY <1>3 DEF r
  <1>6. ASSUME NEW i \in 1 .. Len(r.groups)
        PROVE  r.groups[i] \in Groups
                 /\ (IF i <= Len(w.melds) THEN r.groups[i] = MeldGroup(w.melds[i])
                                          ELSE r.groups[i].kind # "QUAD" /\ ~ r.groups[i].open)
    BY <1>1, <1>2, <1>5
  <1>7. One(r.pair # NO_PAIR) = 0
    BY <1>5 DEF One
  <1>8. /\ Len(w.melds) <= Len(r.groups) /\ Len(r.groups) <= MAX_MELDS
        /\ Len(r.groups) + One(r.pair # NO_PAIR) = Len(w.melds) + 0
    BY <1>1, <1>2, <1>5, <1>7 DEF MAX_MELDS
  <1>9. r.tiles \in [DOMAIN w.tiles -> Nat] /\ r.tiles[w.type] > 0 /\ r.pair_wins \in BOOLEAN
    BY <1>4, <1>5
  <1>10. r.groups \in Seq(Groups) /\ r.pair \in TileType \cup {NO_PAIR}
    BY <1>2, <1>5
  <1> QED
    BY <1>5, <1>6, <1>8, <1>9, <1>10 DEF IsPartial, r

LEMMA AppendGroup ==
  ASSUME NEW gs \in Seq(Groups), NEW g \in Groups
  PROVE  /\ Append(gs, g) \in Seq(Groups) /\ Len(Append(gs, g)) = Len(gs) + 1
         /\ Len(gs) \in Nat
         /\ \A i \in 1 .. Len(gs) : Append(gs, g)[i] = gs[i]
         /\ Append(gs, g)[Len(gs) + 1] = g
  OBVIOUS

\* Tiles taken by a cut leave the winning tile one of its type to be.
LEMMA StillAvailable ==
  ASSUME NEW D, NEW r, r.tiles \in [D -> Nat], r.available \in BOOLEAN, NEW type \in D,
         r.available => r.tiles[type] > 0,
         NEW n \in Nat, NEW types, NEW wins \in BOOLEAN, MayTake(r, n, types, type, wins),
         r.available /\ ~ wins
  PROVE  Take(r.tiles, n, types)[type] > 0
  BY DEF Take, MayTake

LEMMA PartialStep ==
  ASSUME NEW w, IsWin(w), NEW k \in Nat, NEW r, IsPartial(r, w, k), NEW q,
         q \in Divided(r, w.type)
  PROVE  IsPartial(q, w, k + 1)
  <1> DEFINE D == DOMAIN w.tiles
             i == Min(Held(r.tiles))
  <1>1. Held(r.tiles) # {}
    BY DEF Divided
  <1>2. CutPair(r, i, w.type, q) \/ CutGroup(r, i, w.type, q)
    BY <1>1, DividedMeans
  <1>3. /\ IsTypes(D) /\ D \subseteq TileType /\ w.type \in D
        /\ Len(w.melds) \in 0 .. 4
    BY WinTypes
  <1>4. r.tiles \in [D -> Nat]
    BY DEF IsPartial
  <1>5. i \in D
    BY <1>1, <1>3, <1>4, FirstTile
  <1> HIDE DEF D, i
  <1>6. i \in TileType /\ i # NO_PAIR
    BY <1>3, <1>5 DEF TileType, NO_PAIR
  <1>7. CASE CutPair(r, i, w.type, q)
    <2>1. PICK wins \in BOOLEAN :
            /\ MayTake(r, 2, {i}, w.type, wins)
            /\ q = [tiles |-> q.tiles, available |-> r.available /\ ~ wins,
                    groups |-> r.groups, pair |-> i, pair_wins |-> wins]
      BY <1>7 DEF CutPair
    <2>2. Paired(r.tiles, i, q.tiles) /\ r.pair = NO_PAIR
      BY <1>7 DEF CutPair
    <2>3. q.tiles \in [D -> Nat]
      BY <1>3, <1>4, <1>5, <2>2, PairedType
    <2>a. q.available = (r.available /\ ~ wins)
      BY <2>1
    <2>b. r.available \in BOOLEAN /\ (r.available => r.tiles[w.type] > 0)
      BY DEF IsPartial
    <2>4. q.available \in BOOLEAN /\ (q.available => q.tiles[w.type] > 0)
      <3>1. CASE r.available /\ ~ wins
        <4>1. Take(r.tiles, 2, {i})[w.type] > 0
          BY <1>3, <1>4, <2>1, <2>b, <3>1, StillAvailable
        <4> QED
          BY <2>2, <2>a, <3>1, <4>1 DEF Paired
      <3>2. CASE ~ (r.available /\ ~ wins)
        BY <2>a, <2>b, <3>2
      <3> QED
        BY <3>1, <3>2
    <2>5. q.groups = r.groups /\ q.pair = i /\ q.pair_wins \in BOOLEAN
      BY <2>1
    <2> HIDE <2>1
    <2>6. /\ Len(w.melds) <= Len(r.groups) /\ Len(r.groups) <= MAX_MELDS
          /\ Len(r.groups) + One(r.pair # NO_PAIR) = Len(w.melds) + k
          /\ r.groups \in Seq(Groups)
      BY DEF IsPartial
    <2>7. One(r.pair # NO_PAIR) = 0 /\ One(q.pair # NO_PAIR) = 1 /\ Len(r.groups) \in Nat
      BY <1>6, <2>2, <2>5, <2>6 DEF One
    <2>8. Len(q.groups) + One(q.pair # NO_PAIR) = Len(w.melds) + (k + 1)
      <3> DEFINE n == Len(r.groups)
                 m == Len(w.melds)
      <3> HIDE DEF n, m
      <3>1. n \in Nat /\ m \in Nat /\ n + 0 = m + k
        BY <1>3, <2>6, <2>7 DEF n, m
      <3>2. n + 1 = m + (k + 1)
        BY <3>1
      <3> QED
        BY <2>5, <2>7, <3>2 DEF n, m
    <2>9. \A j \in 1 .. Len(q.groups) :
            q.groups[j] \in Groups
              /\ (IF j <= Len(w.melds) THEN q.groups[j] = MeldGroup(w.melds[j])
                                       ELSE q.groups[j].kind # "QUAD" /\ ~ q.groups[j].open)
      BY <2>5 DEF IsPartial
    <2>10. q.pair \in TileType \cup {NO_PAIR} /\ q.tiles \in [DOMAIN w.tiles -> Nat]
      BY <1>6, <2>3, <2>5 DEF D
    <2> QED
      BY <2>4, <2>5, <2>6, <2>8, <2>9, <2>10 DEF IsPartial
  <1>8. CASE CutGroup(r, i, w.type, q)
    <2>1. PICK wins \in BOOLEAN, kind \in {"TRIPLET", "SEQUENCE"} :
            /\ \/ /\ kind = "TRIPLET" /\ r.tiles[i] >= 3 /\ q.tiles = Take(r.tiles, 3, {i})
                  /\ MayTake(r, 3, {i}, w.type, wins)
               \/ /\ kind = "SEQUENCE" /\ HasSequence(r.tiles, i)
                  /\ q.tiles = Take(r.tiles, 1, SequenceFrom(i))
                  /\ MayTake(r, 1, SequenceFrom(i), w.type, wins)
            /\ q = [tiles |-> q.tiles, available |-> r.available /\ ~ wins,
                    groups |-> Append(r.groups, NewGroup(kind, i, wins)),
                    pair |-> r.pair, pair_wins |-> r.pair_wins]
      BY <1>8 DEF CutGroup
    <2>2. Melded(r.tiles, i, q.tiles) /\ Len(r.groups) < MAX_MELDS
      BY <1>8, <2>1 DEF Melded, CutGroup
    <2>3. q.tiles \in [D -> Nat]
      BY <1>3, <1>4, <1>5, <2>2, MeldedType
    <2>a. q.available = (r.available /\ ~ wins)
      BY <2>1
    <2>b. r.available \in BOOLEAN /\ (r.available => r.tiles[w.type] > 0)
      BY DEF IsPartial
    <2>4. q.available \in BOOLEAN /\ (q.available => q.tiles[w.type] > 0)
      <3>1. CASE r.available /\ ~ wins
        <4>1. ASSUME NEW n \in Nat, NEW types, MayTake(r, n, types, w.type, wins)
              PROVE  Take(r.tiles, n, types)[w.type] > 0
          BY <1>3, <1>4, <2>b, <3>1, <4>1, StillAvailable
        <4> QED
          BY <2>1, <2>a, <3>1, <4>1
      <3>2. CASE ~ (r.available /\ ~ wins)
        BY <2>a, <2>b, <3>2
      <3> QED
        BY <3>1, <3>2
    <2> DEFINE g == NewGroup(kind, i, wins)
    <2>5. g \in Groups /\ g.kind # "QUAD" /\ ~ g.open
      BY <1>6 DEF NewGroup, Groups
    <2>6. /\ q.groups = Append(r.groups, g) /\ q.pair = r.pair
          /\ q.pair_wins = r.pair_wins
      BY <2>1
    <2> HIDE <2>1 DEF g
    <2>7. /\ q.groups \in Seq(Groups) /\ Len(q.groups) = Len(r.groups) + 1
          /\ Len(r.groups) \in Nat
          /\ \A j \in 1 .. Len(r.groups) : q.groups[j] = r.groups[j]
          /\ q.groups[Len(r.groups) + 1] = g
      BY <2>5, <2>6, AppendGroup DEF IsPartial
    <2>8. ASSUME NEW j \in 1 .. Len(q.groups)
          PROVE  q.groups[j] \in Groups
                   /\ (IF j <= Len(w.melds) THEN q.groups[j] = MeldGroup(w.melds[j])
                                            ELSE q.groups[j].kind # "QUAD" /\ ~ q.groups[j].open)
      <3>1. CASE j = Len(r.groups) + 1
        BY <1>3, <2>5, <2>7, <3>1 DEF IsPartial
      <3>2. CASE j \in 1 .. Len(r.groups)
        BY <2>7, <3>2 DEF IsPartial
      <3> QED
        BY <2>7, <3>1, <3>2
    <2>9. /\ Len(w.melds) <= Len(q.groups) /\ Len(q.groups) <= MAX_MELDS
          /\ Len(q.groups) + One(q.pair # NO_PAIR) = Len(w.melds) + (k + 1)
      <3>1. /\ Len(w.melds) <= Len(r.groups) /\ Len(r.groups) < 4
            /\ Len(r.groups) + One(r.pair # NO_PAIR) = Len(w.melds) + k
        BY <2>2 DEF IsPartial, MAX_MELDS
      <3>2. One(r.pair # NO_PAIR) \in Int
        BY DEF One
      <3>3. Len(q.groups) + One(r.pair # NO_PAIR) = Len(w.melds) + (k + 1)
        <4> DEFINE n == Len(r.groups)
                   m == Len(w.melds)
                   one == One(r.pair # NO_PAIR)
        <4> HIDE DEF n, m, one
        <4>1. n \in Nat /\ m \in Nat /\ one \in Int /\ n + one = m + k
          BY <1>3, <2>7, <3>1, <3>2 DEF n, m, one
        <4>2. (n + 1) + one = m + (k + 1)
          BY <4>1
        <4> QED
          BY <2>7, <4>2 DEF n, m, one
      <3>4. Len(w.melds) <= Len(q.groups) /\ Len(q.groups) <= 4
        BY <1>3, <2>7, <3>1
      <3> QED
        BY <2>6, <3>3, <3>4 DEF MAX_MELDS
    <2> QED
      BY <2>3, <2>4, <2>6, <2>7, <2>8, <2>9 DEF IsPartial, D
  <1> QED
    BY <1>2, <1>7, <1>8
-----------------------------------------------------------------------------
(* A complete hand has a reading                                            *)

\* What is left of the hand is the groups and the pair that it still needs.
Completable(r) ==
  LET left == MAX_MELDS - Len(r.groups)
  IN IF r.pair = NO_PAIR
       THEN Total(r.tiles) = 3 * left + 2 /\ CheckStandard(r.tiles, left)
       ELSE Total(r.tiles) = 3 * left /\ RemoveMelds(r.tiles, left)

\* The winning tile can always be placed at once.
WinsAtOnce(r, types, type) == IF r.available /\ type \in types THEN TRUE ELSE FALSE

LEMMA MayWinAtOnce ==
  ASSUME NEW r, NEW n, NEW types, NEW type
  PROVE  /\ WinsAtOnce(r, types, type) \in BOOLEAN
         /\ MayTake(r, n, types, type, WinsAtOnce(r, types, type))
  BY DEF WinsAtOnce, MayTake

PairLeaves(r, i, q, b) == q.tiles = b /\ q.groups = r.groups /\ q.pair = i

MeldLeaves(r, q, d) ==
  q.tiles = d /\ q.pair = r.pair /\ \E g : q.groups = Append(r.groups, g)

LEMMA CutOffPair ==
  ASSUME NEW r, NEW i, NEW type, r.pair = NO_PAIR, NEW b, Paired(r.tiles, i, b)
  PROVE  \E q : CutPair(r, i, type, q) /\ PairLeaves(r, i, q, b)
  <1> DEFINE wins == WinsAtOnce(r, {i}, type)
             q == [tiles |-> b, available |-> r.available /\ ~ wins,
                   groups |-> r.groups, pair |-> i, pair_wins |-> wins]
  <1>1. wins \in BOOLEAN /\ MayTake(r, 2, {i}, type, wins)
    BY MayWinAtOnce
  <1> HIDE DEF wins
  <1>2. q.tiles = b
    OBVIOUS
  <1>3. CutPair(r, i, type, q)
    BY <1>1, <1>2 DEF CutPair
  <1>4. PairLeaves(r, i, q, b)
    BY DEF PairLeaves
  <1> QED
    BY <1>3, <1>4

LEMMA CutOffMeld ==
  ASSUME NEW r, NEW i, NEW type, Len(r.groups) < MAX_MELDS, NEW d, Melded(r.tiles, i, d)
  PROVE  \E q : CutGroup(r, i, type, q) /\ MeldLeaves(r, q, d)
  <1> DEFINE New(kind, wins) ==
               [tiles |-> d, available |-> r.available /\ ~ wins,
                groups |-> Append(r.groups, NewGroup(kind, i, wins)),
                pair |-> r.pair, pair_wins |-> r.pair_wins]
  <1>1. CASE r.tiles[i] >= 3 /\ d = Take(r.tiles, 3, {i})
    <2> DEFINE wins == WinsAtOnce(r, {i}, type)
               q == New("TRIPLET", wins)
    <2>1. wins \in BOOLEAN /\ MayTake(r, 3, {i}, type, wins)
      BY MayWinAtOnce
    <2> HIDE DEF wins
    <2>2. q.tiles = d
      OBVIOUS
    <2>3. CutGroup(r, i, type, q)
      BY <1>1, <2>1, <2>2 DEF CutGroup
    <2>4. /\ q.pair = r.pair
          /\ q.groups = Append(r.groups, NewGroup("TRIPLET", i, wins))
      OBVIOUS
    <2> HIDE DEF q
    <2> QED
      BY <2>2, <2>3, <2>4 DEF MeldLeaves
  <1>2. CASE HasSequence(r.tiles, i) /\ d = Take(r.tiles, 1, SequenceFrom(i))
    <2> DEFINE wins == WinsAtOnce(r, SequenceFrom(i), type)
               q == New("SEQUENCE", wins)
    <2>1. wins \in BOOLEAN /\ MayTake(r, 1, SequenceFrom(i), type, wins)
      BY MayWinAtOnce
    <2> HIDE DEF wins
    <2>2. q.tiles = d
      OBVIOUS
    <2>3. CutGroup(r, i, type, q)
      BY <1>2, <2>1, <2>2 DEF CutGroup
    <2>4. /\ q.pair = r.pair
          /\ q.groups = Append(r.groups, NewGroup("SEQUENCE", i, wins))
      OBVIOUS
    <2> HIDE DEF q
    <2> QED
      BY <2>2, <2>3, <2>4 DEF MeldLeaves
  <1> QED
    BY <1>1, <1>2 DEF Melded

LEMMA PairCompletes ==
  ASSUME NEW r, NEW i, NEW type, r.pair = NO_PAIR, i # NO_PAIR, NEW b, Paired(r.tiles, i, b),
         RemoveMelds(b, MAX_MELDS - Len(r.groups)),
         Total(b) = 3 * (MAX_MELDS - Len(r.groups))
  PROVE  \E q : CutPair(r, i, type, q) /\ Completable(q)
  <1>1. PICK q : CutPair(r, i, type, q) /\ PairLeaves(r, i, q, b)
    BY CutOffPair
  <1> QED
    BY <1>1 DEF Completable, PairLeaves

LEMMA MeldCompletes ==
  ASSUME NEW r, NEW i, NEW type, r.groups \in Seq(Groups), Len(r.groups) < MAX_MELDS,
         NEW d, Melded(r.tiles, i, d),
         IF r.pair = NO_PAIR
           THEN /\ Total(d) = 3 * (MAX_MELDS - (Len(r.groups) + 1)) + 2
                /\ CheckStandard(d, MAX_MELDS - (Len(r.groups) + 1))
           ELSE /\ Total(d) = 3 * (MAX_MELDS - (Len(r.groups) + 1))
                /\ RemoveMelds(d, MAX_MELDS - (Len(r.groups) + 1))
  PROVE  \E q : CutGroup(r, i, type, q) /\ Completable(q)
  <1>1. PICK q : CutGroup(r, i, type, q) /\ MeldLeaves(r, q, d)
    BY CutOffMeld
  <1>2. Len(q.groups) = Len(r.groups) + 1
    BY <1>1 DEF MeldLeaves
  <1> QED
    BY <1>1, <1>2 DEF Completable, MeldLeaves

\* Something is left to cut off, and it can be.
LEMMA CompletableStep ==
  ASSUME NEW w, IsWin(w), NEW k \in Nat, NEW r, IsPartial(r, w, k), Completable(r),
         Len(w.melds) + k < 5
  PROVE  \E q \in Divided(r, w.type) : Completable(q)
  <1> DEFINE D == DOMAIN w.tiles
             i == Min(Held(r.tiles))
             n == Len(r.groups)
             m == Len(w.melds)
             one == One(r.pair # NO_PAIR)
             type == w.type
  <1>1. IsTypes(D) /\ D \subseteq TileType /\ m \in 0 .. 4
    BY WinTypes
  <1>2. r.tiles \in [D -> Nat]
    BY DEF IsPartial
  <1> HIDE DEF D, m, type
  <1>3. n \in Nat /\ n <= 4 /\ n + one = m + k /\ r.groups \in Seq(Groups)
    BY DEF IsPartial, MAX_MELDS, m
  <1>4. /\ r.pair = NO_PAIR => one = 0
        /\ r.pair # NO_PAIR => one = 1
    BY DEF One
  <1> HIDE DEF n, one
  <1>5. m + k < 5
    BY DEF m
  <1>6. /\ r.pair = NO_PAIR => 3 * (4 - n) + 2 > 0
        /\ r.pair # NO_PAIR => n < 4
    BY <1>1, <1>3, <1>4, <1>5
  <1>7. Held(r.tiles) # {} /\ Total(r.tiles) \in Nat
    <2>1. Total(r.tiles) # 0
      BY <1>3, <1>6 DEF Completable, MAX_MELDS, n
    <2> QED
      BY <1>1, <1>2, <2>1, TotalType DEF IsTypes
  <1>8. i \in D /\ IsFirst(i, r.tiles)
    BY <1>1, <1>2, <1>7, FirstTile
  <1>9. \A q : CutPair(r, i, type, q) \/ CutGroup(r, i, type, q) => q \in Divided(r, w.type)
    BY <1>7, DividedMeans DEF type
  <1> HIDE DEF i
  <1>10. i # NO_PAIR
    BY <1>1, <1>8 DEF TileType, NO_PAIR
  <1>11. CASE r.pair = NO_PAIR
    <2>1. Total(r.tiles) = 3 * (4 - n) + 2 /\ CheckStandard(r.tiles, 4 - n)
      BY <1>11 DEF Completable, MAX_MELDS, n
    <2>2. 4 - n \in 0 .. MAX_MELDS
      BY <1>3 DEF MAX_MELDS
    <2>3. \/ \E b : Paired(r.tiles, i, b) /\ RemoveMelds(b, 4 - n)
          \/ 4 - n > 0 /\ \E d : Melded(r.tiles, i, d) /\ CheckStandard(d, (4 - n) - 1)
      BY <1>1, <1>2, <1>8, <2>1, <2>2, StandardStep
    <2>4. CASE \E b : Paired(r.tiles, i, b) /\ RemoveMelds(b, 4 - n)
      <3>1. PICK b : Paired(r.tiles, i, b) /\ RemoveMelds(b, 4 - n)
        BY <2>4
      <3>2. Total(b) = Total(r.tiles) - 2
        BY <1>1, <1>2, <1>8, <3>1, PairedType
      <3>3. Total(b) = 3 * (4 - n)
        BY <1>3, <2>1, <3>2
      <3>4. \E q : CutPair(r, i, type, q) /\ Completable(q)
        BY <1>10, <1>11, <3>1, <3>3, PairCompletes DEF MAX_MELDS, n
      <3> QED
        BY <1>9, <3>4
    <2>5. CASE 4 - n > 0 /\ \E d : Melded(r.tiles, i, d) /\ CheckStandard(d, (4 - n) - 1)
      <3>1. PICK d : Melded(r.tiles, i, d) /\ CheckStandard(d, (4 - n) - 1)
        BY <2>5
      <3>2. Total(d) = Total(r.tiles) - 3
        BY <1>1, <1>2, <1>8, <3>1, MeldedType
      <3>3. Len(r.groups) < MAX_MELDS
        BY <1>3, <2>5 DEF MAX_MELDS, n
      <3>4. (4 - n) - 1 = 4 - (n + 1) /\ Total(d) = 3 * (4 - (n + 1)) + 2
        BY <1>3, <2>1, <3>2
      <3>5. CheckStandard(d, 4 - (n + 1))
        BY <3>1, <3>4
      <3>6. \E q : CutGroup(r, i, type, q) /\ Completable(q)
        BY <1>3, <1>11, <3>1, <3>3, <3>4, <3>5, MeldCompletes DEF MAX_MELDS, n
      <3> QED
        BY <1>9, <3>6
    <2> QED
      BY <2>3, <2>4, <2>5
  <1>12. CASE r.pair # NO_PAIR
    <2>1. Total(r.tiles) = 3 * (4 - n) /\ RemoveMelds(r.tiles, 4 - n)
      BY <1>12 DEF Completable, MAX_MELDS, n
    <2>2. 4 - n \in 1 .. MAX_MELDS
      BY <1>3, <1>6, <1>12 DEF MAX_MELDS
    <2>3. PICK d : Melded(r.tiles, i, d) /\ RemoveMelds(d, (4 - n) - 1)
      BY <1>1, <1>2, <1>8, <2>1, <2>2, MeldsStep
    <2>4. Total(d) = Total(r.tiles) - 3
      BY <1>1, <1>2, <1>8, <2>3, MeldedType
    <2>5. Len(r.groups) < MAX_MELDS
      BY <1>3, <1>6, <1>12 DEF MAX_MELDS, n
    <2>6. (4 - n) - 1 = 4 - (n + 1) /\ Total(d) = 3 * (4 - (n + 1))
      BY <1>3, <2>1, <2>4
    <2>7. RemoveMelds(d, 4 - (n + 1))
      BY <2>3, <2>6
    <2>8. \E q : CutGroup(r, i, type, q) /\ Completable(q)
      BY <1>3, <1>12, <2>3, <2>5, <2>6, <2>7, MeldCompletes DEF MAX_MELDS, n
    <2> QED
      BY <1>9, <2>8
  <1> QED
    BY <1>11, <1>12

\* With the groups and the pair found, nothing is left, nor is the winning tile.
LEMMA CompletedIsWhole ==
  ASSUME NEW w, IsWin(w), NEW k \in Nat, NEW r, IsPartial(r, w, k), Completable(r),
         Len(w.melds) + k = 5
  PROVE  IsWhole(r)
  <1> DEFINE n == Len(r.groups)
             m == Len(w.melds)
             one == One(r.pair # NO_PAIR)
  <1>1. m \in 0 .. 4 /\ IsTypes(DOMAIN w.tiles) /\ w.type \in DOMAIN w.tiles
    BY WinTypes
  <1> HIDE DEF m
  <1>2. n \in Nat /\ n <= 4 /\ n + one = m + k
    BY DEF IsPartial, MAX_MELDS, m
  <1>3. /\ r.pair = NO_PAIR => one = 0
        /\ r.pair # NO_PAIR => one = 1
    BY DEF One
  <1> HIDE DEF n, one
  <1>4. m + k = 5
    BY DEF m
  <1>5. r.pair # NO_PAIR /\ n = 4
    BY <1>1, <1>2, <1>3, <1>4
  <1>6. Total(r.tiles) = 0
    <2>1. Total(r.tiles) = 3 * (4 - n)
      BY <1>5 DEF Completable, MAX_MELDS, n
    <2> QED
      BY <1>5, <2>1
  <1>7. r.tiles \in [DOMAIN w.tiles -> Nat]
    BY DEF IsPartial
  <1>8. Held(r.tiles) = {}
    BY <1>1, <1>6, <1>7, TotalType DEF IsTypes
  <1>9. ~ r.available
    BY <1>1, <1>7, <1>8 DEF IsPartial, Held
  <1> QED
    BY <1>5, <1>8, <1>9 DEF IsWhole, MAX_MELDS, n
LEMMA UpToFive ==
  ASSUME NEW T, 0 \in T, \A k \in 0 .. 4 : k \in T => k + 1 \in T
  PROVE  \A k \in 0 .. 5 : k \in T
  <1>1. 1 \in T
    <2>1. 0 \in T => 0 + 1 \in T
      OBVIOUS
    <2> QED
      BY <2>1
  <1>2. 2 \in T
    <2>1. 1 \in T => 1 + 1 \in T
      OBVIOUS
    <2> QED
      BY <1>1, <2>1
  <1>3. 3 \in T
    <2>1. 2 \in T => 2 + 1 \in T
      OBVIOUS
    <2> QED
      BY <1>2, <2>1
  <1>4. 4 \in T
    <2>1. 3 \in T => 3 + 1 \in T
      OBVIOUS
    <2> QED
      BY <1>3, <2>1
  <1>5. 5 \in T
    <2>1. 4 \in T => 4 + 1 \in T
      OBVIOUS
    <2> QED
      BY <1>4, <2>1
  <1>6. \A k \in 0 .. 5 : k \in {0, 1, 2, 3, 4, 5}
    OBVIOUS
  <1> QED
    BY <1>1, <1>2, <1>3, <1>4, <1>5, <1>6

LEMMA FurtherPartly ==
  ASSUME NEW w, NEW c, NEW k \in 0 .. 4
  PROVE  Partly(w, c)[k + 1] = Further(Partly(w, c)[k], w.type)
  <1>1. k + 1 \in 1 .. MAX_MELDS + 1 /\ (k + 1) - 1 = k
    BY DEF MAX_MELDS
  <1> QED
    BY <1>1, PartlyRule

LEMMA AllPartial ==
  ASSUME NEW w, IsWin(w), NEW c
  PROVE  \A k \in 0 .. 5 : \A r \in Partly(w, c)[k] : IsPartial(r, w, k)
  <1> DEFINE T == {k \in 0 .. 5 : \A r \in Partly(w, c)[k] : IsPartial(r, w, k)}
  <1>1. 0 \in T
    <2>1. \A r \in Partly(w, c)[0] : IsPartial(r, w, 0)
      BY PartlyRule, UndividedIsPartial
    <2> QED
      BY <2>1
  <1>2. ASSUME NEW k \in 0 .. 4, k \in T
        PROVE  k + 1 \in T
    <2>1. ASSUME NEW q \in Partly(w, c)[k + 1]
          PROVE  IsPartial(q, w, k + 1)
      <3>1. q \in Further(Partly(w, c)[k], w.type)
        BY FurtherPartly
      <3>2. PICK r \in Partly(w, c)[k] : q \in Divided(r, w.type)
        BY <3>1 DEF Further
      <3>3. IsPartial(r, w, k) /\ k \in Nat
        BY <1>2
      <3> QED
        BY <3>2, <3>3, PartialStep
    <2>2. k + 1 \in 0 .. 5
      OBVIOUS
    <2> QED
      BY <2>1, <2>2
  <1>3. \A k \in 0 .. 5 : k \in T
    <2> HIDE DEF T
    <2> QED
      BY <1>1, <1>2, UpToFive
  <1> QED
    BY <1>3

LEMMA ReadingExists ==
  ASSUME NEW w, IsWin(w), NEW c, CheckStandard(w.tiles, MAX_MELDS - Len(w.melds))
  PROVE  ReadingsOf(w, c) # {}
  <1> DEFINE Done(k) == \E r \in Partly(w, c)[k] : IsPartial(r, w, k) /\ Completable(r)
             T == {k \in 0 .. 5 : Len(w.melds) + k <= 5 => Done(k)}
             m == Len(w.melds)
  <1>1. m \in 0 .. 4
    BY WinTypes
  <1>2. 0 \in T
    <2>1. Undivided(w, c) \in Partly(w, c)[0] /\ IsPartial(Undivided(w, c), w, 0)
      BY PartlyRule, UndividedIsPartial
    <2>2. /\ Undivided(w, c).tiles = w.tiles /\ Undivided(w, c).pair = NO_PAIR
          /\ Undivided(w, c).groups = Melds(w)
      BY DEF Undivided
    <2>3. Len(Melds(w)) = Len(w.melds)
      <3>1. DOMAIN w.melds = 1 .. Len(w.melds) /\ Len(w.melds) \in Nat
        BY WinTypes
      <3> QED
        BY <3>1 DEF Melds
    <2>4. Completable(Undivided(w, c))
      BY <2>2, <2>3 DEF Completable, IsWin
    <2> QED
      BY <2>1, <2>4
  <1>3. ASSUME NEW k \in 0 .. 4, k \in T
        PROVE  k + 1 \in T
    <2>1. k + 1 \in 0 .. 5 /\ k \in Nat
      OBVIOUS
    <2>2. ASSUME m + (k + 1) <= 5
          PROVE  Done(k + 1)
      <3>1. m + k <= 5 /\ m + k < 5
        <4> HIDE DEF m
        <4> QED
          BY <1>1, <2>2
      <3> HIDE DEF Done
      <3>2. Done(k)
        BY <1>3, <3>1
      <3>3. PICK r \in Partly(w, c)[k] : IsPartial(r, w, k) /\ Completable(r)
        BY <3>2 DEF Done
      <3>4. PICK q \in Divided(r, w.type) : Completable(q)
        BY <2>1, <3>1, <3>3, CompletableStep
      <3>5. q \in Partly(w, c)[k + 1]
        BY <3>3, <3>4, FurtherPartly DEF Further
      <3>6. IsPartial(q, w, k + 1)
        BY <2>1, <3>3, <3>4, PartialStep
      <3> QED
        BY <3>4, <3>5, <3>6 DEF Done
    <2> HIDE DEF Done
    <2> QED
      BY <2>1, <2>2
  <1>4. \A k \in 0 .. 5 : k \in T
    <2> HIDE DEF T
    <2> QED
      BY <1>2, <1>3, UpToFive
  <1> DEFINE k == 5 - m
  <1>5. k \in 0 .. 5 /\ m + k = 5 /\ k \in Nat
    <2> HIDE DEF m
    <2> QED
      BY <1>1
  <1> HIDE DEF k
  <1>6. Done(k)
    BY <1>4, <1>5
  <1>7. PICK r \in Partly(w, c)[k] : IsPartial(r, w, k) /\ Completable(r)
    BY <1>6
  <1>8. IsWhole(r)
    BY <1>5, <1>7, CompletedIsWhole
  <1>9. k = MAX_MELDS + 1 - Len(w.melds)
    BY <1>1 DEF k, MAX_MELDS
  <1>10. ReadingOf(r) \in ReadingsOf(w, c)
    BY <1>7, <1>8, <1>9, ReadingsArePartly
  <1> QED
    BY <1>10

-----------------------------------------------------------------------------
(* Readings are finitely many, of four groups and a pair                    *)

LEMMA WhenFinite ==
  ASSUME NEW condition, NEW x
  PROVE  IsFiniteSet(When(condition, x))
  BY FS_EmptySet, FS_Singleton DEF When

LEMMA CutsFinite ==
  ASSUME NEW r, NEW i
  PROVE  IsFiniteSet(Cuts(r, i))
  <1> DEFINE pair == When(r.pair = NO_PAIR /\ r.tiles[i] >= 2,
                          [kind |-> "PAIR", n |-> 2, types |-> {i}])
             triplet == When(Len(r.groups) < MAX_MELDS /\ r.tiles[i] >= 3,
                             [kind |-> "TRIPLET", n |-> 3, types |-> {i}])
             sequence == When(Len(r.groups) < MAX_MELDS /\ HasSequence(r.tiles, i),
                              [kind |-> "SEQUENCE", n |-> 1, types |-> SequenceFrom(i)])
  <1>1. IsFiniteSet(pair) /\ IsFiniteSet(triplet) /\ IsFiniteSet(sequence)
    BY WhenFinite
  <1>2. Cuts(r, i) = (pair \cup triplet) \cup sequence
    BY DEF Cuts
  <1> HIDE DEF pair, triplet, sequence
  <1>3. IsFiniteSet(pair \cup triplet)
    BY <1>1, FS_Union
  <1>4. IsFiniteSet((pair \cup triplet) \cup sequence)
    BY <1>1, <1>3, FS_Union
  <1> QED
    BY <1>2, <1>4

LEMMA TakesFinite ==
  ASSUME NEW r, NEW cut, NEW type
  PROVE  IsFiniteSet(Takes(r, cut, type))
  <1>1. Takes(r, cut, type) \in SUBSET ({TRUE} \cup {FALSE})
    BY DEF Takes
  <1>2. IsFiniteSet({TRUE} \cup {FALSE})
    BY FS_Singleton, FS_Union
  <1> QED
    BY <1>1, <1>2, FS_Subset

LEMMA DividedFinite ==
  ASSUME NEW r, NEW type
  PROVE  IsFiniteSet(Divided(r, type))
  <1> DEFINE i == Min(Held(r.tiles))
             With(cut) == {After(r, i, cut, wins) : wins \in Takes(r, cut, type)}
             withs == {With(cut) : cut \in Cuts(r, i)}
  <1>1. CASE Held(r.tiles) = {}
    BY <1>1, FS_EmptySet DEF Divided
  <1>2. CASE Held(r.tiles) # {}
    <2>1. ASSUME NEW cut
          PROVE  IsFiniteSet(With(cut))
      <3> DEFINE f == [wins \in Takes(r, cut, type) |-> After(r, i, cut, wins)]
      <3>1. f \in Surjection(Takes(r, cut, type), With(cut))
        BY DEF Surjection
      <3> HIDE DEF f, With
      <3> QED
        BY <3>1, TakesFinite, FS_Surjection
    <2>2. IsFiniteSet(withs)
      <3> DEFINE f == [cut \in Cuts(r, i) |-> With(cut)]
      <3> HIDE DEF With
      <3>1. f \in Surjection(Cuts(r, i), withs)
        BY DEF Surjection
      <3> HIDE DEF f, withs
      <3> QED
        BY <3>1, CutsFinite, FS_Surjection
    <2>3. \A x \in withs : IsFiniteSet(x)
      <3> HIDE DEF With
      <3> QED
        BY <2>1
    <2>4. Divided(r, type) = UNION withs
      BY <1>2 DEF Divided
    <2> HIDE DEF withs
    <2> QED
      BY <2>2, <2>3, <2>4, FS_UNION
  <1> QED
    BY <1>1, <1>2

LEMMA PartlyFinite ==
  ASSUME NEW w, NEW c
  PROVE  \A k \in 0 .. 5 : IsFiniteSet(Partly(w, c)[k])
  <1> DEFINE T == {k \in 0 .. 5 : IsFiniteSet(Partly(w, c)[k])}
  <1>1. 0 \in T
    <2> DEFINE u == Undivided(w, c)
    <2> HIDE DEF u
    <2>1. Partly(w, c)[0] = {u}
      BY PartlyRule DEF u
    <2>2. IsFiniteSet({u})
      BY FS_Singleton
    <2>3. IsFiniteSet(Partly(w, c)[0])
      BY <2>1, <2>2
    <2> QED
      BY <2>3
  <1>2. ASSUME NEW k \in 0 .. 4, k \in T
        PROVE  k + 1 \in T
    <2> DEFINE rs == Partly(w, c)[k]
               divided == {Divided(r, w.type) : r \in rs}
               f == [r \in rs |-> Divided(r, w.type)]
    <2>1. IsFiniteSet(rs)
      BY <1>2
    <2>2. f \in Surjection(rs, divided)
      BY DEF Surjection
    <2>3. \A x \in divided : IsFiniteSet(x)
      BY DividedFinite
    <2>4. Partly(w, c)[k + 1] = UNION divided
      BY FurtherPartly DEF Further
    <2> HIDE DEF rs, divided, f
    <2>5. IsFiniteSet(divided)
      BY <2>1, <2>2, FS_Surjection
    <2>6. IsFiniteSet(UNION divided)
      BY <2>3, <2>5, FS_UNION
    <2>7. k + 1 \in 0 .. 5
      OBVIOUS
    <2> QED
      BY <2>4, <2>6, <2>7
  <1> HIDE DEF T
  <1>3. \A k \in 0 .. 5 : k \in T
    BY <1>1, <1>2, UpToFive
  <1> QED
    BY <1>3 DEF T

LEMMA ReadingsType ==
  ASSUME NEW w, IsWin(w), NEW c
  PROVE  IsFiniteSet(ReadingsOf(w, c)) /\ \A d \in ReadingsOf(w, c) : IsReading(d, w)
  <1> DEFINE k == MAX_MELDS + 1 - Len(w.melds)
             rs == {x \in Partly(w, c)[k] : IsWhole(x)}
             f == [r \in rs |-> ReadingOf(r)]
             m == Len(w.melds)
  <1>1. k \in 0 .. 5
    <2>1. m \in 0 .. 4
      BY WinTypes
    <2> HIDE DEF m
    <2>2. 5 - m \in 0 .. 5
      BY <2>1
    <2> QED
      BY <2>2 DEF m, MAX_MELDS
  <1> HIDE DEF k
  <1>2. IsFiniteSet(rs)
    <2>1. rs \in SUBSET Partly(w, c)[k]
      OBVIOUS
    <2> HIDE DEF rs
    <2> QED
      BY <1>1, <2>1, PartlyFinite, FS_Subset
  <1>3. ReadingsOf(w, c) = {ReadingOf(r) : r \in rs}
    BY ReadingsArePartly DEF k
  <1>4. f \in Surjection(rs, ReadingsOf(w, c))
    <2> HIDE DEF rs
    <2> QED
      BY <1>3 DEF Surjection
  <1>5. IsFiniteSet(ReadingsOf(w, c))
    <2> HIDE DEF f, rs
    <2> QED
      BY <1>2, <1>4, FS_Surjection
  <1>6. ASSUME NEW d \in ReadingsOf(w, c)
        PROVE  IsReading(d, w)
    <2>1. PICK r \in Partly(w, c)[k] : IsWhole(r) /\ d = ReadingOf(r)
      BY <1>3
    <2>2. IsPartial(r, w, k)
      BY <1>1, AllPartial
    <2>3. d.groups = r.groups /\ d.pair = r.pair /\ d.pair_wins = r.pair_wins
      BY <2>1 DEF ReadingOf
    <2>4. r.pair # NO_PAIR /\ Len(r.groups) = 4
      BY <2>1 DEF IsWhole, MAX_MELDS
    <2>5. d.pair \in TileType /\ d.pair_wins \in BOOLEAN /\ d.groups \in Seq(Groups)
      BY <2>2, <2>3, <2>4 DEF IsPartial
    <2>6. \A i \in 1 .. 4 :
            d.groups[i] \in Groups
              /\ (IF i <= Len(w.melds) THEN d.groups[i] = MeldGroup(w.melds[i])
                                       ELSE d.groups[i].kind # "QUAD" /\ ~ d.groups[i].open)
      BY <2>2, <2>3, <2>4 DEF IsPartial
    <2> QED
      BY <2>3, <2>4, <2>5, <2>6 DEF IsReading
  <1> QED
    BY <1>5, <1>6
-----------------------------------------------------------------------------
(* Values are numbers                                                       *)

LEMMA SumNat ==
  ASSUME NEW D, IsFiniteSet(D), NEW f \in [D -> Nat]
  PROVE  SumFunction(f) \in Nat /\ \A x \in D : SumFunction(f) >= f[x]
  <1>1. SumFunction(f) = Sums(f)[D]
    BY SumIsLastSum
  <1> QED
    BY <1>1, SumsNat, SumsAtLeast
LEMMA FiveFinite ==
  ASSUME NEW a, NEW b, NEW c, NEW d, NEW e
  PROVE  IsFiniteSet({a, b, c, d, e})
  <1>1. IsFiniteSet({a}) /\ IsFiniteSet({b}) /\ IsFiniteSet({c}) /\ IsFiniteSet({d}) /\ IsFiniteSet({e})
    BY FS_Singleton
  <1>2. IsFiniteSet({a} \cup {b})
    BY <1>1, FS_Union
  <1>3. IsFiniteSet(({a} \cup {b}) \cup {c})
    BY <1>1, <1>2, FS_Union
  <1>4. IsFiniteSet((({a} \cup {b}) \cup {c}) \cup {d})
    BY <1>1, <1>3, FS_Union
  <1>5. IsFiniteSet(((({a} \cup {b}) \cup {c}) \cup {d}) \cup {e})
    BY <1>1, <1>4, FS_Union
  <1>6. {a, b, c, d, e} = ((({a} \cup {b}) \cup {c}) \cup {d}) \cup {e}
    OBVIOUS
  <1> QED
    BY <1>5, <1>6

LEMMA FiveUnions ==
  ASSUME NEW a, NEW b, NEW c, NEW d, NEW e, IsFiniteSet(a), IsFiniteSet(b),
         IsFiniteSet(c), IsFiniteSet(d), IsFiniteSet(e)
  PROVE  IsFiniteSet((((a \cup b) \cup c) \cup d) \cup e)
  <1>1. IsFiniteSet(a \cup b)
    BY FS_Union
  <1>2. IsFiniteSet((a \cup b) \cup c)
    BY <1>1, FS_Union
  <1>3. IsFiniteSet(((a \cup b) \cup c) \cup d)
    BY <1>2, FS_Union
  <1> QED
    BY <1>3, FS_Union

\* The yaku that count han.
LEMMA HanWorthType ==
  ASSUME NEW w, NEW c, YakuhaiHan(w, c) \in Nat
  PROVE  /\ IsFiniteSet(DOMAIN HanWorth(w, c))
         /\ \A y \in DOMAIN HanWorth(w, c) : HanWorth(w, c)[y] \in Nat
  <1> DEFINE n1 == {"RIICHI", "DOUBLE_RIICHI", "IPPATSU", "MENZEN_TSUMO", "TANYAO"}
             n2 == {"CHIITOI", "TOITOI", "HONROUTOU", "HONITSU", "CHINITSU"}
             n3 == {"PINFU", "IIPEIKOU", "RYANPEIKOU", "SANSHOKU_DOUJUN", "ITTSUU"}
             n4 == {"JUNCHAN", "CHANTA", "SANANKOU", "SHOUSANGEN", "SANKANTSU"}
             n5 == {"SANSHOKU_DOUKOU", "RINSHAN", "HAITEI", "HOUTEI", "CHANKAN"}
             names == ((((n1 \cup n2) \cup n3) \cup n4) \cup n5) \cup {"YAKUHAI"}
  <1>1. DOMAIN HanWorth(w, c) = names
    BY DEF HanWorth
  <1>2. /\ IsFiniteSet(n1) /\ IsFiniteSet(n2) /\ IsFiniteSet(n3) /\ IsFiniteSet(n4)
        /\ IsFiniteSet(n5) /\ IsFiniteSet({"YAKUHAI"})
    BY FiveFinite, FS_Singleton
  <1>3. IsFiniteSet(names)
    <2> HIDE DEF n1, n2, n3, n4, n5
    <2>1. IsFiniteSet((((n1 \cup n2) \cup n3) \cup n4) \cup n5)
      BY <1>2, FiveUnions
    <2> QED
      BY <1>2, <2>1, FS_Union
  <1>4. \A y \in names : HanWorth(w, c)[y] \in Nat
    BY DEF HanWorth
  <1> QED
    BY <1>1, <1>3, <1>4

LEMMA YakumanWorthType ==
  ASSUME NEW r
  PROVE  /\ IsFiniteSet(DOMAIN YakumanWorth(r))
         /\ \A y \in DOMAIN YakumanWorth(r) : YakumanWorth(r)[y] \in Nat \ {0}
  <1> DEFINE n1 == {"KOKUSHI_13", "SUUANKOU_TANKI", "JUNSEI_CHUUREN", "DAISUUSHII", "KOKUSHI"}
             n2 == {"SUUANKOU", "CHUUREN", "DAISANGEN", "SHOUSUUSHII", "TSUUIISOU"}
             n3 == {"RYUUIISOU", "CHINROUTOU", "SUUKANTSU", "TENHOU", "CHIIHOU"}
             names == (n1 \cup n2) \cup n3
  <1>1. DOMAIN YakumanWorth(r) = names
    BY DEF YakumanWorth
  <1>2. IsFiniteSet(n1) /\ IsFiniteSet(n2) /\ IsFiniteSet(n3)
    BY FiveFinite
  <1>3. IsFiniteSet(names)
    <2> HIDE DEF n1, n2, n3
    <2>1. IsFiniteSet(n1 \cup n2)
      BY <1>2, FS_Union
    <2> QED
      BY <1>2, <2>1, FS_Union
  <1>4. \A y \in names : YakumanWorth(r)[y] \in Nat \ {0}
    BY DEF YakumanWorth, Double
  <1> QED
    BY <1>1, <1>3, <1>4

\* Yaku are worth what each is, together.
LEMMA ValuedType ==
  ASSUME NEW worth, IsFiniteSet(DOMAIN worth), \A y \in DOMAIN worth : worth[y] \in Nat,
         NEW yaku
  PROVE  /\ Valued(yaku, worth) \in Nat
         /\ \A y \in yaku \cap DOMAIN worth :
              /\ Valued(yaku, worth) >= worth[y]
              /\ \A z \in yaku \cap DOMAIN worth :
                   y # z => Valued(yaku, worth) >= worth[y] + worth[z]
  <1> DEFINE names == yaku \cap DOMAIN worth
             f == [y \in names |-> worth[y]]
  <1>1. IsFiniteSet(names)
    BY FS_Subset
  <1>2. f \in [names -> Nat] /\ f \in [names -> Int] /\ \A y \in names : f[y] = worth[y]
    OBVIOUS
  <1>3. Valued(yaku, worth) = SumFunction(f)
    BY DEF Valued
  <1>4. SumFunction(f) = Sums(f)[names]
    BY SumIsLastSum
  <1> HIDE DEF names, f
  <1>5. SumFunction(f) \in Nat /\ \A y \in names : SumFunction(f) >= f[y]
    BY <1>1, <1>2, SumNat
  <1>6. ASSUME NEW y \in names, NEW z \in names, y # z
        PROVE  SumFunction(f) >= f[y] + f[z]
    <2>1. Sums(f)[names] = f[y] + Sums(f)[names \ {y}]
      BY <1>1, <1>2, SumsRemove
    <2>2. Sums(f)[names \ {y}] >= f[z] /\ Sums(f)[names \ {y}] \in Nat
      <3>1. z \in names \ {y} /\ names \ {y} \in SUBSET names
        BY <1>6
      <3> QED
        BY <1>1, <1>2, <3>1, SumsAtLeast, SumsNat
    <2>3. f[y] \in Nat /\ f[z] \in Nat
      BY <1>2
    <2> QED
      BY <1>4, <2>1, <2>2, <2>3
  <1>7. \A y \in names : worth[y] = f[y]
    BY <1>2
  <1> QED
    BY <1>3, <1>5, <1>6, <1>7 DEF names
LEMMA ContextType ==
  ASSUME NEW w, IsWin(w)
  PROVE  /\ DeclaredContext(w).win \in {"TSUMO", "RON"}
         /\ DeclaredContext(w).total = TotalCounts(w)
  <1>1. DetectWin(w, Declaring(w)) = HowDeclared(w)
    BY DetectDeclared DEF IsWin
  <1>2. DeclaredContext(w) = Context(w, Declaring(w))
    BY DEF DeclaredContext, Declaring
  <1>3. HowDeclared(w) \in {"TSUMO", "RON", "CHANKAN"}
    BY DEF HowDeclared
  <1> QED
    BY <1>1, <1>2, <1>3 DEF Context

LEMMA GroupCountType ==
  ASSUME NEW g, g.kind \in {"SEQUENCE", "TRIPLET", "QUAD"}, NEW t
  PROVE  GroupCount(g, t) \in Nat
  BY DEF GroupCount

\* How many tiles of a type the melds have.
MeldCounts(w, t) == [i \in DOMAIN w.melds |-> GroupCount(Melds(w)[i], t)]

LEMMA MeldCountsType ==
  ASSUME NEW w, IsWin(w), NEW t
  PROVE  IsFiniteSet(DOMAIN w.melds) /\ MeldCounts(w, t) \in [DOMAIN w.melds -> Nat]
  <1>1. /\ Len(w.melds) \in 0 .. 4 /\ DOMAIN w.melds = 1 .. Len(w.melds)
        /\ \A i \in 1 .. Len(w.melds) : MeldGroup(w.melds[i]) \in Groups
    BY WinTypes, MeldGroupType
  <1>2. IsFiniteSet(DOMAIN w.melds)
    <2> DEFINE m == Len(w.melds)
    <2> HIDE DEF m
    <2>1. m \in Int /\ 1 \in Int
      BY <1>1 DEF m
    <2>2. IsFiniteSet(1 .. m)
      BY <2>1, FS_Interval
    <2> QED
      BY <1>1, <2>2 DEF m
  <1>3. ASSUME NEW i \in DOMAIN w.melds
        PROVE  GroupCount(Melds(w)[i], t) \in Nat
    <2>1. Melds(w)[i] = MeldGroup(w.melds[i])
      BY DEF Melds
    <2>2. Melds(w)[i].kind \in {"SEQUENCE", "TRIPLET", "QUAD"}
      BY <1>1, <2>1 DEF Groups
    <2> QED
      BY <2>2, GroupCountType
  <1> QED
    BY <1>2, <1>3 DEF MeldCounts

LEMMA TotalCountsType ==
  ASSUME NEW w, IsWin(w), NEW t \in AllTypes(w)
  PROVE  TotalCounts(w)[t] \in Nat
  <1> DEFINE held == IF t \in DOMAIN w.tiles THEN w.tiles[t] ELSE 0
             melded == SumFunction(MeldCounts(w, t))
  <1>1. held \in Nat
    BY WinTypes
  <1>2. melded \in Nat
    BY MeldCountsType, SumNat
  <1>3. TotalCounts(w)[t] = held + melded
    BY DEF TotalCounts, MeldCounts
  <1> HIDE DEF held, melded
  <1> QED
    BY <1>1, <1>2, <1>3

LEMMA TotalOfType ==
  ASSUME NEW w, IsWin(w), NEW c, c.total = TotalCounts(w), NEW t
  PROVE  TotalOf(c, t) \in Nat
  <1>1. DOMAIN TotalCounts(w) = AllTypes(w)
    BY DEF TotalCounts
  <1>2. CASE t \in DOMAIN c.total
    BY <1>1, <1>2, TotalCountsType DEF TotalOf
  <1>3. CASE t \notin DOMAIN c.total
    BY <1>3 DEF TotalOf
  <1> QED
    BY <1>2, <1>3

LEMMA TripletsInType ==
  ASSUME NEW c, NEW types, IsFiniteSet(types)
  PROVE  TripletsIn(c, types) \in Nat
  <1>1. IsFiniteSet({t \in types : TotalOf(c, t) >= 3})
    <2>1. {t \in types : TotalOf(c, t) >= 3} \in SUBSET types
      OBVIOUS
    <2> QED
      BY <2>1, FS_Subset
  <1> QED
    BY <1>1, FS_CardinalityType DEF TripletsIn

LEMMA IndicatedType ==
  ASSUME NEW w, IsWin(w), NEW c, c.total = TotalCounts(w), NEW types \in Seq(TileType)
  PROVE  Indicated(c, types) \in Nat
  <1> DEFINE f == [i \in DOMAIN types |-> TotalOf(c, types[i])]
  <1>1. IsFiniteSet(DOMAIN types)
    <2>1. DOMAIN types = 1 .. Len(types) /\ Len(types) \in Int /\ 1 \in Int
      OBVIOUS
    <2>2. IsFiniteSet(1 .. Len(types))
      BY <2>1, FS_Interval
    <2> QED
      BY <2>1, <2>2
  <1>2. f \in [DOMAIN types -> Nat]
    BY TotalOfType
  <1>3. Indicated(c, types) = SumFunction(f)
    BY DEF Indicated
  <1> HIDE DEF f
  <1> QED
    BY <1>1, <1>2, <1>3, SumNat

LEMMA YakuhaiType ==
  ASSUME NEW w, NEW c
  PROVE  YakuhaiHan(w, c) \in Nat
  <1>1. IsFiniteSet(Dragons) /\ IsFiniteSet({w.seat_wind}) /\ IsFiniteSet({w.round_wind})
    <2>1. HAKU \in Int /\ CHUN \in Int
      BY DEF HAKU, CHUN
    <2> QED
      BY <2>1, FS_Interval, FS_Singleton DEF Dragons
  <1>2. /\ TripletsIn(c, Dragons) \in Nat /\ TripletsIn(c, {w.seat_wind}) \in Nat
        /\ TripletsIn(c, {w.round_wind}) \in Nat
    BY <1>1, TripletsInType
  <1> QED
    BY <1>2 DEF YakuhaiHan

\* The han of a hand, and that each yaku counts.
LEMMA HanType ==
  ASSUME NEW w, IsWin(w), NEW c, c.total = TotalCounts(w), NEW yaku
  PROVE  /\ Han(w, c, yaku) \in Nat
         /\ Han(w, c, yaku)
              >= Valued(yaku \ When("DOUBLE_RIICHI" \in yaku, "RIICHI"), HanWorth(w, c))
  <1> DEFINE counted == yaku \ When("DOUBLE_RIICHI" \in yaku, "RIICHI")
             valued == Valued(counted, HanWorth(w, c))
             dora == Indicated(c, w.dora)
             ura == Indicated(c, w.ura)
             aka == w.aka
             han == Han(w, c, yaku)
  <1>1. valued \in Nat
    BY YakuhaiType, HanWorthType, ValuedType
  <1>2. dora \in Nat /\ ura \in Nat /\ aka \in Nat
    <2>1. w.dora \in Seq(TileType) /\ w.ura \in Seq(TileType) /\ w.aka \in Nat
      BY DEF IsWin
    <2> QED
      BY <2>1, IndicatedType
  <1>3. han = valued + dora + aka + (IF w.riichi THEN ura ELSE 0)
    BY DEF Han
  <1> HIDE DEF valued, dora, ura, aka, han
  <1>4. han \in Nat /\ han >= valued
    BY <1>1, <1>2, <1>3
  <1> QED
    BY <1>4 DEF han, valued

LEMMA YakumanType ==
  ASSUME NEW r, NEW yaku
  PROVE  Yakuman(yaku, r) \in Nat
  BY YakumanWorthType, ValuedType DEF Yakuman
-----------------------------------------------------------------------------
(* Fu                                                                       *)

\* One of four, after the other.
LEMMA SumOfFour ==
  ASSUME NEW f \in [1 .. 4 -> Int]
  PROVE  SumFunction(f) = f[1] + f[2] + f[3] + f[4]
  <1>1. IsFiniteSet(1 .. 4)
    <2>1. 1 \in Int /\ 4 \in Int
      OBVIOUS
    <2> QED
      BY <2>1, FS_Interval
  <1>2. SumFunction(f) = Sums(f)[1 .. 4]
    BY SumIsLastSum
  <1>3. Sums(f)[1 .. 4] = f[1] + Sums(f)[2 .. 4]
    <2>1. 1 .. 4 \in SUBSET (1 .. 4) /\ 1 \in 1 .. 4 /\ (1 .. 4) \ {1} = 2 .. 4
      OBVIOUS
    <2> QED
      BY <1>1, <2>1, SumsRemove
  <1>4. Sums(f)[2 .. 4] = f[2] + Sums(f)[3 .. 4]
    <2>1. 2 .. 4 \in SUBSET (1 .. 4) /\ 2 \in 2 .. 4 /\ (2 .. 4) \ {2} = 3 .. 4
      OBVIOUS
    <2> QED
      BY <1>1, <2>1, SumsRemove
  <1>5. Sums(f)[3 .. 4] = f[3] + Sums(f)[{4}]
    <2>1. 3 .. 4 \in SUBSET (1 .. 4) /\ 3 \in 3 .. 4 /\ (3 .. 4) \ {3} = {4}
      OBVIOUS
    <2> QED
      BY <1>1, <2>1, SumsRemove
  <1>6. Sums(f)[{4}] = f[4] + Sums(f)[{}]
    <2>1. {4} \in SUBSET (1 .. 4) /\ 4 \in {4} /\ {4} \ {4} = {}
      OBVIOUS
    <2> QED
      BY <1>1, <2>1, SumsRemove
  <1>7. Sums(f)[{}] = 0
    <2>1. {} \in SUBSET DOMAIN f /\ IsFiniteSet(DOMAIN f)
      BY <1>1
    <2> QED
      BY <2>1, SumsRule
  <1>8. f[1] \in Int /\ f[2] \in Int /\ f[3] \in Int /\ f[4] \in Int
    OBVIOUS
  <1> QED
    BY <1>2, <1>3, <1>4, <1>5, <1>6, <1>7, <1>8

LEMMA OneMore ==
  ASSUME NEW s, NEW x, IsFiniteSet(s), x \notin s, NEW t, t \in {s, s \cup {x}}
  PROVE  IsFiniteSet(t) /\ Cardinality(t) = Cardinality(s) + One(x \in t)
  <1>1. Cardinality(s) \in Nat /\ IsFiniteSet(s \cup {x})
        /\ Cardinality(s \cup {x}) = Cardinality(s) + 1
    BY FS_CardinalityType, FS_AddElement
  <1>2. CASE t = s
    BY <1>1, <1>2 DEF One
  <1>3. CASE t = s \cup {x}
    BY <1>1, <1>3 DEF One
  <1> QED
    BY <1>2, <1>3

\* How many of four.
LEMMA CardinalityOfFour ==
  ASSUME NEW s \in SUBSET (1 .. 4)
  PROVE  Cardinality(s) = One(1 \in s) + One(2 \in s) + One(3 \in s) + One(4 \in s)
  <1> DEFINE e == {}
             s1 == s \cap {1}
             s2 == s \cap {1, 2}
             s3 == s \cap {1, 2, 3}
  <1>0. \A x \in s : x \in {1, 2, 3, 4}
    OBVIOUS
  <1>1. /\ s1 \in {e, e \cup {1}} /\ s2 \in {s1, s1 \cup {2}}
        /\ s3 \in {s2, s2 \cup {3}} /\ s \in {s3, s3 \cup {4}}
    <2>1. s1 = e \/ s1 = e \cup {1}
      OBVIOUS
    <2>2. s2 = s1 \/ s2 = s1 \cup {2}
      OBVIOUS
    <2>3. s3 = s2 \/ s3 = s2 \cup {3}
      OBVIOUS
    <2>4. s = s3 \/ s = s3 \cup {4}
      BY <1>0
    <2> HIDE DEF e, s1, s2, s3
    <2> QED
      BY <2>1, <2>2, <2>3, <2>4
  <1>2. /\ 1 \notin e /\ 2 \notin s1 /\ 3 \notin s2 /\ 4 \notin s3
        /\ 1 \in s1 <=> 1 \in s
        /\ 2 \in s2 <=> 2 \in s
        /\ 3 \in s3 <=> 3 \in s
    OBVIOUS
  <1>3. IsFiniteSet(e) /\ Cardinality(e) = 0
    BY FS_EmptySet
  <1> HIDE DEF e, s1, s2, s3
  <1>4. IsFiniteSet(s1) /\ Cardinality(s1) = Cardinality(e) + One(1 \in s1)
    BY <1>1, <1>2, <1>3, OneMore
  <1>5. IsFiniteSet(s2) /\ Cardinality(s2) = Cardinality(s1) + One(2 \in s2)
    BY <1>1, <1>2, <1>4, OneMore
  <1>6. IsFiniteSet(s3) /\ Cardinality(s3) = Cardinality(s2) + One(3 \in s3)
    BY <1>1, <1>2, <1>5, OneMore
  <1>7. Cardinality(s) = Cardinality(s3) + One(4 \in s)
    BY <1>1, <1>2, <1>6, OneMore
  <1>8. \A condition : One(condition) \in {0, 1}
    BY DEF One
  <1>9. One(1 \in s1) = One(1 \in s) /\ One(2 \in s2) = One(2 \in s) /\ One(3 \in s3) = One(3 \in s)
    BY <1>2 DEF One
  <1> QED
    BY <1>3, <1>4, <1>5, <1>6, <1>7, <1>8, <1>9

LEMMA GroupFuType ==
  ASSUME NEW g, g \in Groups, NEW c
  PROVE  /\ GroupFu(g, c) \in Nat /\ GroupFu(g, c) <= 32
         /\ g.kind # "QUAD" => GroupFu(g, c) <= 8
         /\ g.kind = "QUAD" /\ ~ IsConcealedTriplet(g, c) => GroupFu(g, c) <= 16
         /\ g.kind # "QUAD" /\ ~ IsConcealedTriplet(g, c) => GroupFu(g, c) <= 4
  BY DEF GroupFu, Groups, IsConcealedTriplet, IsSequence

GroupFus(c, d) == [i \in DOMAIN d.groups |-> GroupFu(d.groups[i], c)]

\* The fu of the groups.
ShapeFu(c, d) == IF d = NO_READING THEN 0 ELSE SumFunction(GroupFus(c, d))

LEMMA ReadingHasGroups ==
  ASSUME NEW d, NEW w, IsReading(d, w)
  PROVE  d # NO_READING /\ DOMAIN d.groups = 1 .. 4
  <1>1. d.groups \in Seq(Groups) /\ Len(d.groups) = 4
    BY DEF IsReading
  <1>2. NO_READING.groups = <<>>
    BY DEF NO_READING
  <1>3. d.groups # <<>>
    BY <1>1
  <1>4. d # NO_READING
    BY <1>2, <1>3
  <1>5. DOMAIN d.groups = 1 .. Len(d.groups)
    BY <1>1, SeqFacts
  <1> QED
    BY <1>1, <1>4, <1>5

LEMMA ShapeFuIs ==
  ASSUME NEW d, NEW w, IsReading(d, w), NEW c
  PROVE  /\ ShapeFu(c, d) \in Nat
         /\ ShapeFu(c, d) = GroupFu(d.groups[1], c) + GroupFu(d.groups[2], c)
                              + GroupFu(d.groups[3], c) + GroupFu(d.groups[4], c)
  <1> DEFINE f == GroupFus(c, d)
  <1>1. d # NO_READING /\ DOMAIN d.groups = 1 .. 4
    BY ReadingHasGroups
  <1>2. \A i \in 1 .. 4 : GroupFu(d.groups[i], c) \in Nat
    BY GroupFuType DEF IsReading
  <1>3. /\ f \in [1 .. 4 -> Nat] /\ f \in [1 .. 4 -> Int]
        /\ \A i \in 1 .. 4 : f[i] = GroupFu(d.groups[i], c)
    BY <1>1, <1>2 DEF GroupFus
  <1>4. ShapeFu(c, d) = SumFunction(f)
    BY <1>1 DEF ShapeFu
  <1> HIDE DEF f
  <1>5. SumFunction(f) = f[1] + f[2] + f[3] + f[4]
    BY <1>3, SumOfFour
  <1>6. f[1] \in Nat /\ f[2] \in Nat /\ f[3] \in Nat /\ f[4] \in Nat
    BY <1>3
  <1> QED
    BY <1>3, <1>4, <1>5, <1>6

LEMMA PairFuType ==
  ASSUME NEW w, w.seat_wind \in Winds, w.round_wind \in Winds, NEW t
  PROVE  PairFu(w, t) \in Nat /\ PairFu(w, t) <= 4
  <1>1. \A wind \in Winds : wind \notin Dragons
    BY DEF Winds, Dragons, EAST, NORTH, HAKU, CHUN
  <1>2. /\ One(t \in Dragons) \in {0, 1} /\ One(t = w.seat_wind) \in {0, 1}
        /\ One(t = w.round_wind) \in {0, 1}
        /\ One(t \in Dragons) = 1 => One(t = w.seat_wind) = 0 /\ One(t = w.round_wind) = 0
    BY <1>1 DEF One
  <1> QED
    BY <1>2 DEF PairFu

\* A multiple of ten not far above what the groups are worth, or 25.
LEMMA FuType ==
  ASSUME NEW w, IsWin(w), NEW c, c.win \in {"TSUMO", "RON"}, NEW yaku,
         NEW d, d = NO_READING \/ IsReading(d, w)
  PROVE  /\ ShapeFu(c, d) \in Nat
         /\ \/ Fu(w, c, d, yaku) = 25
            \/ \E n \in Nat : Fu(w, c, d, yaku) = 10 * n
         /\ Fu(w, c, d, yaku) <= 45 + ShapeFu(c, d)
  <1> DEFINE groups == ShapeFu(c, d)
             pinfu == "PINFU" \in yaku
             shape == IF d = NO_READING
                        THEN 0
                        ELSE PairFu(w, d.pair) + (IF pinfu THEN 0 ELSE WaitFu(w, d))
                               + SumFunction([i \in DOMAIN d.groups |-> GroupFu(d.groups[i], c)])
             raw == 20 + (IF c.win = "RON" /\ IsClosed(w) THEN 10 ELSE 0)
                      + (IF c.win = "TSUMO" THEN 2 ELSE 0) + shape
             fu == Fu(w, c, d, yaku)
  <1>1. groups \in Nat
    BY ShapeFuIs DEF ShapeFu
  <1>2. shape \in Nat /\ shape <= 6 + groups
    <2>1. CASE d = NO_READING
      BY <1>1, <2>1
    <2>2. CASE d # NO_READING
      <3>1. PairFu(w, d.pair) \in Nat /\ PairFu(w, d.pair) <= 4
        BY PairFuType DEF IsWin
      <3>2. WaitFu(w, d) \in {0, 2}
        BY DEF WaitFu
      <3>3. SumFunction([i \in DOMAIN d.groups |-> GroupFu(d.groups[i], c)]) = groups
        BY <2>2 DEF ShapeFu, GroupFus
      <3> HIDE DEF groups
      <3> QED
        BY <1>1, <2>2, <3>1, <3>2, <3>3
    <2> QED
      BY <2>1, <2>2
  <1>3. fu = CASE "CHIITOI" \in yaku -> 25
               [] "CHIITOI" \notin yaku /\ pinfu /\ c.win = "TSUMO" -> 20
               [] OTHER -> IF raw = 20 /\ c.win = "RON" THEN 30 ELSE RoundUp10(raw)
    BY DEF Fu
  <1> HIDE DEF groups, shape, fu
  <1>4. raw \in Nat /\ raw <= 36 + groups
    BY <1>1, <1>2
  <1> HIDE DEF raw
  <1>5. fu \in {25, 20, 30} \/ fu = RoundUp10(raw)
    BY <1>3
  <1>6. /\ \E n \in Nat : RoundUp10(raw) = 10 * n
        /\ RoundUp10(raw) <= 45 + groups
    <2>1. (raw + 9) \div 10 \in Nat /\ ((raw + 9) \div 10) * 10 <= raw + 9
      BY <1>4
    <2> DEFINE n == (raw + 9) \div 10
    <2>2. RoundUp10(raw) = n * 10
      BY DEF RoundUp10
    <2> HIDE DEF n
    <2>3. n \in Nat /\ n * 10 <= raw + 9
      BY <2>1 DEF n
    <2>4. RoundUp10(raw) = 10 * n
      BY <2>2, <2>3
    <2> QED
      BY <1>1, <1>4, <2>2, <2>3, <2>4
  <1>7. fu = 25 \/ \E n \in Nat : fu = 10 * n
    <2>1. 20 = 10 * 2 /\ 30 = 10 * 3
      OBVIOUS
    <2> QED
      BY <1>5, <1>6, <2>1
  <1>8. fu <= 45 + groups
    BY <1>1, <1>5, <1>6
  <1> QED
    BY <1>1, <1>7, <1>8 DEF fu, groups
-----------------------------------------------------------------------------
(* Points                                                                   *)

LEMMA PowerIs ==
  /\ 2 ^ 2 = 4 /\ 2 ^ 3 = 8 /\ 2 ^ 4 = 16 /\ 2 ^ 5 = 32 /\ 2 ^ 6 = 64 /\ 2 ^ 7 = 128
  OBVIOUS

\* Basic points of fu and han below a mangan.
LEMMA PowerTimes ==
  ASSUME NEW fu \in Nat, NEW han \in 0 .. 5
  PROVE  /\ fu * 2 ^ (han + 2) \in Nat
         /\ han = 0 => fu * 2 ^ (han + 2) = 4 * fu
         /\ han = 1 => fu * 2 ^ (han + 2) = 8 * fu
         /\ han = 2 => fu * 2 ^ (han + 2) = 16 * fu
         /\ han = 3 => fu * 2 ^ (han + 2) = 32 * fu
         /\ han = 4 => fu * 2 ^ (han + 2) = 64 * fu
  <1>1. CASE han = 0
    <2>1. 2 ^ (han + 2) = 4
      BY <1>1, PowerIs
    <2> QED
      BY <1>1, <2>1
  <1>2. CASE han = 1
    <2>1. 2 ^ (han + 2) = 8
      BY <1>2, PowerIs
    <2> QED
      BY <1>2, <2>1
  <1>3. CASE han = 2
    <2>1. 2 ^ (han + 2) = 16
      BY <1>3, PowerIs
    <2> QED
      BY <1>3, <2>1
  <1>4. CASE han = 3
    <2>1. 2 ^ (han + 2) = 32
      BY <1>4, PowerIs
    <2> QED
      BY <1>4, <2>1
  <1>5. CASE han = 4
    <2>1. 2 ^ (han + 2) = 64
      BY <1>5, PowerIs
    <2> QED
      BY <1>5, <2>1
  <1>6. CASE han = 5
    <2>1. 2 ^ (han + 2) = 128
      BY <1>6, PowerIs
    <2> QED
      BY <1>6, <2>1
  <1> QED
    BY <1>1, <1>2, <1>3, <1>4, <1>5, <1>6

LEMMA BasicPointsType ==
  ASSUME NEW h, h.han \in Nat, h.fu \in Nat, h.yakuman \in Nat,
         NEW r, r.kazoe_yakuman \in BOOLEAN
  PROVE  BasicPoints(h, r) \in Nat /\ YakumanCount(h, r) \in Nat
  <1>1. YakumanCount(h, r) \in Nat
    BY DEF YakumanCount
  <1>2. CASE YakumanCount(h, r) > 0
    <2>1. 8000 * YakumanCount(h, r) \in Nat
      BY <1>1
    <2>2. h.yakuman = 0 => h.han >= 13 /\ r.kazoe_yakuman
      BY <1>2 DEF YakumanCount
    <2> QED
      BY <1>1, <1>2, <2>1, <2>2 DEF BasicPoints
  <1>3. CASE YakumanCount(h, r) = 0 /\ h.han > 5
    BY <1>1, <1>3 DEF BasicPoints, YakumanCount
  <1>4. CASE YakumanCount(h, r) = 0 /\ h.han <= 5
    <2>1. h.yakuman = 0
      BY <1>4 DEF YakumanCount
    <2>2. h.fu * 2 ^ (h.han + 2) \in Nat
      <3> DEFINE fu == h.fu
                 han == h.han
      <3>1. fu \in Nat /\ han \in 0 .. 5
        BY <1>4
      <3> HIDE DEF fu, han
      <3>2. fu * 2 ^ (han + 2) \in Nat
        BY <3>1, PowerTimes
      <3> QED
        BY <3>2 DEF fu, han
    <2> QED
      BY <1>4, <2>1, <2>2 DEF BasicPoints
  <1> QED
    BY <1>1, <1>2, <1>3, <1>4

LEMMA RoundedType ==
  ASSUME NEW x \in Nat
  PROVE  RoundUp100(x) \in Nat
  BY DEF RoundUp100

\* The han, fu and yakuman of a reading with these yaku.
HandOf(w, r, c, d, yaku) ==
  [yakuman |-> Yakuman(yaku, r),
   han     |-> IF Yakuman(yaku, r) = 0 THEN Han(w, c, yaku) ELSE 0,
   fu      |-> Fu(w, c, d, yaku)]

\* What it earns with these basic points.
Value(w, c, base) ==
  LET tsumo   == c.win = "TSUMO"
      dealer  == IF tsumo THEN TsumoDealerPayment(base, w.dealer) ELSE 0
      others  == IF tsumo THEN TsumoNonDealerPayment(base, w.dealer) ELSE 0
      ron     == IF tsumo THEN 0 ELSE RonPoints(base, w.dealer)
  IN CASE ~ tsumo -> ron
       [] tsumo /\ w.dealer -> 3 * others
       [] tsumo /\ ~ w.dealer -> dealer + 2 * others

LEMMA ScoredIs ==
  ASSUME NEW w, NEW r, NEW c, NEW d, NEW yaku
  PROVE  /\ Scored(w, r, c, d, yaku).han = HandOf(w, r, c, d, yaku).han
         /\ Scored(w, r, c, d, yaku).fu = HandOf(w, r, c, d, yaku).fu
         /\ Scored(w, r, c, d, yaku).yakuman = YakumanCount(HandOf(w, r, c, d, yaku), r)
         /\ Scored(w, r, c, d, yaku).value
              = Value(w, c, BasicPoints(HandOf(w, r, c, d, yaku), r))
         /\ Scored(w, r, c, d, yaku) # NO_SCORE
  <1> DEFINE h == HandOf(w, r, c, d, yaku)
             base == BasicPoints(h, r)
             tsumo == c.win = "TSUMO"
             dealer == IF tsumo THEN TsumoDealerPayment(base, w.dealer) ELSE 0
             others == IF tsumo THEN TsumoNonDealerPayment(base, w.dealer) ELSE 0
             ron == IF tsumo THEN 0 ELSE RonPoints(base, w.dealer)
             s == Scored(w, r, c, d, yaku)
  <1>1. s = [han |-> h.han, fu |-> h.fu, yakuman |-> YakumanCount(h, r),
             ron_points |-> ron, tsumo_dealer_payment |-> dealer,
             tsumo_non_dealer_payment |-> others,
             value |-> CASE ~ tsumo -> ron
                         [] tsumo /\ w.dealer -> 3 * others
                         [] tsumo /\ ~ w.dealer -> dealer + 2 * others]
    BY DEF Scored, HandOf
  <1>2. Value(w, c, base) = CASE ~ tsumo -> ron
                              [] tsumo /\ w.dealer -> 3 * others
                              [] tsumo /\ ~ w.dealer -> dealer + 2 * others
    BY DEF Value
  <1> HIDE DEF h, base, ron, dealer, others, s
  <1>3. /\ s.han = h.han /\ s.fu = h.fu /\ s.yakuman = YakumanCount(h, r)
        /\ s.value = Value(w, c, base)
    BY <1>1, <1>2
  <1>4. s # NO_SCORE
    <2>1. "han" \in DOMAIN s /\ "han" \notin DOMAIN NO_SCORE
      BY <1>1 DEF NO_SCORE
    <2> QED
      BY <2>1
  <1> QED
    BY <1>3, <1>4 DEF s, h, base

LEMMA ValueType ==
  ASSUME NEW w, w.dealer \in BOOLEAN, NEW c, NEW base \in Nat
  PROVE  /\ Value(w, c, base) \in Nat
         /\ base <= 2000 => Value(w, c, base) <= (IF w.dealer THEN 12000 ELSE 8000)
  <1>1. /\ RoundUp100(base * 6) \in Nat /\ RoundUp100(base * 4) \in Nat
        /\ RoundUp100(base * 2) \in Nat /\ RoundUp100(base) \in Nat
    BY RoundedType
  <1>2. base <= 2000 => /\ RoundUp100(base * 6) <= 12000 /\ RoundUp100(base * 4) <= 8000
                        /\ RoundUp100(base * 2) <= 4000 /\ RoundUp100(base) <= 2000
    BY DEF RoundUp100
  <1>3. CASE c.win = "TSUMO" /\ w.dealer
    <2>1. Value(w, c, base) = 3 * RoundUp100(base * 2)
      BY <1>3 DEF Value, TsumoNonDealerPayment
    <2> QED
      BY <1>1, <1>2, <1>3, <2>1
  <1>4. CASE c.win = "TSUMO" /\ ~ w.dealer
    <2>1. Value(w, c, base) = RoundUp100(base * 2) + 2 * RoundUp100(base)
      BY <1>4 DEF Value, TsumoNonDealerPayment, TsumoDealerPayment
    <2> QED
      BY <1>1, <1>2, <1>4, <2>1
  <1>5. CASE c.win # "TSUMO" /\ w.dealer
    <2>1. Value(w, c, base) = RoundUp100(base * 6)
      BY <1>5 DEF Value, RonPoints
    <2> QED
      BY <1>1, <1>2, <1>5, <2>1
  <1>6. CASE c.win # "TSUMO" /\ ~ w.dealer
    <2>1. Value(w, c, base) = RoundUp100(base * 4)
      BY <1>6 DEF Value, RonPoints
    <2> QED
      BY <1>1, <1>2, <1>6, <2>1
  <1> QED
    BY <1>3, <1>4, <1>5, <1>6

LEMMA HandType ==
  ASSUME NEW w, IsWin(w), NEW c, c.win \in {"TSUMO", "RON"}, c.total = TotalCounts(w),
         NEW d, d = NO_READING \/ IsReading(d, w), NEW yaku, NEW r
  PROVE  /\ HandOf(w, r, c, d, yaku).han \in Nat /\ HandOf(w, r, c, d, yaku).fu \in Nat
         /\ HandOf(w, r, c, d, yaku).yakuman \in Nat
  <1>1. Yakuman(yaku, r) \in Nat /\ Han(w, c, yaku) \in Nat
    BY YakumanType, HanType
  <1>2. Fu(w, c, d, yaku) \in Nat
    <2>1. \/ Fu(w, c, d, yaku) = 25
          \/ \E n \in Nat : Fu(w, c, d, yaku) = 10 * n
      BY FuType
    <2> QED
      BY <2>1
  <1> QED
    BY <1>1, <1>2 DEF HandOf

\* What two scores are compared by.
HasRank(s) == s.value \in Int /\ s.han \in Int /\ s.fu \in Int

LEMMA ScoredHasRank ==
  ASSUME NEW w, IsWin(w), NEW c, c.win \in {"TSUMO", "RON"}, c.total = TotalCounts(w),
         NEW d, d = NO_READING \/ IsReading(d, w), NEW yaku,
         NEW r, r.kazoe_yakuman \in BOOLEAN
  PROVE  HasRank(Scored(w, r, c, d, yaku))
  <1> DEFINE h == HandOf(w, r, c, d, yaku)
             base == BasicPoints(h, r)
  <1>1. h.han \in Nat /\ h.fu \in Nat /\ h.yakuman \in Nat
    BY HandType
  <1>2. /\ Scored(w, r, c, d, yaku).han = h.han
        /\ Scored(w, r, c, d, yaku).fu = h.fu
        /\ Scored(w, r, c, d, yaku).value = Value(w, c, base)
    BY ScoredIs
  <1> HIDE DEF h
  <1>3. base \in Nat
    BY <1>1, BasicPointsType
  <1> HIDE DEF base
  <1>4. Value(w, c, base) \in Nat
    BY <1>3, ValueType DEF IsWin
  <1> QED
    BY <1>1, <1>2, <1>4 DEF HasRank
-----------------------------------------------------------------------------
(* The best score                                                           *)

LEMMA BestExists ==
  ASSUME NEW S, IsFiniteSet(S), S # {}, \A s \in S : HasRank(s)
  PROVE  BestOf(S) \in S /\ \A t \in S : ~ Better(t, BestOf(S))
  <1> DEFINE Best(s, T) == s \in T /\ \A t \in T : ~ Better(t, s)
             B == {T \in SUBSET S : T # {} /\ ~ \E s \in T : Best(s, T)}
  <1>1. B = {}
    <2> SUFFICES ASSUME B # {}
                 PROVE  FALSE
      OBVIOUS
    <2>1. PICK T \in B : \A U \in B : Cardinality(T) <= Cardinality(U)
      BY SmallestSet, FS_Subset
    <2>2. PICK x : x \in T
      BY <2>1
    <2>3. T \ {x} \in SUBSET S /\ ~ (Cardinality(T) <= Cardinality(T \ {x}))
      <3>1. T \in SUBSET S
        BY <2>1
      <3>2. /\ T \ {x} \in SUBSET S /\ Cardinality(T) \in Nat
            /\ Cardinality(T \ {x}) = Cardinality(T) - 1
        BY <2>2, <3>1, OneLess
      <3> HIDE DEF B
      <3> QED
        BY <3>2
    <2>4. T \ {x} \notin B
      BY <2>1, <2>3
    <2>5. T \in SUBSET S /\ ~ \E s \in T : Best(s, T)
      BY <2>1
    <2>6. HasRank(x) /\ ~ Better(x, x)
      BY <2>2, <2>5 DEF HasRank, Better
    <2>7. T \ {x} # {}
      BY <2>2, <2>5, <2>6
    <2>8. PICK y \in T \ {x} : Best(y, T \ {x})
      BY <2>3, <2>4, <2>7
    <2>9. CASE Better(x, y)
      <3>1. ASSUME NEW t \in T \ {x}
            PROVE  ~ Better(t, x)
        <4>1. ~ Better(t, y) /\ HasRank(t) /\ HasRank(y) /\ HasRank(x)
          BY <2>5, <2>6, <2>8
        <4> QED
          BY <2>9, <4>1 DEF Better, HasRank
      <3> QED
        BY <2>2, <2>5, <2>6, <3>1
    <2>10. CASE ~ Better(x, y)
      BY <2>5, <2>8, <2>10
    <2> QED
      BY <2>9, <2>10
  <1>2. \E s \in S : Best(s, S)
    <2>1. S \notin B
      BY <1>1
    <2> HIDE DEF Best
    <2> QED
      BY <2>1
  <1> QED
    BY <1>2 DEF BestOf

\* The scores of a hand.
Scores(w, r, c) ==
  {Scored(w, r, c, k.reading, k.yaku) : k \in {x \in Candidates(w, r, c) : x.yaku # {}}}

\* How a hand may be scored.
LEMMA CandidateIs ==
  ASSUME NEW w, NEW r, NEW c, NEW k \in Candidates(w, r, c)
  PROVE  \/ k = [yaku |-> CountBasedYaku(w, r, c), reading |-> NO_READING]
         \/ \E d \in ReadingsOf(w, c) :
              k = [yaku |-> (CountBasedYaku(w, r, c) \ {"CHIITOI"}) \cup DecompositionYaku(w, c, d),
                   reading |-> d]
  BY DEF Candidates, When

LEMMA CandidatesFinite ==
  ASSUME NEW w, IsWin(w), NEW r, NEW c
  PROVE  IsFiniteSet(Candidates(w, r, c))
  <1> DEFINE base == CountBasedYaku(w, r, c)
             Reads(d) == [yaku |-> (base \ {"CHIITOI"}) \cup DecompositionYaku(w, c, d),
                          reading |-> d]
             special == When({"CHIITOI", "KOKUSHI"} \cap base # {},
                             [yaku |-> base, reading |-> NO_READING])
             read == {Reads(d) : d \in ReadingsOf(w, c)}
             f == [d \in ReadingsOf(w, c) |-> Reads(d)]
  <1>1. IsFiniteSet(read)
    <2>1. f \in Surjection(ReadingsOf(w, c), read)
      <3> HIDE DEF Reads
      <3> QED
        BY DEF Surjection
    <2> HIDE DEF f, read
    <2> QED
      BY <2>1, ReadingsType, FS_Surjection
  <1>2. IsFiniteSet(special)
    BY WhenFinite
  <1>3. Candidates(w, r, c) \in SUBSET (special \cup read)
    BY DEF Candidates
  <1> HIDE DEF special, read
  <1>4. IsFiniteSet(special \cup read)
    BY <1>1, <1>2, FS_Union
  <1> QED
    BY <1>3, <1>4, FS_Subset

LEMMA ScoresType ==
  ASSUME NEW w, IsWin(w), NEW r, r.kazoe_yakuman \in BOOLEAN,
         NEW c, c.win \in {"TSUMO", "RON"}, c.total = TotalCounts(w)
  PROVE  /\ IsFiniteSet(Scores(w, r, c))
         /\ \A s \in Scores(w, r, c) : HasRank(s) /\ s # NO_SCORE
  <1> DEFINE ks == {x \in Candidates(w, r, c) : x.yaku # {}}
             f == [k \in ks |-> Scored(w, r, c, k.reading, k.yaku)]
  <1>1. IsFiniteSet(ks)
    <2>1. ks \in SUBSET Candidates(w, r, c)
      OBVIOUS
    <2> HIDE DEF ks
    <2> QED
      BY <2>1, CandidatesFinite, FS_Subset
  <1>2. f \in Surjection(ks, Scores(w, r, c))
    <2>1. Scores(w, r, c) = {Scored(w, r, c, k.reading, k.yaku) : k \in ks}
      BY DEF Scores
    <2> HIDE DEF ks
    <2> QED
      BY <2>1 DEF Surjection
  <1>3. IsFiniteSet(Scores(w, r, c))
    <2> HIDE DEF f, ks
    <2> QED
      BY <1>1, <1>2, FS_Surjection
  <1>4. ASSUME NEW s \in Scores(w, r, c)
        PROVE  HasRank(s) /\ s # NO_SCORE
    <2>1. PICK k \in Candidates(w, r, c) : s = Scored(w, r, c, k.reading, k.yaku)
      BY DEF Scores
    <2>2. k.reading = NO_READING \/ IsReading(k.reading, w)
      BY CandidateIs, ReadingsType
    <2>3. HasRank(Scored(w, r, c, k.reading, k.yaku))
      BY <2>2, ScoredHasRank
    <2> QED
      BY <2>1, <2>3, ScoredIs
  <1> QED
    BY <1>3, <1>4
LEMMA BaseMeans ==
  ASSUME NEW w, NEW r, NEW c
  PROVE  /\ "KOKUSHI" \in CountBasedYaku(w, r, c) <=> IsKokushi(w)
         /\ "CHIITOI" \in CountBasedYaku(w, r, c) <=> IsChiitoi(w)
         /\ "SANKANTSU" \in CountBasedYaku(w, r, c) <=> Quads(w) >= 3
         /\ "SUUKANTSU" \in CountBasedYaku(w, r, c) <=> Quads(w) = 4
  BY DEF CountBasedYaku, When

LEMMA CandidateSpecial ==
  ASSUME NEW w, NEW r, NEW c, IsKokushi(w) \/ IsChiitoi(w)
  PROVE  \E k \in Candidates(w, r, c) : k.yaku # {}
  <1> DEFINE k == [yaku |-> CountBasedYaku(w, r, c), reading |-> NO_READING]
  <1>1. {"CHIITOI", "KOKUSHI"} \cap CountBasedYaku(w, r, c) # {}
    BY BaseMeans
  <1>2. k \in Candidates(w, r, c)
    BY <1>1 DEF Candidates, When
  <1>3. k.yaku # {}
    BY <1>1
  <1> QED
    BY <1>2, <1>3

LEMMA CandidateRead ==
  ASSUME NEW w, NEW r, NEW c, ~ IsKokushi(w), NEW d \in ReadingsOf(w, c),
         (CountBasedYaku(w, r, c) \ {"CHIITOI"}) \cup DecompositionYaku(w, c, d) # {}
  PROVE  \E k \in Candidates(w, r, c) : k.yaku # {}
  <1> DEFINE k == [yaku |-> (CountBasedYaku(w, r, c) \ {"CHIITOI"}) \cup DecompositionYaku(w, c, d),
                   reading |-> d]
  <1>1. "KOKUSHI" \notin CountBasedYaku(w, r, c)
    BY BaseMeans
  <1>2. k \in Candidates(w, r, c)
    BY <1>1 DEF Candidates
  <1> QED
    BY <1>2

\* A hand that may win can be scored.
LEMMA HasScore ==
  ASSUME NEW w, IsWin(w), NEW r, Declarable(w, r)
  PROVE  /\ IsComplete(w.tiles, Len(w.melds))
         /\ \E k \in Candidates(w, r, DeclaredContext(w)) : k.yaku # {}
  <1> DEFINE c == DeclaredContext(w)
             m == Len(w.melds)
  <1>1. /\ Total(w.tiles) = 3 * (MAX_MELDS - m) + 2
        /\ m = 0 <=> w.melds = <<>>
    <2>1. w.melds \in Seq([kind : MeldKinds, base : TileType])
      BY DEF IsWin
    <2>2. m = 0 <=> w.melds = <<>>
      BY <2>1
    <2> QED
      BY <2>2 DEF IsWin
  <1> HIDE DEF c, m
  <1>2. CASE IsKokushi(w)
    <2>1. IsComplete(w.tiles, m)
      BY <1>1, <1>2 DEF IsComplete, IsKokushi
    <2> QED
      BY <1>2, <2>1, CandidateSpecial DEF m
  <1>3. CASE ~ IsKokushi(w)
    <2>1. HasYaku(w, r, c)
      BY <1>3 DEF Declarable, c
    <2>2. IsComplete(w.tiles, m)
      BY <2>1 DEF HasYaku, m
    <2>3. CASE IsChiitoi(w)
      BY <2>2, <2>3, CandidateSpecial DEF m
    <2>4. CASE ~ IsChiitoi(w)
      <3>1. CheckStandard(w.tiles, MAX_MELDS - m)
        BY <1>1, <1>3, <2>2, <2>4 DEF IsComplete, IsKokushi, IsChiitoi
      <3>2. PICK d0 : d0 \in ReadingsOf(w, c)
        BY <3>1, ReadingExists DEF m
      <3>3. CASE CountBasedYaku(w, r, c) # {}
        <4>1. CountBasedYaku(w, r, c) \ {"CHIITOI"} # {}
          BY <2>4, <3>3, BaseMeans
        <4> QED
          BY <1>3, <2>2, <3>2, <4>1, CandidateRead DEF c, m
      <3>4. CASE \E d \in ReadingsOf(w, c) : DecompositionYaku(w, c, d) # {}
        <4>1. PICK d \in ReadingsOf(w, c) : DecompositionYaku(w, c, d) # {}
          BY <3>4
        <4> QED
          BY <1>3, <2>2, <4>1, CandidateRead DEF c, m
      <3> QED
        BY <2>1, <3>3, <3>4 DEF HasYaku
    <2> QED
      BY <2>3, <2>4
  <1> QED
    BY <1>2, <1>3

\* What a declared win is scored as.
LEMMA ScoreIsBest ==
  ASSUME NEW w, IsWin(w), NEW r, r.kazoe_yakuman \in BOOLEAN, Declarable(w, r)
  PROVE  /\ BestResult(w, r, DeclaredContext(w)) \in Scores(w, r, DeclaredContext(w))
         /\ BestResult(w, r, DeclaredContext(w)) # NO_SCORE
         /\ \A s \in Scores(w, r, DeclaredContext(w)) :
              ~ Better(s, BestResult(w, r, DeclaredContext(w)))
  <1> DEFINE c == DeclaredContext(w)
             scores == Scores(w, r, c)
  <1>1. c.win \in {"TSUMO", "RON"} /\ c.total = TotalCounts(w)
    BY ContextType
  <1>2. IsComplete(w.tiles, Len(w.melds)) /\ scores # {}
    BY HasScore DEF Scores
  <1>3. BestResult(w, r, c) = BestOf(scores)
    BY <1>2 DEF BestResult, Scores
  <1> HIDE DEF c
  <1>4. IsFiniteSet(scores) /\ \A s \in scores : HasRank(s) /\ s # NO_SCORE
    BY <1>1, ScoresType
  <1> HIDE DEF scores
  <1>5. BestOf(scores) \in scores /\ \A s \in scores : ~ Better(s, BestOf(scores))
    BY <1>2, <1>4, BestExists
  <1> QED
    BY <1>3, <1>4, <1>5 DEF c, scores

\* A win that was declared has a score when the round has ended, the one it had
\* when it was declared (state_settle.c:367).
THEOREM ScoredAsDeclaredHolds == Spec => []ScoredAsDeclared
  <1>1. ScoreInv => ScoredAsDeclared
    <2> SUFFICES ASSUME ScoreInv, result # UNKNOWN
                 PROVE  result # NO_SCORE /\ result = declared
      BY DEF ScoredAsDeclared
    <2>1. /\ declared = BestResult(win, rules, DeclaredContext(win)) /\ result = declared
          /\ Declarable(win, rules)
      BY DEF ScoreInv
    <2>2. IsWin(win) /\ rules.kazoe_yakuman \in BOOLEAN
      BY WinsAssumption, RulesAssumption DEF ScoreInv
    <2>3. BestResult(win, rules, DeclaredContext(win)) # NO_SCORE
      BY <2>1, <2>2, ScoreIsBest
    <2> QED
      BY <2>1, <2>3
  <1> QED
    BY <1>1, ScoreInvHolds, PTL
-----------------------------------------------------------------------------
(* Below five han                                                           *)

QuadsOf(d) == {i \in 1 .. 4 : d.groups[i].kind = "QUAD"}
ConcealedOf(c, d) == {i \in 1 .. 4 : IsConcealedTriplet(d.groups[i], c)}

LEMMA QuadsAreMelds ==
  ASSUME NEW w, IsWin(w), NEW d, IsReading(d, w)
  PROVE  Quads(w) = Cardinality(QuadsOf(d))
  <1> DEFINE m == Len(w.melds)
  <1>1. /\ m \in 0 .. 4 /\ DOMAIN w.melds = 1 .. m
        /\ \A i \in 1 .. m : MeldGroup(w.melds[i]).kind = Kind(w.melds[i])
    BY WinTypes, MeldGroupType
  <1>2. \A i \in 1 .. 4 : IF i <= m THEN d.groups[i] = MeldGroup(w.melds[i])
                                     ELSE d.groups[i].kind # "QUAD"
    BY DEF IsReading
  <1> HIDE DEF m
  <1>3. {i \in 1 .. m : Kind(w.melds[i]) = "QUAD"} = QuadsOf(d)
    <2>1. ASSUME NEW i \in 1 .. m, Kind(w.melds[i]) = "QUAD"
          PROVE  i \in QuadsOf(d)
      <3>1. i \in 1 .. 4 /\ i <= m
        BY <1>1
      <3> QED
        BY <1>1, <1>2, <2>1, <3>1 DEF QuadsOf
    <2>2. ASSUME NEW i \in QuadsOf(d)
          PROVE  i \in 1 .. m /\ Kind(w.melds[i]) = "QUAD"
      <3>1. i \in 1 .. 4 /\ d.groups[i].kind = "QUAD"
        BY DEF QuadsOf
      <3>2. i <= m
        BY <1>2, <3>1
      <3>3. i \in 1 .. m
        BY <1>1, <3>1, <3>2
      <3> QED
        BY <1>1, <1>2, <3>1, <3>2, <3>3
    <2> QED
      BY <2>1, <2>2
  <1> QED
    BY <1>1, <1>3 DEF Quads

LEMMA SanankouMeans ==
  ASSUME NEW w, NEW d, IsReading(d, w), NEW c
  PROVE  "SANANKOU" \in DecompositionYaku(w, c, d) <=> Cardinality(ConcealedOf(c, d)) >= 3
  <1> DEFINE gs == d.groups
             concealed == {i \in {j \in DOMAIN gs : ~ IsSequence(gs[j])} : IsConcealedTriplet(gs[i], c)}
  <1>1. concealed = ConcealedOf(c, d)
    <2>1. DOMAIN gs = 1 .. 4
      BY ReadingHasGroups
    <2> QED
      BY <2>1 DEF ConcealedOf, IsConcealedTriplet
  <1>2. "SANANKOU" \in DecompositionYaku(w, c, d) <=> Cardinality(concealed) >= 3
    BY DEF DecompositionYaku, When
  <1> QED
    BY <1>1, <1>2

\* Three quads leave little for the rest when no three triplets are concealed.
LEMMA ShapeFuBound ==
  ASSUME NEW w, NEW d, IsReading(d, w), NEW c
  PROVE  /\ ShapeFu(c, d) <= 128
         /\ Cardinality(QuadsOf(d)) < 3 => ShapeFu(c, d) <= 84
         /\ Cardinality(QuadsOf(d)) = 3 /\ Cardinality(ConcealedOf(c, d)) < 3
              => ShapeFu(c, d) <= 84
         /\ Cardinality(QuadsOf(d)) \in 0 .. 4 /\ Cardinality(ConcealedOf(c, d)) \in 0 .. 4
  <1> DEFINE fu(i) == GroupFu(d.groups[i], c)
             quad(i) == One(i \in QuadsOf(d))
             concealed(i) == One(i \in ConcealedOf(c, d))
             quads == Cardinality(QuadsOf(d))
             kept == Cardinality(ConcealedOf(c, d))
             shape == ShapeFu(c, d)
  <1>1. shape = fu(1) + fu(2) + fu(3) + fu(4)
    BY ShapeFuIs
  <1>2. quads = quad(1) + quad(2) + quad(3) + quad(4)
    <2>1. QuadsOf(d) \in SUBSET (1 .. 4)
      BY DEF QuadsOf
    <2> QED
      BY <2>1, CardinalityOfFour
  <1>3. kept = concealed(1) + concealed(2) + concealed(3) + concealed(4)
    <2>1. ConcealedOf(c, d) \in SUBSET (1 .. 4)
      BY DEF ConcealedOf
    <2> QED
      BY <2>1, CardinalityOfFour
  <1>4. ASSUME NEW i \in 1 .. 4
        PROVE  /\ fu(i) \in Nat /\ quad(i) \in {0, 1} /\ concealed(i) \in {0, 1}
               /\ fu(i) <= 32
               /\ quad(i) = 0 => fu(i) <= 8
               /\ concealed(i) = 0 => fu(i) <= 16
               /\ quad(i) = 0 /\ concealed(i) = 0 => fu(i) <= 4
    <2>1. d.groups[i] \in Groups
      BY DEF IsReading
    <2>2. /\ quad(i) \in {0, 1} /\ concealed(i) \in {0, 1}
          /\ quad(i) = 0 <=> d.groups[i].kind # "QUAD"
          /\ concealed(i) = 0 <=> ~ IsConcealedTriplet(d.groups[i], c)
      BY DEF One, QuadsOf, ConcealedOf
    <2> HIDE DEF quad, concealed
    <2> QED
      BY <2>1, <2>2, GroupFuType
  <1> HIDE DEF fu, quad, concealed, quads, kept, shape
  <1>5. 1 \in 1 .. 4 /\ 2 \in 1 .. 4 /\ 3 \in 1 .. 4 /\ 4 \in 1 .. 4
    OBVIOUS
  <1>6. shape <= 128 /\ quads \in 0 .. 4 /\ kept \in 0 .. 4
    BY <1>1, <1>2, <1>3, <1>4, <1>5
  <1>7. quads < 3 => shape <= 84
    BY <1>1, <1>2, <1>4, <1>5
  <1>8. quads = 3 /\ kept < 3 => shape <= 84
    BY <1>1, <1>2, <1>3, <1>4, <1>5
  <1> QED
    BY <1>6, <1>7, <1>8 DEF quads, kept, shape

InTens(fu) == fu = 25 \/ \E n \in Nat : fu = 10 * n

LEMMA BaseWithinMangan ==
  ASSUME NEW h, NEW fu \in Nat, NEW han \in 0 .. 4, h.han = han, h.fu = fu, h.yakuman = 0,
         NEW r, r.kazoe_yakuman \in BOOLEAN,
         InTens(fu), fu <= 250, han = 2 => fu <= 129
  PROVE  BasicPoints(h, r) <= 2000
  <1>1. YakumanCount(h, r) = 0
    BY DEF YakumanCount
  <1>2. BasicPoints(h, r) = IF RoundsUpToMangan(h, r) THEN 2000 ELSE fu * 2 ^ (han + 2)
    BY <1>1 DEF BasicPoints
  <1>3. han = 4 /\ ~ RoundsUpToMangan(h, r) => fu < 40
    BY DEF RoundsUpToMangan
  <1>a. han = 3 /\ ~ RoundsUpToMangan(h, r) => fu < 70
    BY DEF RoundsUpToMangan
  <1>4. /\ fu < 40 => fu <= 30
        /\ fu < 70 => fu <= 60
        /\ fu <= 129 => fu <= 125
    BY DEF InTens
  <1> DEFINE points == fu * 2 ^ (han + 2)
  <1>5. /\ han = 0 => points = 4 * fu
        /\ han = 1 => points = 8 * fu
        /\ han = 2 => points = 16 * fu
        /\ han = 3 => points = 32 * fu
        /\ han = 4 => points = 64 * fu
    <2>1. han \in 0 .. 5
      OBVIOUS
    <2> QED
      BY <2>1, PowerTimes
  <1> HIDE DEF points
  <1>6. ~ RoundsUpToMangan(h, r) => points <= 2000
    <2> SUFFICES ASSUME ~ RoundsUpToMangan(h, r)
                 PROVE  points <= 2000
      OBVIOUS
    <2>1. CASE han = 0
      BY <1>5, <2>1
    <2>2. CASE han = 1
      BY <1>5, <2>2
    <2>3. CASE han = 2
      BY <1>4, <1>5, <2>3
    <2>4. CASE han = 3
      BY <1>a, <1>4, <1>5, <2>4
    <2>5. CASE han = 4
      <3>0. fu < 40
        BY <1>3, <2>5
      <3>1. fu <= 30
        BY <1>4, <3>0
      <3>2. points = 64 * fu
        BY <1>5, <2>5
      <3> QED
        BY <3>1, <3>2
    <2> QED
      BY <2>1, <2>2, <2>3, <2>4, <2>5
  <1> QED
    BY <1>2, <1>6 DEF points

\* Three quads and three concealed triplets are four han, four quads a yakuman.
LEMMA TwoHanShape ==
  ASSUME NEW w, IsWin(w), NEW r, NEW c, c.total = TotalCounts(w),
         NEW k \in Candidates(w, r, c), NEW d, k.reading = d,
         Yakuman(k.yaku, r) = 0, Han(w, c, k.yaku) = 2
  PROVE  ShapeFu(c, d) <= 84
  <1>1. CASE d = NO_READING
    BY <1>1 DEF ShapeFu
  <1>2. CASE d # NO_READING
    <2> DEFINE yaku == k.yaku
    <2>1. /\ d \in ReadingsOf(w, c)
          /\ yaku = (CountBasedYaku(w, r, c) \ {"CHIITOI"}) \cup DecompositionYaku(w, c, d)
      BY <1>2, CandidateIs
    <2>2. IsReading(d, w)
      BY <2>1, ReadingsType
    <2> DEFINE quads == Cardinality(QuadsOf(d))
               kept == Cardinality(ConcealedOf(c, d))
    <2>3. quads >= 3 => "SANKANTSU" \in yaku
      BY <2>1, <2>2, QuadsAreMelds, BaseMeans
    <2>4. quads = 4 => "SUUKANTSU" \in yaku
      BY <2>1, <2>2, QuadsAreMelds, BaseMeans
    <2>5. kept >= 3 => "SANANKOU" \in yaku
      BY <2>1, <2>2, SanankouMeans
    <2> HIDE DEF yaku
    <2>6. "SUUKANTSU" \notin yaku
      <3> SUFFICES ASSUME "SUUKANTSU" \in yaku
                   PROVE  FALSE
        OBVIOUS
      <3> DEFINE implied == When("KOKUSHI_13" \in yaku, "KOKUSHI")
                              \cup When("SUUANKOU_TANKI" \in yaku, "SUUANKOU")
                              \cup When("JUNSEI_CHUUREN" \in yaku, "CHUUREN")
                 worth == YakumanWorth(r)
      <3>1. "SUUKANTSU" \in (yaku \ implied) \cap DOMAIN worth /\ worth["SUUKANTSU"] = 1
        BY DEF When, YakumanWorth
      <3>2. Yakuman(yaku, r) = Valued(yaku \ implied, worth)
        BY DEF Yakuman
      <3>3. IsFiniteSet(DOMAIN worth) /\ \A y \in DOMAIN worth : worth[y] \in Nat
        BY YakumanWorthType
      <3> HIDE DEF implied, worth
      <3>4. Valued(yaku \ implied, worth) >= 1
        BY <3>1, <3>3, ValuedType
      <3>5. Yakuman(yaku, r) = 0
        BY DEF yaku
      <3> QED
        BY <3>2, <3>4, <3>5
    <2>7. ~ ("SANKANTSU" \in yaku /\ "SANANKOU" \in yaku)
      <3> SUFFICES ASSUME "SANKANTSU" \in yaku, "SANANKOU" \in yaku
                   PROVE  FALSE
        OBVIOUS
      <3> DEFINE implied == When("DOUBLE_RIICHI" \in yaku, "RIICHI")
                 worth == HanWorth(w, c)
                 valued == Valued(yaku \ implied, worth)
      <3>1. /\ "SANKANTSU" \in (yaku \ implied) \cap DOMAIN worth /\ worth["SANKANTSU"] = 2
            /\ "SANANKOU" \in (yaku \ implied) \cap DOMAIN worth /\ worth["SANANKOU"] = 2
            /\ "SANKANTSU" # "SANANKOU"
        BY DEF When, HanWorth
      <3>2. IsFiniteSet(DOMAIN worth) /\ \A y \in DOMAIN worth : worth[y] \in Nat
        BY YakuhaiType, HanWorthType
      <3>3. Han(w, c, yaku) >= valued
        BY HanType
      <3>4. Han(w, c, yaku) = 2
        BY DEF yaku
      <3> HIDE DEF implied, worth
      <3>5. valued \in Nat /\ valued >= 2 + 2
        BY <3>1, <3>2, ValuedType
      <3> QED
        BY <3>3, <3>4, <3>5
    <2>8. /\ quads \in 0 .. 4 /\ kept \in 0 .. 4
          /\ quads < 3 => ShapeFu(c, d) <= 84
          /\ quads = 3 /\ kept < 3 => ShapeFu(c, d) <= 84
      BY <2>2, ShapeFuBound
    <2> HIDE DEF quads, kept
    <2> QED
      BY <2>3, <2>4, <2>5, <2>6, <2>7, <2>8
  <1> QED
    BY <1>1, <1>2

\* Below five han no hand is paid more than a mangan (state_yaku.c:1772).
THEOREM MostFuIsWithinManganHolds == Spec => []MostFuIsWithinMangan
  <1>1. ScoreInv => MostFuIsWithinMangan
    <2> SUFFICES ASSUME ScoreInv, IsOver, declared.yakuman = 0, declared.han <= 4
                 PROVE  declared.value <= (IF win.dealer THEN 12000 ELSE 8000)
      BY DEF MostFuIsWithinMangan
    <2> DEFINE c == DeclaredContext(win)
    <2>1. /\ IsWin(win) /\ rules.kazoe_yakuman \in BOOLEAN
          /\ declared = BestResult(win, rules, c) /\ Declarable(win, rules)
      <3>1. win.live \in LivePhases
        BY WinsAssumption DEF ScoreInv, IsWin
      <3>2. state # LiveState(win)
        BY <3>1 DEF IsOver, LiveState, LivePhases
      <3> QED
        BY <3>2, WinsAssumption, RulesAssumption DEF ScoreInv
    <2>2. declared \in Scores(win, rules, c)
      BY <2>1, ScoreIsBest
    <2>3. c.win \in {"TSUMO", "RON"} /\ c.total = TotalCounts(win)
      BY <2>1, ContextType
    <2> HIDE DEF c
    <2>4. PICK k \in Candidates(win, rules, c) :
            declared = Scored(win, rules, c, k.reading, k.yaku)
      BY <2>2 DEF Scores
    <2> DEFINE d == k.reading
               yaku == k.yaku
               h == HandOf(win, rules, c, d, yaku)
               fu == h.fu
               han == h.han
    <2>5. d = NO_READING \/ IsReading(d, win)
      BY <2>1, CandidateIs, ReadingsType
    <2>6. /\ declared.han = han /\ declared.yakuman = YakumanCount(h, rules)
          /\ declared.value = Value(win, c, BasicPoints(h, rules))
      BY <2>4, ScoredIs
    <2>7. han \in Nat /\ fu \in Nat /\ h.yakuman \in Nat
      BY <2>1, <2>3, <2>5, HandType
    <2>8. h.yakuman = 0 /\ han \in 0 .. 4
      <3> HIDE DEF h
      <3> QED
        BY <2>6, <2>7 DEF YakumanCount
    <2>9. Yakuman(yaku, rules) = 0 /\ han = Han(win, c, yaku) /\ fu = Fu(win, c, d, yaku)
      BY <2>8 DEF HandOf
    <2>10. /\ ShapeFu(c, d) \in Nat
           /\ fu = 25 \/ \E n \in Nat : fu = 10 * n
           /\ fu <= 45 + ShapeFu(c, d)
      <3> HIDE DEF d, yaku, h
      <3> QED
        BY <2>1, <2>3, <2>5, <2>9, FuType
    <2>11. ShapeFu(c, d) <= 128
      BY <2>5, ShapeFuBound DEF ShapeFu
    <2>12. han = 2 => ShapeFu(c, d) <= 84
      BY <2>1, <2>3, <2>9, TwoHanShape
    <2> HIDE DEF h, d, yaku
    <2>13. BasicPoints(h, rules) \in Nat
      BY <2>1, <2>7, BasicPointsType
    <2>14. BasicPoints(h, rules) <= 2000
      <3>1. fu <= 250 /\ (han = 2 => fu <= 129)
        BY <2>7, <2>10, <2>11, <2>12
      <3> HIDE DEF fu, han
      <3>2. h.han = han /\ h.fu = fu
        BY DEF fu, han
      <3>3. InTens(fu)
        BY <2>10 DEF InTens
      <3> QED
        BY <2>1, <2>7, <2>8, <3>1, <3>2, <3>3, BaseWithinMangan
    <2>15. win.dealer \in BOOLEAN
      BY <2>1 DEF IsWin
    <2> DEFINE base == BasicPoints(h, rules)
    <2> HIDE DEF base
    <2>16. Value(win, c, base) <= (IF win.dealer THEN 12000 ELSE 8000)
      BY <2>13, <2>14, <2>15, ValueType DEF base
    <2> QED
      BY <2>6, <2>16 DEF base
  <1> QED
    BY <1>1, ScoreInvHolds, PTL
-----------------------------------------------------------------------------
(* The search finds every division                                          *)

LEMMA CountFacts ==
  ASSUME NEW d, NEW w, IsReading(d, w), NEW some \in SUBSET (1 .. 4), NEW t
  PROVE  /\ CountIn(d, some, t) \in Nat
         /\ \A j \in 1 .. 4 : GroupCount(d.groups[j], t) \in Nat
         /\ \A j \in some :
              /\ CountIn(d, some \ {j}, t) = CountIn(d, some, t) - GroupCount(d.groups[j], t)
              /\ CountIn(d, some \ {j}, t) \in Nat
         /\ CountIn(d, some, t) > 0 => \E j \in some : GroupCount(d.groups[j], t) > 0
  <1> DEFINE g(j) == GroupCount(d.groups[j], t)
             f(js) == [i \in 1 .. 4 |-> IF i \in js THEN g(i) ELSE 0]
             Of(js) == (IF 1 \in js THEN g(1) ELSE 0) + (IF 2 \in js THEN g(2) ELSE 0)
                         + (IF 3 \in js THEN g(3) ELSE 0) + (IF 4 \in js THEN g(4) ELSE 0)
  <1>1. \A j \in 1 .. 4 : g(j) \in Nat
    <2>1. \A j \in 1 .. 4 : d.groups[j] \in Groups
      BY DEF IsReading
    <2> QED
      BY <2>1, GroupCountType DEF Groups
  <1>2. ASSUME NEW js
        PROVE  CountIn(d, js, t) = Of(js)
    <2>1. CountIn(d, js, t) = SumFunction(f(js))
      BY DEF CountIn
    <2> HIDE DEF g
    <2>2. f(js) \in [1 .. 4 -> Int]
      BY <1>1
    <2>3. SumFunction(f(js)) = f(js)[1] + f(js)[2] + f(js)[3] + f(js)[4]
      BY <2>2, SumOfFour
    <2> QED
      BY <2>1, <2>3
  <1> HIDE DEF g
  <1>3. g(1) \in Nat /\ g(2) \in Nat /\ g(3) \in Nat /\ g(4) \in Nat
    BY <1>1
  <1>4. CountIn(d, some, t) \in Nat
    BY <1>2, <1>3
  <1>5. ASSUME NEW j \in some
        PROVE  /\ CountIn(d, some \ {j}, t) = CountIn(d, some, t) - g(j)
               /\ CountIn(d, some \ {j}, t) \in Nat
    <2>1. j \in {1, 2, 3, 4}
      OBVIOUS
    <2>2. Of(some \ {j}) = Of(some) - g(j) /\ Of(some \ {j}) \in Nat
      <3>1. CASE j = 1
        BY <1>3, <3>1
      <3>2. CASE j = 2
        BY <1>3, <3>2
      <3>3. CASE j = 3
        BY <1>3, <3>3
      <3>4. CASE j = 4
        BY <1>3, <3>4
      <3> QED
        BY <2>1, <3>1, <3>2, <3>3, <3>4
    <2> QED
      BY <1>2, <2>2
  <1>6. CountIn(d, some, t) > 0 => \E j \in some : g(j) > 0
    BY <1>2, <1>3
  <1> QED
    BY <1>1, <1>4, <1>5, <1>6 DEF g

LEMMA CountOfNone ==
  ASSUME NEW d, NEW w, IsReading(d, w), NEW t
  PROVE  CountIn(d, {}, t) = 0
  <1>1. CountIn(d, {}, t) \in Nat /\ ~ (CountIn(d, {}, t) > 0)
    <2>1. {} \in SUBSET (1 .. 4)
      OBVIOUS
    <2> QED
      BY <2>1, CountFacts
  <1> QED
    BY <1>1

\* Two groups count for both.
LEMMA CountOfTwo ==
  ASSUME NEW d, NEW w, IsReading(d, w), NEW some \in SUBSET (1 .. 4), NEW t,
         NEW j \in some
  PROVE  /\ CountIn(d, some, t) >= GroupCount(d.groups[j], t)
         /\ \A k \in some \ {j} :
              CountIn(d, some, t) >= GroupCount(d.groups[j], t) + GroupCount(d.groups[k], t)
  <1>1. /\ CountIn(d, some \ {j}, t) = CountIn(d, some, t) - GroupCount(d.groups[j], t)
        /\ CountIn(d, some \ {j}, t) \in Nat /\ CountIn(d, some, t) \in Nat
        /\ GroupCount(d.groups[j], t) \in Nat
    BY CountFacts
  <1>2. ASSUME NEW k \in some \ {j}
        PROVE  CountIn(d, some, t) >= GroupCount(d.groups[j], t) + GroupCount(d.groups[k], t)
    <2>1. some \ {j} \in SUBSET (1 .. 4)
      OBVIOUS
    <2>2. /\ CountIn(d, (some \ {j}) \ {k}, t) = CountIn(d, some \ {j}, t) - GroupCount(d.groups[k], t)
          /\ CountIn(d, (some \ {j}) \ {k}, t) \in Nat
          /\ GroupCount(d.groups[k], t) \in Nat
      BY <2>1, CountFacts
    <2> QED
      BY <1>1, <2>2
  <1> QED
    BY <1>1, <1>2

\* The tiles of a group that is due are tiles of the hand.
LEMMA DueGroup ==
  ASSUME NEW w, IsWin(w), NEW d, IsDivision(d, w), NEW j \in Due(w)
  PROVE  /\ d.groups[j] \in Groups /\ d.groups[j].kind \in {"SEQUENCE", "TRIPLET"}
         /\ ~ d.groups[j].open /\ j \in 1 .. 4
         /\ d.groups[j].base \in GroupTypes(d.groups[j])
         /\ GroupTypes(d.groups[j]) \subseteq DOMAIN w.tiles
         /\ \A t : GroupCount(d.groups[j], t) =
                     IF t \in GroupTypes(d.groups[j])
                       THEN IF d.groups[j].kind = "SEQUENCE" THEN 1 ELSE 3
                       ELSE 0
         /\ d.groups[j].kind = "SEQUENCE" =>
              StartsSequence(d.groups[j].base) /\ GroupTypes(d.groups[j]) = SequenceFrom(d.groups[j].base)
         /\ d.groups[j].kind = "TRIPLET" => GroupTypes(d.groups[j]) = {d.groups[j].base}
  <1> DEFINE g == d.groups[j]
  <1>1. Len(w.melds) \in 0 .. 4
    BY WinTypes
  <1>2. j \in 1 .. 4 /\ ~ (j <= Len(w.melds))
    BY <1>1 DEF Due
  <1>3. g \in Groups /\ g.kind # "QUAD" /\ ~ g.open
    BY <1>2 DEF IsDivision, IsReading
  <1>4. g.kind = "SEQUENCE" => StartsSequence(g.base)
    BY DEF IsDivision, IsSequence
  <1> HIDE DEF g
  <1>5. g.kind \in {"SEQUENCE", "TRIPLET"} /\ g.base \in 0 .. 33
    BY <1>3 DEF Groups, TileType
  <1>6. g.base \in GroupTypes(g) /\ GroupTypes(g) \subseteq TileType
    <2>1. CASE g.kind = "SEQUENCE"
      <3>1. StartsSequence(g.base)
        BY <1>4, <2>1
      <3>2. g.base \in 0 .. 31
        BY <1>5, <3>1 DEF StartsSequence, Suit, Number, HONOR
      <3> QED
        BY <2>1, <3>2 DEF GroupTypes, SequenceFrom, TileType
    <2>2. CASE g.kind = "TRIPLET"
      BY <1>5, <2>2 DEF GroupTypes, TileType
    <2> QED
      BY <1>5, <2>1, <2>2
  <1>7. \A t : GroupCount(g, t) =
                IF t \in GroupTypes(g) THEN IF g.kind = "SEQUENCE" THEN 1 ELSE 3 ELSE 0
    BY <1>5 DEF GroupCount
  <1>8. ASSUME NEW t \in GroupTypes(g)
        PROVE  t \in DOMAIN w.tiles
    <2>1. t \in TileType /\ IsReading(d, w)
      BY <1>6, <1>8 DEF IsDivision
    <2>2. HeldOf(w, t) = CountIn(d, Due(w), t) + 2 * One(t = d.pair)
      BY <2>1 DEF IsDivision
    <2>3. Due(w) \in SUBSET (1 .. 4)
      BY <1>1 DEF Due
    <2>4. CountIn(d, Due(w), t) \in Nat /\ CountIn(d, Due(w), t) >= GroupCount(g, t)
      BY <2>1, <2>3, CountFacts, CountOfTwo DEF g
    <2>5. GroupCount(g, t) \in Nat /\ GroupCount(g, t) >= 1
      BY <1>7, <1>8
    <2>6. One(t = d.pair) \in {0, 1}
      BY DEF One
    <2>7. HeldOf(w, t) # 0
      BY <2>2, <2>4, <2>5, <2>6
    <2> QED
      BY <2>7 DEF HeldOf
  <1>9. /\ g.kind = "SEQUENCE" => GroupTypes(g) = SequenceFrom(g.base)
        /\ g.kind = "TRIPLET" => GroupTypes(g) = {g.base}
    BY DEF GroupTypes
  <1> QED
    BY <1>2, <1>3, <1>4, <1>5, <1>6, <1>7, <1>8, <1>9 DEF g

LEMMA DuePair ==
  ASSUME NEW w, IsWin(w), NEW d, IsDivision(d, w)
  PROVE  d.pair \in DOMAIN w.tiles /\ d.pair # NO_PAIR
  <1>1. IsReading(d, w) /\ d.pair \in TileType
    BY DEF IsDivision, IsReading
  <1>2. HeldOf(w, d.pair) = CountIn(d, Due(w), d.pair) + 2 * One(d.pair = d.pair)
    BY <1>1 DEF IsDivision
  <1>3. One(d.pair = d.pair) = 1
    BY DEF One
  <1>4. Len(w.melds) \in 0 .. 4
    BY WinTypes
  <1>5. Due(w) \in SUBSET (1 .. 4)
    BY <1>4 DEF Due
  <1>6. CountIn(d, Due(w), d.pair) \in Nat
    BY <1>1, <1>5, CountFacts
  <1>7. HeldOf(w, d.pair) # 0
    BY <1>2, <1>3, <1>6
  <1> QED
    BY <1>1, <1>7 DEF HeldOf, TileType, NO_PAIR

\* The groups of a division that have not been cut off, when p[i] is the one
\* cut off i-th.
Rest(r, p) == {j \in 1 .. 4 : \A i \in 1 .. Len(r.groups) : p[i] # j}

InOrder(r, d, w, p) ==
  /\ p \in [1 .. Len(r.groups) -> 1 .. 4]
  /\ \A i, j \in 1 .. Len(r.groups) : p[i] = p[j] => i = j
  /\ \A i \in 1 .. Len(r.groups) : r.groups[i] = d.groups[p[i]]
  /\ \A i \in 1 .. Len(w.melds) : p[i] = i

\* What is left of the hand: the rest of the division.
IsRest(r, d, w, rest) ==
  /\ \A t \in DOMAIN w.tiles :
       r.tiles[t] = CountIn(d, rest, t) + (IF r.pair = NO_PAIR THEN 2 * One(t = d.pair) ELSE 0)
  /\ IF r.pair = NO_PAIR THEN ~ r.pair_wins
                         ELSE r.pair = d.pair /\ r.pair_wins = d.pair_wins
  /\ r.available <=> \/ r.pair = NO_PAIR /\ d.pair_wins
                     \/ \E j \in rest : d.groups[j].wins

Follows(r, d, w, p) == InOrder(r, d, w, p) /\ IsRest(r, d, w, Rest(r, p))

LEMMA RestIsDue ==
  ASSUME NEW w, IsWin(w), NEW k, NEW r, IsPartial(r, w, k), NEW d, NEW p, InOrder(r, d, w, p)
  PROVE  Rest(r, p) \subseteq Due(w) /\ Rest(r, p) \in SUBSET (1 .. 4)
  <1> DEFINE m == Len(w.melds)
             n == Len(r.groups)
  <1>1. m \in 0 .. 4 /\ m <= n /\ n \in Nat
    BY WinTypes DEF IsPartial
  <1>2. \A i \in 1 .. m : p[i] = i
    BY DEF InOrder
  <1> HIDE DEF m, n
  <1>3. ASSUME NEW j \in 1 .. 4, \A i \in 1 .. n : p[i] # j
        PROVE  j \in (m + 1) .. 4
    <2>1. CASE j <= m
      <3>1. j \in 1 .. m /\ j \in 1 .. n
        BY <1>1, <2>1
      <3> QED
        BY <1>2, <1>3, <3>1
    <2>2. CASE ~ (j <= m)
      BY <1>1, <2>2
    <2> QED
      BY <2>1, <2>2
  <1> QED
    BY <1>3 DEF Rest, Due, m, n

\* One place for the winning tile, among the groups that are due and the pair.
LEMMA OnePlace ==
  ASSUME NEW w, IsWin(w), NEW d, IsDivision(d, w), NEW j \in Due(w), d.groups[j].wins
  PROVE  /\ ~ d.pair_wins /\ w.type \in GroupTypes(d.groups[j])
         /\ \A k \in Due(w) : d.groups[k].wins => k = j
  BY DEF IsDivision

LEMMA FollowPair ==
  ASSUME NEW w, IsWin(w), NEW d, IsDivision(d, w), NEW k, NEW r, IsPartial(r, w, k),
         NEW p, Follows(r, d, w, p), r.pair = NO_PAIR
  PROVE  \E q : CutPair(r, d.pair, w.type, q) /\ Follows(q, d, w, p)
  <1> DEFINE i == d.pair
             wins == d.pair_wins
             type == w.type
             rest == Rest(r, p)
             q == [tiles |-> Take(r.tiles, 2, {i}), available |-> r.available /\ ~ wins,
                   groups |-> r.groups, pair |-> i, pair_wins |-> wins]
  <1>1. /\ i \in DOMAIN w.tiles /\ i # NO_PAIR /\ wins \in BOOLEAN /\ IsReading(d, w)
        /\ type \in DOMAIN w.tiles
    BY DuePair, WinTypes DEF IsDivision, IsReading
  <1>2. rest \subseteq Due(w) /\ rest \in SUBSET (1 .. 4)
    BY RestIsDue DEF Follows
  <1>3. /\ r.tiles \in [DOMAIN w.tiles -> Nat] /\ r.available \in BOOLEAN
        /\ \A t \in DOMAIN w.tiles : r.tiles[t] = CountIn(d, rest, t) + 2 * One(t = i)
        /\ r.available <=> wins \/ \E j \in rest : d.groups[j].wins
    BY DEF IsPartial, Follows, IsRest
  <1> HIDE DEF rest
  <1>4. \A t : CountIn(d, rest, t) \in Nat
    BY <1>1, <1>2, CountFacts
  <1>5. One(i = i) = 1 /\ \A t : t # i => One(t = i) = 0
    BY DEF One
  <1>6. r.tiles[i] >= 2
    BY <1>1, <1>3, <1>4, <1>5
  <1>7. MayTake(r, 2, {i}, type, wins)
    <2>1. CASE wins
      <3>1. type = i
        BY <2>1 DEF IsDivision
      <3> QED
        BY <1>3, <2>1, <3>1 DEF MayTake
    <2>2. CASE ~ wins /\ r.available /\ type = i
      <3>1. PICK j \in rest : d.groups[j].wins
        BY <1>3, <2>2
      <3>2. type \in GroupTypes(d.groups[j])
        BY <1>2, <3>1, OnePlace
      <3>3. GroupCount(d.groups[j], type) \in {1, 3}
        BY <1>2, <3>2, DueGroup
      <3>4. CountIn(d, rest, type) >= GroupCount(d.groups[j], type)
        BY <1>1, <1>2, CountOfTwo
      <3>5. r.tiles[type] > 2
        BY <1>1, <1>3, <1>4, <1>5, <2>2, <3>3, <3>4
      <3> QED
        BY <2>2, <3>5 DEF MayTake
    <2>3. CASE ~ wins /\ ~ (r.available /\ type = i)
      BY <2>3 DEF MayTake
    <2> QED
      BY <2>1, <2>2, <2>3
  <1>8. CutPair(r, i, type, q)
    <2>1. q.tiles = Take(r.tiles, 2, {i})
      OBVIOUS
    <2> QED
      BY <1>1, <1>6, <1>7, <2>1 DEF CutPair, Paired
  <1>9. q.groups = r.groups /\ Rest(q, p) = rest /\ InOrder(q, d, w, p)
    BY DEF Rest, rest, Follows, InOrder
  <1>10. IsRest(q, d, w, rest)
    <2>1. ASSUME NEW t \in DOMAIN w.tiles
          PROVE  q.tiles[t] = CountIn(d, rest, t)
      <3>1. /\ q.tiles[t] = IF t = i THEN r.tiles[t] - 2 ELSE r.tiles[t]
            /\ r.tiles[t] = CountIn(d, rest, t) + 2 * One(t = i)
            /\ CountIn(d, rest, t) \in Nat
        BY <1>1, <1>3, <1>4 DEF Take
      <3>2. One(t = i) = IF t = i THEN 1 ELSE 0
        BY DEF One
      <3> HIDE DEF q, i
      <3> QED
        BY <3>1, <3>2
    <2>2. \A t : CountIn(d, rest, t) + 0 = CountIn(d, rest, t)
      BY <1>4
    <2>3. q.available <=> \E j \in rest : d.groups[j].wins
      <3>1. \A j \in rest : d.groups[j].wins => ~ wins
        BY <1>2, OnePlace
      <3> QED
        BY <1>3, <3>1
    <2> QED
      BY <1>1, <2>1, <2>2, <2>3 DEF IsRest
  <1> HIDE DEF q
  <1> QED
    BY <1>8, <1>9, <1>10 DEF Follows
\* The order with the group j cut off next.
AlsoCut(p, n, j) == [i \in 1 .. n + 1 |-> IF i = n + 1 THEN j ELSE p[i]]

LEMMA NextInOrder ==
  ASSUME NEW r, NEW q, NEW d, NEW w, NEW p, InOrder(r, d, w, p),
         r.groups \in Seq(Groups), Len(w.melds) \in 0 .. 4, Len(w.melds) <= Len(r.groups),
         NEW j \in Rest(r, p), d.groups[j] \in Groups,
         q.groups = Append(r.groups, d.groups[j])
  PROVE  /\ InOrder(q, d, w, AlsoCut(p, Len(r.groups), j))
         /\ Rest(q, AlsoCut(p, Len(r.groups), j)) = Rest(r, p) \ {j}
  <1> DEFINE n == Len(r.groups)
             m == Len(w.melds)
             o == AlsoCut(p, n, j)
             gs == r.groups
  <1>1. /\ n \in Nat /\ Len(q.groups) = n + 1
        /\ \A i \in 1 .. n : q.groups[i] = gs[i]
        /\ q.groups[n + 1] = d.groups[j]
    BY AppendGroup
  <1>2. j \in 1 .. 4 /\ \A i \in 1 .. n : p[i] # j
    BY DEF Rest
  <1>3. /\ p \in [1 .. n -> 1 .. 4]
        /\ \A i, k \in 1 .. n : p[i] = p[k] => i = k
        /\ \A i \in 1 .. n : gs[i] = d.groups[p[i]]
        /\ \A i \in 1 .. m : p[i] = i
    BY DEF InOrder
  <1>4. m \in 0 .. 4 /\ m <= n
    OBVIOUS
  <1>5. Rest(r, p) = {k \in 1 .. 4 : \A i \in 1 .. n : p[i] # k}
    BY DEF Rest
  <1> HIDE DEF n, m, gs
  <1>6. /\ o[n + 1] = j /\ \A i \in 1 .. n : o[i] = p[i]
        /\ o \in [1 .. n + 1 -> 1 .. 4]
    <2>1. \A i \in 1 .. n : i # n + 1 /\ i \in 1 .. n + 1
      BY <1>1
    <2>2. n + 1 \in 1 .. n + 1 /\ \A i \in 1 .. n + 1 : i = n + 1 \/ i \in 1 .. n
      BY <1>1
    <2> QED
      BY <1>2, <1>3, <2>1, <2>2 DEF AlsoCut
  <1> HIDE DEF o
  <1>7. \A i \in 1 .. n + 1 : i = n + 1 \/ i \in 1 .. n
    BY <1>1
  <1>8. \A i, k \in 1 .. n + 1 : o[i] = o[k] => i = k
    BY <1>2, <1>3, <1>6, <1>7
  <1>9. \A i \in 1 .. n + 1 : q.groups[i] = d.groups[o[i]]
    BY <1>1, <1>3, <1>6, <1>7
  <1>10. \A i \in 1 .. m : o[i] = i
    <2>1. \A i \in 1 .. m : i \in 1 .. n
      BY <1>1, <1>4
    <2> QED
      BY <1>3, <1>6, <2>1
  <1>11. InOrder(q, d, w, o)
    BY <1>1, <1>6, <1>8, <1>9, <1>10 DEF InOrder, m
  <1>12. Rest(q, o) = Rest(r, p) \ {j}
    <2>1. Rest(q, o) = {k \in 1 .. 4 : \A i \in 1 .. n + 1 : o[i] # k}
      BY <1>1 DEF Rest
    <2>2. n + 1 \in 1 .. n + 1 /\ \A i \in 1 .. n : i \in 1 .. n + 1
      BY <1>1
    <2>3. ASSUME NEW k \in 1 .. 4
          PROVE  (\A i \in 1 .. n + 1 : o[i] # k) <=> (\A i \in 1 .. n : p[i] # k) /\ k # j
      BY <1>6, <1>7, <2>2
    <2> QED
      BY <1>5, <2>1, <2>3
  <1> QED
    BY <1>11, <1>12 DEF o, n

LEMMA FollowGroup ==
  ASSUME NEW w, IsWin(w), NEW d, IsDivision(d, w), NEW k, NEW r, IsPartial(r, w, k),
         NEW p, Follows(r, d, w, p), NEW j \in Rest(r, p), Len(r.groups) < MAX_MELDS
  PROVE  \E q : /\ CutGroup(r, d.groups[j].base, w.type, q)
                /\ Follows(q, d, w, AlsoCut(p, Len(r.groups), j))
  <1> DEFINE g == d.groups[j]
             i == g.base
             types == GroupTypes(g)
             n == IF g.kind = "SEQUENCE" THEN 1 ELSE 3
             wins == g.wins
             type == w.type
             rest == Rest(r, p)
             q == [tiles |-> Take(r.tiles, n, types), available |-> r.available /\ ~ wins,
                   groups |-> Append(r.groups, g),
                   pair |-> r.pair, pair_wins |-> r.pair_wins]
             paired == IF r.pair = NO_PAIR THEN 1 ELSE 0
  <1>1. rest \subseteq Due(w) /\ rest \in SUBSET (1 .. 4) /\ j \in rest
    BY RestIsDue DEF Follows
  <1>2. /\ g \in Groups /\ g.kind \in {"SEQUENCE", "TRIPLET"} /\ ~ g.open
        /\ i \in types /\ types \subseteq DOMAIN w.tiles
        /\ g.kind = "SEQUENCE" => StartsSequence(i) /\ types = SequenceFrom(i)
        /\ g.kind = "TRIPLET" => types = {i}
        /\ \A t : GroupCount(g, t) = IF t \in types THEN n ELSE 0
    BY <1>1, DueGroup
  <1>3. g = NewGroup(g.kind, i, wins) /\ wins \in BOOLEAN
    BY <1>2 DEF Groups, NewGroup
  <1>4. IsReading(d, w) /\ type \in DOMAIN w.tiles
    BY WinTypes DEF IsDivision
  <1>5. /\ r.tiles \in [DOMAIN w.tiles -> Nat] /\ r.available \in BOOLEAN
        /\ r.pair_wins \in BOOLEAN /\ r.groups \in Seq(Groups)
        /\ Len(w.melds) \in 0 .. 4 /\ Len(w.melds) <= Len(r.groups)
    BY WinTypes DEF IsPartial
  <1>6. /\ \A t \in DOMAIN w.tiles :
             r.tiles[t] = CountIn(d, rest, t) + (IF r.pair = NO_PAIR THEN 2 * One(t = d.pair) ELSE 0)
        /\ r.available <=> (r.pair = NO_PAIR /\ d.pair_wins) \/ \E l \in rest : d.groups[l].wins
        /\ IF r.pair = NO_PAIR THEN ~ r.pair_wins
                               ELSE r.pair = d.pair /\ r.pair_wins = d.pair_wins
    BY DEF Follows, IsRest
  <1> HIDE DEF rest
  <1>7. \A t : /\ CountIn(d, rest, t) \in Nat /\ CountIn(d, rest \ {j}, t) \in Nat
               /\ CountIn(d, rest \ {j}, t) = CountIn(d, rest, t) - GroupCount(g, t)
    BY <1>1, <1>4, CountFacts
  <1>8. \A t : One(t = d.pair) \in {0, 1}
    BY DEF One
  <1>9. \A t \in types : r.tiles[t] >= n
    <2>1. ASSUME NEW t \in types
          PROVE  r.tiles[t] >= n
      <3>1. /\ t \in DOMAIN w.tiles /\ GroupCount(g, t) = n
            /\ CountIn(d, rest \ {j}, t) \in Nat /\ CountIn(d, rest, t) \in Nat
            /\ CountIn(d, rest \ {j}, t) = CountIn(d, rest, t) - GroupCount(g, t)
        BY <1>2, <1>7
      <3>2. r.tiles[t] = CountIn(d, rest, t) + (IF r.pair = NO_PAIR THEN 2 * One(t = d.pair) ELSE 0)
        BY <1>6, <3>1
      <3>3. n \in Nat /\ One(t = d.pair) \in {0, 1}
        BY <1>8
      <3> HIDE DEF n, types, g
      <3> QED
        BY <3>1, <3>2, <3>3
    <2> QED
      BY <2>1
  <1>10. MayTake(r, n, types, type, wins)
    <2>1. CASE wins
      <3>1. type \in types /\ r.available
        BY <1>1, <1>6, <2>1, OnePlace
      <3> QED
        BY <2>1, <3>1 DEF MayTake
    <2>2. CASE ~ wins /\ r.available /\ type \in types
      <3>1. GroupCount(g, type) = n /\ n \in Nat
        BY <1>2, <2>2
      <3>2. CASE \E l \in rest : d.groups[l].wins
        <4>1. PICK l \in rest : d.groups[l].wins
          BY <3>2
        <4>2. l \in rest \ {j} /\ type \in GroupTypes(d.groups[l])
          BY <1>1, <2>2, <4>1, OnePlace
        <4>3. GroupCount(d.groups[l], type) \in {1, 3}
          BY <1>1, <4>2, DueGroup
        <4>4. CountIn(d, rest, type) >= GroupCount(g, type) + GroupCount(d.groups[l], type)
          BY <1>1, <1>4, <4>2, CountOfTwo
        <4>5. /\ r.tiles[type] = CountIn(d, rest, type)
                                   + (IF r.pair = NO_PAIR THEN 2 * One(type = d.pair) ELSE 0)
              /\ CountIn(d, rest, type) \in Nat /\ One(type = d.pair) \in {0, 1}
          BY <1>4, <1>6, <1>7, <1>8
        <4>6. r.tiles[type] > n
          <5> HIDE DEF n, g, types
          <5> QED
            BY <3>1, <4>3, <4>4, <4>5
        <4> QED
          BY <2>2, <4>6 DEF MayTake
      <3>3. CASE r.pair = NO_PAIR /\ d.pair_wins
        <4>1. type = d.pair /\ One(type = d.pair) = 1
          BY <3>3 DEF IsDivision, One
        <4>2. /\ r.tiles[type] = CountIn(d, rest, type) + 2 * One(type = d.pair)
              /\ CountIn(d, rest, type) \in Nat
              /\ CountIn(d, rest \ {j}, type) \in Nat
              /\ CountIn(d, rest \ {j}, type) = CountIn(d, rest, type) - GroupCount(g, type)
          BY <1>4, <1>6, <1>7, <3>3
        <4>3. r.tiles[type] > n
          <5> HIDE DEF n, g, types
          <5> QED
            BY <3>1, <4>1, <4>2
        <4> QED
          BY <2>2, <4>3 DEF MayTake
      <3> QED
        BY <1>6, <2>2, <3>2, <3>3
    <2>3. CASE ~ wins /\ ~ (r.available /\ type \in types)
      BY <2>3 DEF MayTake
    <2> QED
      BY <2>1, <2>2, <2>3
  <1>11. CutGroup(r, i, type, q)
    <2>1. /\ q.tiles = Take(r.tiles, n, types)
          /\ q = [tiles |-> q.tiles, available |-> r.available /\ ~ wins,
                  groups |-> Append(r.groups, NewGroup(g.kind, i, wins)),
                  pair |-> r.pair, pair_wins |-> r.pair_wins]
      BY <1>3
    <2> HIDE DEF q, g
    <2>2. CASE g.kind = "SEQUENCE"
      <3>1. types = SequenceFrom(i) /\ n = 1 /\ StartsSequence(i)
        BY <1>2, <2>2
      <3>2. HasSequence(r.tiles, i)
        BY <1>2, <1>5, <1>9, <3>1 DEF HasSequence, Contains
      <3> QED
        BY <1>3, <1>10, <2>1, <2>2, <3>1, <3>2 DEF CutGroup
    <2>3. CASE g.kind = "TRIPLET"
      <3>1. types = {i} /\ n = 3
        BY <1>2, <2>3
      <3> QED
        BY <1>3, <1>9, <1>10, <2>1, <2>3, <3>1 DEF CutGroup
    <2> QED
      BY <1>2, <2>2, <2>3
  <1>12. /\ InOrder(q, d, w, AlsoCut(p, Len(r.groups), j))
         /\ Rest(q, AlsoCut(p, Len(r.groups), j)) = rest \ {j}
    <2>1. q.groups = Append(r.groups, d.groups[j])
      OBVIOUS
    <2>2. InOrder(r, d, w, p) /\ d.groups[j] \in Groups
      BY <1>2 DEF Follows
    <2> HIDE DEF q, g
    <2> QED
      BY <1>5, <2>1, <2>2, NextInOrder DEF rest
  <1>13. IsRest(q, d, w, rest \ {j})
    <2>0. q.pair = r.pair /\ q.pair_wins = r.pair_wins
          /\ q.available = (r.available /\ ~ wins) /\ q.tiles = Take(r.tiles, n, types)
      OBVIOUS
    <2>1. ASSUME NEW t \in DOMAIN w.tiles
          PROVE  q.tiles[t] = CountIn(d, rest \ {j}, t)
                                + (IF q.pair = NO_PAIR THEN 2 * One(t = d.pair) ELSE 0)
      <3>1. q.tiles[t] = IF t \in types THEN r.tiles[t] - n ELSE r.tiles[t]
        BY <1>5, <2>0 DEF Take
      <3>2. GroupCount(g, t) = IF t \in types THEN n ELSE 0
        BY <1>2
      <3>3. /\ CountIn(d, rest \ {j}, t) = CountIn(d, rest, t) - GroupCount(g, t)
            /\ CountIn(d, rest, t) \in Nat /\ One(t = d.pair) \in {0, 1} /\ n \in Nat
        BY <1>7, <1>8
      <3>4. r.tiles[t] = CountIn(d, rest, t) + (IF q.pair = NO_PAIR THEN 2 * One(t = d.pair) ELSE 0)
        BY <1>6, <2>0
      <3> HIDE DEF q, g, n, types
      <3> QED
        BY <3>1, <3>2, <3>3, <3>4
    <2>2. q.available <=> (q.pair = NO_PAIR /\ d.pair_wins) \/ \E l \in rest \ {j} : d.groups[l].wins
      <3>1. wins => ~ d.pair_wins /\ \A l \in rest : d.groups[l].wins => l = j
        BY <1>1, OnePlace
      <3>2. \A l \in rest : d.groups[l].wins => l = j \/ l \in rest \ {j}
        OBVIOUS
      <3> HIDE DEF q
      <3>3. CASE wins
        BY <2>0, <3>1, <3>3
      <3>4. CASE ~ wins
        BY <1>6, <2>0, <3>2, <3>4
      <3> QED
        BY <3>3, <3>4
    <2> HIDE DEF q
    <2>3. IF q.pair = NO_PAIR THEN ~ q.pair_wins ELSE q.pair = d.pair /\ q.pair_wins = d.pair_wins
      BY <1>6, <2>0
    <2> QED
      BY <2>1, <2>2, <2>3 DEF IsRest
  <1> HIDE DEF q
  <1> QED
    BY <1>11, <1>12, <1>13 DEF Follows, rest

\* Fewer than four groups leave one; four leave none.
LEMMA RestOfFew ==
  ASSUME NEW n \in 0 .. 3, NEW p \in [1 .. n -> 1 .. 4]
  PROVE  \E j \in 1 .. 4 : \A i \in 1 .. n : p[i] # j
  <1>1. CASE n = 0
    BY <1>1
  <1>2. CASE n = 1
    <2>1. \A i \in 1 .. n : i = 1
      BY <1>2
    <2>2. p[1] # 1 \/ p[1] # 2
      OBVIOUS
    <2> QED
      BY <2>1, <2>2
  <1>3. CASE n = 2
    <2>1. \A i \in 1 .. n : i \in {1, 2}
      BY <1>3
    <2>2. \E j \in {1, 2, 3} : p[1] # j /\ p[2] # j
      OBVIOUS
    <2>3. \A i \in 1 .. n : p[i] = p[1] \/ p[i] = p[2]
      BY <2>1
    <2> QED
      BY <2>2, <2>3
  <1>4. CASE n = 3
    <2>1. \A i \in 1 .. n : i \in {1, 2, 3}
      BY <1>4
    <2>2. \E j \in {1, 2, 3, 4} : p[1] # j /\ p[2] # j /\ p[3] # j
      OBVIOUS
    <2>3. \A i \in 1 .. n : p[i] = p[1] \/ p[i] = p[2] \/ p[i] = p[3]
      BY <2>1
    <2> QED
      BY <2>2, <2>3
  <1> QED
    BY <1>1, <1>2, <1>3, <1>4

LEMMA RestOfFour ==
  ASSUME NEW p \in [1 .. 4 -> 1 .. 4], \A i, j \in 1 .. 4 : p[i] = p[j] => i = j,
         NEW k \in 1 .. 4
  PROVE  \E i \in 1 .. 4 : p[i] = k
  <1>1. /\ p[1] \in 1 .. 4 /\ p[2] \in 1 .. 4 /\ p[3] \in 1 .. 4 /\ p[4] \in 1 .. 4
        /\ p[1] # p[2] /\ p[1] # p[3] /\ p[1] # p[4] /\ p[2] # p[3] /\ p[2] # p[4]
        /\ p[3] # p[4]
    OBVIOUS
  <1>2. p[1] = k \/ p[2] = k \/ p[3] = k \/ p[4] = k
    BY <1>1
  <1> QED
    BY <1>2

\* The first tile left is the pair's or begins one of the groups left.
LEMMA FirstBelongs ==
  ASSUME NEW w, IsWin(w), NEW d, IsDivision(d, w), NEW k, NEW r, IsPartial(r, w, k),
         NEW p, Follows(r, d, w, p),
         r.pair = NO_PAIR \/ Rest(r, p) # {}
  PROVE  /\ Held(r.tiles) # {}
         /\ \/ r.pair = NO_PAIR /\ Min(Held(r.tiles)) = d.pair
            \/ \E j \in Rest(r, p) : Min(Held(r.tiles)) = d.groups[j].base
  <1> DEFINE rest == Rest(r, p)
             D == DOMAIN w.tiles
             i == Min(Held(r.tiles))
  <1>1. rest \subseteq Due(w) /\ rest \in SUBSET (1 .. 4)
    BY RestIsDue DEF Follows
  <1>2. /\ r.tiles \in [D -> Nat]
        /\ \A t \in D : r.tiles[t] = CountIn(d, rest, t)
                                       + (IF r.pair = NO_PAIR THEN 2 * One(t = d.pair) ELSE 0)
    BY DEF IsPartial, Follows, IsRest
  <1>3. IsTypes(D) /\ D \subseteq TileType /\ IsReading(d, w) /\ d.pair \in D
    BY WinTypes, DuePair DEF IsDivision
  <1> HIDE DEF rest
  <1>4. \A t : CountIn(d, rest, t) \in Nat /\ One(t = d.pair) \in {0, 1}
    BY <1>1, <1>3, CountFacts DEF One
  <1>5. \A j \in rest :
          /\ d.groups[j].base \in GroupTypes(d.groups[j])
          /\ GroupTypes(d.groups[j]) \subseteq D
          /\ \A t \in GroupTypes(d.groups[j]) : r.tiles[t] > 0
    <2>1. ASSUME NEW j \in rest, NEW t \in GroupTypes(d.groups[j])
          PROVE  r.tiles[t] > 0
      <3>1. t \in D /\ GroupCount(d.groups[j], t) \in {1, 3}
        BY <1>1, DueGroup
      <3>2. CountIn(d, rest, t) >= GroupCount(d.groups[j], t)
        BY <1>1, <1>3, CountOfTwo
      <3> QED
        BY <1>2, <1>4, <3>1, <3>2
    <2> QED
      BY <1>1, <2>1, DueGroup
  <1>6. Held(r.tiles) # {}
    <2>1. CASE r.pair = NO_PAIR
      <3>1. One(d.pair = d.pair) = 1
        BY DEF One
      <3>2. r.tiles[d.pair] > 0
        BY <1>2, <1>3, <1>4, <2>1, <3>1
      <3> QED
        BY <1>2, <1>3, <3>2 DEF Held
    <2>2. CASE rest # {}
      <3>1. PICK j : j \in rest
        BY <2>2
      <3> QED
        BY <1>2, <1>5, <3>1 DEF Held
    <2> QED
      BY <2>1, <2>2 DEF rest
  <1>7. i \in D /\ r.tiles[i] > 0 /\ \A t \in D : r.tiles[t] > 0 => i <= t
    BY <1>2, <1>3, <1>6, FirstTile DEF IsFirst
  <1> HIDE DEF i
  <1>8. CASE r.pair = NO_PAIR /\ i = d.pair
    BY <1>6, <1>8 DEF i
  <1>9. CASE ~ (r.pair = NO_PAIR /\ i = d.pair)
    <2>1. CountIn(d, rest, i) > 0
      <3>1. i # d.pair => One(i = d.pair) = 0
        BY DEF One
      <3>2. r.tiles[i] = CountIn(d, rest, i) + (IF r.pair = NO_PAIR THEN 2 * One(i = d.pair) ELSE 0)
        BY <1>2, <1>7
      <3> QED
        BY <1>4, <1>7, <1>9, <3>1, <3>2
    <2>2. PICK j \in rest : GroupCount(d.groups[j], i) > 0
      BY <1>1, <1>3, <2>1, CountFacts
    <2> DEFINE g == d.groups[j]
    <2>3. i \in GroupTypes(g)
      BY <1>1, <2>2, DueGroup
    <2>4. /\ g.kind \in {"SEQUENCE", "TRIPLET"} /\ g.base \in D
          /\ g.kind = "SEQUENCE" => GroupTypes(g) = SequenceFrom(g.base)
          /\ g.kind = "TRIPLET" => GroupTypes(g) = {g.base}
      BY <1>1, <1>5, DueGroup
    <2>5. i <= g.base
      BY <1>5, <1>7, <2>4
    <2> HIDE DEF g
    <2>6. i = g.base
      <3>1. CASE g.kind = "SEQUENCE"
        <4>1. i \in g.base .. (g.base + 2) /\ g.base \in Nat /\ i \in Nat
          BY <1>3, <1>7, <2>3, <2>4, <3>1 DEF SequenceFrom, IsTypes
        <4> QED
          BY <2>5, <4>1
      <3>2. CASE g.kind = "TRIPLET"
        BY <2>3, <2>4, <3>2
      <3> QED
        BY <2>4, <3>1, <3>2
    <2> QED
      BY <1>6, <2>6 DEF i, g, rest
  <1> QED
    BY <1>8, <1>9

LEMMA FollowStep ==
  ASSUME NEW w, IsWin(w), NEW d, IsDivision(d, w), NEW k \in Nat, NEW r, IsPartial(r, w, k),
         NEW p, Follows(r, d, w, p), Len(w.melds) + k < 5
  PROVE  \E q \in Divided(r, w.type) : \E o : Follows(q, d, w, o)
  <1> DEFINE n == Len(r.groups)
             m == Len(w.melds)
             one == One(r.pair # NO_PAIR)
             i == Min(Held(r.tiles))
  <1>1. m \in 0 .. 4 /\ n \in Nat /\ n <= 4 /\ n + one = m + k
    BY WinTypes DEF IsPartial, MAX_MELDS
  <1>2. one = IF r.pair = NO_PAIR THEN 0 ELSE 1
    BY DEF One
  <1>3. r.pair # NO_PAIR => n \in 0 .. 3
    <2>1. m + k < 5
      OBVIOUS
    <2> HIDE DEF n, m, one
    <2> QED
      BY <1>1, <1>2, <2>1
  <1>4. p \in [1 .. n -> 1 .. 4]
    BY DEF Follows, InOrder
  <1>5. r.pair = NO_PAIR \/ Rest(r, p) # {}
    BY <1>3, <1>4, RestOfFew DEF Rest
  <1>6. /\ Held(r.tiles) # {}
        /\ \/ r.pair = NO_PAIR /\ i = d.pair
           \/ \E j \in Rest(r, p) : i = d.groups[j].base
    BY <1>5, FirstBelongs
  <1> HIDE DEF i
  <1>7. CASE r.pair = NO_PAIR /\ i = d.pair
    BY <1>6, <1>7, FollowPair, DividedMeans DEF i
  <1>8. CASE \E j \in Rest(r, p) : i = d.groups[j].base
    <2>1. PICK j \in Rest(r, p) : i = d.groups[j].base
      BY <1>8
    <2>2. n < MAX_MELDS
      <3>1. j \in 1 .. 4 /\ \A l \in 1 .. n : p[l] # j
        BY DEF Rest
      <3>2. CASE n = 4
        <4>1. \A l, h \in 1 .. n : p[l] = p[h] => l = h
          BY DEF Follows, InOrder
        <4> QED
          <5> HIDE DEF n
          <5>1. p \in [1 .. 4 -> 1 .. 4] /\ \A l, h \in 1 .. 4 : p[l] = p[h] => l = h
            BY <1>4, <3>2, <4>1
          <5>2. \E l \in 1 .. 4 : p[l] = j
            BY <3>1, <5>1, RestOfFour
          <5> QED
            BY <3>1, <3>2, <5>2
      <3> HIDE DEF n
      <3> QED
        BY <1>1, <3>2 DEF MAX_MELDS
    <2> QED
      <3>1. PICK q : /\ CutGroup(r, d.groups[j].base, w.type, q)
                     /\ Follows(q, d, w, AlsoCut(p, Len(r.groups), j))
        BY <2>2, FollowGroup
      <3>2. q \in Divided(r, w.type)
        BY <1>6, <2>1, <3>1, DividedMeans DEF i
      <3> QED
        BY <3>1, <3>2
  <1> QED
    BY <1>6, <1>7, <1>8

\* The same groups in another order.
IsOrder(p) == p \in [1 .. 4 -> 1 .. 4] /\ \A i, j \in 1 .. 4 : p[i] = p[j] => i = j

Rearranged(e, d) ==
  /\ e.pair = d.pair /\ e.pair_wins = d.pair_wins
  /\ \E p : IsOrder(p) /\ \A i \in 1 .. 4 : e.groups[i] = d.groups[p[i]]

LEMMA UndividedFollows ==
  ASSUME NEW w, IsWin(w), NEW d, IsDivision(d, w), NEW c, c.win # NONE
  PROVE  \E p : Follows(Undivided(w, c), d, w, p)
  <1> DEFINE r == Undivided(w, c)
             m == Len(w.melds)
             p == [i \in 1 .. m |-> i]
  <1>1. /\ r.tiles = w.tiles /\ r.available = TRUE /\ r.groups = Melds(w)
        /\ r.pair = NO_PAIR /\ r.pair_wins = FALSE
    BY DEF Undivided
  <1>2. m \in 0 .. 4 /\ DOMAIN w.melds = 1 .. m /\ DOMAIN w.tiles \subseteq TileType
    BY WinTypes
  <1>3. \A i \in 1 .. 4 : i <= m => d.groups[i] = MeldGroup(w.melds[i])
    BY DEF IsDivision, IsReading
  <1>4. d.pair # NO_PAIR
    BY DuePair
  <1>5. Due(w) = (m + 1) .. 4
    BY DEF Due
  <1>6. /\ \A t \in TileType : HeldOf(w, t) = CountIn(d, Due(w), t) + 2 * One(t = d.pair)
        /\ d.pair_wins \/ \E j \in Due(w) : d.groups[j].wins
    BY DEF IsDivision
  <1>7. DOMAIN Melds(w) = 1 .. m /\ \A i \in 1 .. m : Melds(w)[i] = MeldGroup(w.melds[i])
    BY <1>2 DEF Melds
  <1> HIDE DEF r, m
  <1>8. Len(r.groups) = m
    BY <1>1, <1>2, <1>7
  <1>9. p \in [1 .. m -> 1 .. 4] /\ \A i \in 1 .. m : p[i] = i /\ i \in 1 .. 4 /\ i <= m
    BY <1>2
  <1> HIDE DEF p
  <1>10. InOrder(r, d, w, p)
    <2>1. \A i \in 1 .. m : r.groups[i] = d.groups[p[i]]
      BY <1>1, <1>3, <1>7, <1>9
    <2>2. \A i, j \in 1 .. m : p[i] = p[j] => i = j
      BY <1>9
    <2>3. \A i \in 1 .. Len(w.melds) : p[i] = i
      BY <1>9 DEF m
    <2> QED
      BY <1>8, <1>9, <2>1, <2>2, <2>3 DEF InOrder
  <1>11. Rest(r, p) = Due(w)
    <2>1. ASSUME NEW j \in 1 .. 4
          PROVE  (\A i \in 1 .. m : p[i] # j) <=> j \in (m + 1) .. 4
      <3>1. CASE j <= m
        <4>1. j \in 1 .. m
          BY <1>2, <3>1
        <4> QED
          BY <1>2, <1>9, <3>1, <4>1
      <3>2. CASE ~ (j <= m)
        <4>1. j \in (m + 1) .. 4
          BY <1>2, <3>2
        <4> QED
          BY <1>9, <3>2, <4>1
      <3> QED
        BY <3>1, <3>2
    <2>2. \A j \in (m + 1) .. 4 : j \in 1 .. 4
      BY <1>2
    <2> QED
      BY <1>5, <1>8, <2>1, <2>2 DEF Rest
  <1>12. IsRest(r, d, w, Due(w))
    <2>1. \A t \in DOMAIN w.tiles : r.tiles[t] = CountIn(d, Due(w), t) + 2 * One(t = d.pair)
      BY <1>1, <1>2, <1>6 DEF HeldOf
    <2> QED
      BY <1>1, <1>6, <2>1 DEF IsRest
  <1> QED
    BY <1>10, <1>11, <1>12 DEF Follows, r

LEMMA FollowedToTheEnd ==
  ASSUME NEW w, IsWin(w), NEW d, IsDivision(d, w), NEW k \in Nat, NEW r, IsPartial(r, w, k),
         NEW p, Follows(r, d, w, p), Len(w.melds) + k = 5
  PROVE  IsWhole(r) /\ Rearranged(ReadingOf(r), d)
  <1> DEFINE n == Len(r.groups)
             m == Len(w.melds)
             one == One(r.pair # NO_PAIR)
  <1>1. m \in 0 .. 4 /\ n \in Nat /\ n <= 4 /\ n + one = m + k /\ m + k = 5
    BY WinTypes DEF IsPartial, MAX_MELDS
  <1>2. one = IF r.pair = NO_PAIR THEN 0 ELSE 1
    BY DEF One
  <1>3. n = 4 /\ r.pair # NO_PAIR
    <2> HIDE DEF n, m, one
    <2> QED
      BY <1>1, <1>2
  <1>4. /\ p \in [1 .. n -> 1 .. 4] /\ \A i, j \in 1 .. n : p[i] = p[j] => i = j
        /\ \A i \in 1 .. n : r.groups[i] = d.groups[p[i]]
        /\ Rest(r, p) = {j \in 1 .. 4 : \A i \in 1 .. n : p[i] # j}
    BY DEF Follows, InOrder, Rest
  <1>5. IsOrder(p) /\ \A i \in 1 .. 4 : r.groups[i] = d.groups[p[i]]
    <2> HIDE DEF n
    <2> QED
      BY <1>3, <1>4 DEF IsOrder
  <1>6. Rest(r, p) = {}
    <2> HIDE DEF n
    <2>1. \A j \in 1 .. 4 : \E i \in 1 .. 4 : p[i] = j
      BY <1>5, RestOfFour DEF IsOrder
    <2> QED
      BY <1>3, <1>4, <2>1
  <1>7. /\ \A t \in DOMAIN w.tiles : r.tiles[t] = CountIn(d, {}, t) + 0
        /\ r.pair = d.pair /\ r.pair_wins = d.pair_wins /\ ~ r.available
    BY <1>3, <1>6 DEF Follows, IsRest
  <1>8. Held(r.tiles) = {}
    <2>1. IsReading(d, w)
      BY DEF IsDivision
    <2>2. \A t \in DOMAIN w.tiles : ~ (r.tiles[t] > 0)
      BY <1>7, <2>1, CountOfNone
    <2>3. DOMAIN r.tiles = DOMAIN w.tiles
      BY DEF IsPartial
    <2> QED
      BY <2>2, <2>3 DEF Held
  <1>9. IsWhole(r)
    BY <1>3, <1>7, <1>8 DEF IsWhole, MAX_MELDS
  <1>10. /\ ReadingOf(r).groups = r.groups /\ ReadingOf(r).pair = r.pair
         /\ ReadingOf(r).pair_wins = r.pair_wins
    BY DEF ReadingOf
  <1> QED
    BY <1>5, <1>7, <1>9, <1>10 DEF Rearranged

\* Whatever way there is to read a hand, the search finds it, up to the order
\* of its groups.
LEMMA EveryDivisionIsFound ==
  ASSUME NEW w, IsWin(w), NEW d, IsDivision(d, w), NEW c, c.win # NONE
  PROVE  \E e \in ReadingsOf(w, c) : Rearranged(e, d)
  <1> DEFINE Done(k) == \E r \in Partly(w, c)[k] : \E p : IsPartial(r, w, k) /\ Follows(r, d, w, p)
             T == {k \in 0 .. 5 : Len(w.melds) + k <= 5 => Done(k)}
             m == Len(w.melds)
  <1>1. m \in 0 .. 4
    BY WinTypes
  <1>2. 0 \in T
    BY PartlyRule, UndividedIsPartial, UndividedFollows
  <1>3. ASSUME NEW k \in 0 .. 4, k \in T
        PROVE  k + 1 \in T
    <2>1. k + 1 \in 0 .. 5 /\ k \in Nat
      OBVIOUS
    <2>2. ASSUME m + (k + 1) <= 5
          PROVE  Done(k + 1)
      <3>1. m + k <= 5 /\ m + k < 5
        <4> HIDE DEF m
        <4> QED
          BY <1>1, <2>2
      <3> HIDE DEF Done
      <3>2. Done(k)
        BY <1>3, <3>1
      <3>3. PICK r \in Partly(w, c)[k] : \E p : IsPartial(r, w, k) /\ Follows(r, d, w, p)
        BY <3>2 DEF Done
      <3>4. PICK q \in Divided(r, w.type) : \E o : Follows(q, d, w, o)
        BY <2>1, <3>1, <3>3, FollowStep
      <3>5. q \in Partly(w, c)[k + 1]
        BY <3>3, <3>4, FurtherPartly DEF Further
      <3>6. IsPartial(q, w, k + 1)
        BY <2>1, <3>3, <3>4, PartialStep
      <3> QED
        BY <3>4, <3>5, <3>6 DEF Done
    <2> HIDE DEF Done
    <2> QED
      BY <2>1, <2>2
  <1>4. \A k \in 0 .. 5 : k \in T
    <2> HIDE DEF T
    <2> QED
      BY <1>2, <1>3, UpToFive
  <1> DEFINE k == 5 - m
  <1>5. k \in 0 .. 5 /\ m + k = 5 /\ k \in Nat
    <2> HIDE DEF m
    <2> QED
      BY <1>1
  <1> HIDE DEF k
  <1>6. Done(k)
    BY <1>4, <1>5
  <1>7. PICK r \in Partly(w, c)[k] : \E p : IsPartial(r, w, k) /\ Follows(r, d, w, p)
    BY <1>6
  <1>8. IsWhole(r) /\ Rearranged(ReadingOf(r), d)
    BY <1>5, <1>7, FollowedToTheEnd
  <1>9. k = MAX_MELDS + 1 - Len(w.melds)
    BY <1>1 DEF k, MAX_MELDS
  <1>10. ReadingOf(r) \in ReadingsOf(w, c)
    BY <1>7, <1>8, <1>9, ReadingsArePartly
  <1> QED
    BY <1>8, <1>10
-----------------------------------------------------------------------------
(* The order of its groups does not matter to a reading                     *)

Bases(gs)    == {gs[i].base : i \in {j \in DOMAIN gs : IsSequence(gs[j])}}
Triplets(gs) == {i \in DOMAIN gs : ~ IsSequence(gs[i])}
Types(gs)    == {gs[i].base : i \in Triplets(gs)}
Concealed(c, gs) == Cardinality({i \in Triplets(gs) : IsConcealedTriplet(gs[i], c)})

\* The conditions of the yaku of a reading, and what they are about.
AllYaochu(d) ==
  /\ Bases(d.groups) # {} /\ IsYaochu(d.pair)
  /\ \A i \in DOMAIN d.groups : HasYaochu(d.groups[i])
OpenWait(w, d) == \E i \in DOMAIN d.groups : IsRyanmenWait(d.groups[i], w.type)
ThreeSuits(bases) == \E b \in bases : {b, b + 9, b + 18} \subseteq bases
Straight(bases) == \E b \in bases : Number(b) = 1 /\ {b, b + 3, b + 6} \subseteq bases
ThreeTriplets(types) == \E t \in types : Suit(t) = MANZU /\ {t, t + 9, t + 18} \subseteq types

LEMMA DecompositionIs ==
  ASSUME NEW w, NEW c, NEW d
  PROVE  DecompositionYaku(w, c, d) =
    When(/\ IsClosed(w) /\ Triplets(d.groups) = {} /\ ~ d.pair_wins
         /\ ~ IsValuePair(w, d.pair) /\ OpenWait(w, d), "PINFU")
     \cup When(IsClosed(w) /\ EqualSequences(d.groups) = 1, "IIPEIKOU")
     \cup When(IsClosed(w) /\ EqualSequences(d.groups) >= 2, "RYANPEIKOU")
     \cup When(ThreeSuits(Bases(d.groups)), "SANSHOKU_DOUJUN")
     \cup When(Straight(Bases(d.groups)), "ITTSUU")
     \cup When(ThreeTriplets(Types(d.groups)), "SANSHOKU_DOUKOU")
     \cup When(AllYaochu(d) /\ ~ c.honor, "JUNCHAN")
     \cup When(AllYaochu(d) /\ c.honor, "CHANTA")
     \cup When(Concealed(c, d.groups) >= 3, "SANANKOU")
     \cup When(Cardinality(Types(d.groups) \cap Dragons) = 2 /\ d.pair \in Dragons, "SHOUSANGEN")
     \cup When(Cardinality(Types(d.groups) \cap Winds) = 3 /\ d.pair \in Winds, "SHOUSUUSHII")
     \cup When(Concealed(c, d.groups) = 4, "SUUANKOU")
     \cup When(Concealed(c, d.groups) = 4 /\ d.pair_wins, "SUUANKOU_TANKI")
     \cup When(Cardinality(Triplets(d.groups)) = 4, "TOITOI")
  BY DEF DecompositionYaku, Bases, Triplets, Types, Concealed, AllYaochu, OpenWait,
         ThreeSuits, Straight, ThreeTriplets

\* What decides the yaku of a reading.
SameShape(w, c, d, v, b, e) ==
  /\ IsClosed(w) <=> IsClosed(v)
  /\ Triplets(d.groups) = {} <=> Triplets(e.groups) = {}
  /\ d.pair_wins = e.pair_wins
  /\ IsValuePair(w, d.pair) <=> IsValuePair(v, e.pair)
  /\ OpenWait(w, d) <=> OpenWait(v, e)
  /\ EqualSequences(d.groups) = EqualSequences(e.groups)
  /\ ThreeSuits(Bases(d.groups)) <=> ThreeSuits(Bases(e.groups))
  /\ Straight(Bases(d.groups)) <=> Straight(Bases(e.groups))
  /\ ThreeTriplets(Types(d.groups)) <=> ThreeTriplets(Types(e.groups))
  /\ AllYaochu(d) <=> AllYaochu(e)
  /\ c.honor <=> b.honor
  /\ Concealed(c, d.groups) = Concealed(b, e.groups)
  /\ Cardinality(Types(d.groups) \cap Dragons) = Cardinality(Types(e.groups) \cap Dragons)
  /\ Cardinality(Types(d.groups) \cap Winds) = Cardinality(Types(e.groups) \cap Winds)
  /\ d.pair \in Dragons <=> e.pair \in Dragons
  /\ d.pair \in Winds <=> e.pair \in Winds
  /\ Cardinality(Triplets(d.groups)) = Cardinality(Triplets(e.groups))

LEMMA SameYaku ==
  ASSUME NEW w, NEW c, NEW d, NEW v, NEW b, NEW e, SameShape(w, c, d, v, b, e)
  PROVE  DecompositionYaku(w, c, d) = DecompositionYaku(v, b, e)
  <1>1. When(IsClosed(w) /\ Triplets(d.groups) = {} /\ ~ d.pair_wins /\ ~ IsValuePair(w, d.pair) /\ OpenWait(w, d), "PINFU")
          = When(IsClosed(v) /\ Triplets(e.groups) = {} /\ ~ e.pair_wins /\ ~ IsValuePair(v, e.pair) /\ OpenWait(v, e), "PINFU")
    BY DEF When, SameShape
  <1>2. When(IsClosed(w) /\ EqualSequences(d.groups) = 1, "IIPEIKOU")
          = When(IsClosed(v) /\ EqualSequences(e.groups) = 1, "IIPEIKOU")
    BY DEF When, SameShape
  <1>3. When(IsClosed(w) /\ EqualSequences(d.groups) >= 2, "RYANPEIKOU")
          = When(IsClosed(v) /\ EqualSequences(e.groups) >= 2, "RYANPEIKOU")
    BY DEF When, SameShape
  <1>4. When(ThreeSuits(Bases(d.groups)), "SANSHOKU_DOUJUN")
          = When(ThreeSuits(Bases(e.groups)), "SANSHOKU_DOUJUN")
    BY DEF When, SameShape
  <1>5. When(Straight(Bases(d.groups)), "ITTSUU")
          = When(Straight(Bases(e.groups)), "ITTSUU")
    BY DEF When, SameShape
  <1>6. When(ThreeTriplets(Types(d.groups)), "SANSHOKU_DOUKOU")
          = When(ThreeTriplets(Types(e.groups)), "SANSHOKU_DOUKOU")
    BY DEF When, SameShape
  <1>7. When(AllYaochu(d) /\ ~ c.honor, "JUNCHAN")
          = When(AllYaochu(e) /\ ~ b.honor, "JUNCHAN")
    BY DEF When, SameShape
  <1>8. When(AllYaochu(d) /\ c.honor, "CHANTA")
          = When(AllYaochu(e) /\ b.honor, "CHANTA")
    BY DEF When, SameShape
  <1>9. When(Concealed(c, d.groups) >= 3, "SANANKOU")
          = When(Concealed(b, e.groups) >= 3, "SANANKOU")
    BY DEF When, SameShape
  <1>10. When(Cardinality(Types(d.groups) \cap Dragons) = 2 /\ d.pair \in Dragons, "SHOUSANGEN")
          = When(Cardinality(Types(e.groups) \cap Dragons) = 2 /\ e.pair \in Dragons, "SHOUSANGEN")
    BY DEF When, SameShape
  <1>11. When(Cardinality(Types(d.groups) \cap Winds) = 3 /\ d.pair \in Winds, "SHOUSUUSHII")
          = When(Cardinality(Types(e.groups) \cap Winds) = 3 /\ e.pair \in Winds, "SHOUSUUSHII")
    BY DEF When, SameShape
  <1>12. When(Concealed(c, d.groups) = 4, "SUUANKOU")
          = When(Concealed(b, e.groups) = 4, "SUUANKOU")
    BY DEF When, SameShape
  <1>13. When(Concealed(c, d.groups) = 4 /\ d.pair_wins, "SUUANKOU_TANKI")
          = When(Concealed(b, e.groups) = 4 /\ e.pair_wins, "SUUANKOU_TANKI")
    BY DEF When, SameShape
  <1>14. When(Cardinality(Triplets(d.groups)) = 4, "TOITOI")
          = When(Cardinality(Triplets(e.groups)) = 4, "TOITOI")
    BY DEF When, SameShape
  <1> QED
    BY <1>1, <1>2, <1>3, <1>4, <1>5, <1>6, <1>7, <1>8, <1>9, <1>10, <1>11, <1>12, <1>13, <1>14, DecompositionIs

\* Counting in another order.
LEMMA OrderOnto ==
  ASSUME NEW p, IsOrder(p)
  PROVE  \A k \in 1 .. 4 : \E i \in 1 .. 4 : p[i] = k
  BY RestOfFour DEF IsOrder

LEMMA CountInOrder ==
  ASSUME NEW p, IsOrder(p), NEW s \in SUBSET (1 .. 4), NEW t \in SUBSET (1 .. 4),
         \A i \in 1 .. 4 : i \in s <=> p[i] \in t
  PROVE  Cardinality(s) = Cardinality(t)
  <1> DEFINE f == [i \in s |-> p[i]]
  <1>1. f \in Bijection(s, t)
    <2>1. f \in [s -> t] /\ \A i, j \in s : f[i] = f[j] => i = j
      BY DEF IsOrder
    <2>2. \A k \in t : \E i \in s : f[i] = k
      BY OrderOnto
    <2> HIDE DEF f
    <2> QED
      BY <2>1, <2>2 DEF Bijection, Injection, Surjection, IsInjective
  <1>2. IsFiniteSet(1 .. 4)
    <2>1. 1 \in Int /\ 4 \in Int
      OBVIOUS
    <2> QED
      BY <2>1, FS_Interval
  <1>3. IsFiniteSet(s)
    BY <1>2, FS_Subset
  <1> HIDE DEF f
  <1> QED
    BY <1>1, <1>3, FS_Bijection DEF ExistsBijection

LEMMA SumInOrder ==
  ASSUME NEW p, IsOrder(p), NEW f \in [1 .. 4 -> Int]
  PROVE  f[1] + f[2] + f[3] + f[4] = f[p[1]] + f[p[2]] + f[p[3]] + f[p[4]]
  <1>1. /\ p[1] \in 1 .. 4 /\ p[2] \in 1 .. 4 /\ p[3] \in 1 .. 4 /\ p[4] \in 1 .. 4
        /\ p[1] # p[2] /\ p[1] # p[3] /\ p[1] # p[4] /\ p[2] # p[3] /\ p[2] # p[4]
        /\ p[3] # p[4]
    BY DEF IsOrder
  <1>2. f[1] \in Int /\ f[2] \in Int /\ f[3] \in Int /\ f[4] \in Int
    OBVIOUS
  <1> HIDE <1>1
  <1>3. CASE p[1] = 1
    BY <1>1, <1>2, <1>3
  <1>4. CASE p[1] = 2
    BY <1>1, <1>2, <1>4
  <1>5. CASE p[1] = 3
    BY <1>1, <1>2, <1>5
  <1>6. CASE p[1] = 4
    BY <1>1, <1>2, <1>6
  <1>7. p[1] \in {1, 2, 3, 4}
    BY <1>1
  <1> QED
    BY <1>3, <1>4, <1>5, <1>6, <1>7

\* How often each sequence is there decides how many are equal.
Times(gs, b) == Cardinality({i \in DOMAIN gs : IsSequence(gs[i]) /\ gs[i].base = b})
EveryBase(gs) == {g.base : g \in {gs[i] : i \in DOMAIN gs}}

LEMMA EqualIs ==
  ASSUME NEW gs
  PROVE  EqualSequences(gs) = SumFunction([b \in EveryBase(gs) |-> Times(gs, b) \div 2])
  BY DEF EqualSequences, EveryBase, Times

LEMMA RearrangedYaku ==
  ASSUME NEW w, NEW d, IsReading(d, w), NEW e, IsReading(e, w), Rearranged(e, d), NEW c
  PROVE  DecompositionYaku(w, c, e) = DecompositionYaku(w, c, d)
  <1> DEFINE ds == d.groups
             es == e.groups
  <1>1. DOMAIN ds = 1 .. 4 /\ DOMAIN es = 1 .. 4
    BY ReadingHasGroups
  <1>2. PICK p : IsOrder(p) /\ \A i \in 1 .. 4 : es[i] = ds[p[i]]
    BY DEF Rearranged
  <1>3. /\ \A i \in 1 .. 4 : p[i] \in 1 .. 4
        /\ \A k \in 1 .. 4 : \E i \in 1 .. 4 : p[i] = k
    BY <1>2, OrderOnto DEF IsOrder
  <1>4. e.pair = d.pair /\ e.pair_wins = d.pair_wins
    BY DEF Rearranged
  <1> HIDE DEF ds, es
  <1>5. Bases(es) = Bases(ds) /\ Types(es) = Types(ds) /\ EveryBase(es) = EveryBase(ds)
    BY <1>1, <1>2, <1>3 DEF Bases, Types, Triplets, EveryBase
  <1>6. Cardinality(Triplets(es)) = Cardinality(Triplets(ds))
    BY <1>1, <1>2, <1>3, CountInOrder DEF Triplets
  <1>7. Concealed(c, es) = Concealed(c, ds)
    BY <1>1, <1>2, <1>3, CountInOrder DEF Triplets, Concealed
  <1>8. \A b : Times(es, b) = Times(ds, b)
    BY <1>1, <1>2, <1>3, CountInOrder DEF Times
  <1>9. EqualSequences(es) = EqualSequences(ds)
    BY <1>5, <1>8, EqualIs
  <1>10. Triplets(es) = {} <=> Triplets(ds) = {}
    BY <1>1, <1>2, <1>3 DEF Triplets
  <1>11. OpenWait(w, e) <=> OpenWait(w, d)
    BY <1>1, <1>2, <1>3 DEF OpenWait, ds, es
  <1>12. AllYaochu(e) <=> AllYaochu(d)
    BY <1>1, <1>2, <1>3, <1>4, <1>5 DEF AllYaochu, ds, es
  <1>13. /\ Bases(e.groups) = Bases(d.groups) /\ Types(e.groups) = Types(d.groups)
         /\ Concealed(c, e.groups) = Concealed(c, d.groups)
         /\ EqualSequences(e.groups) = EqualSequences(d.groups)
         /\ Cardinality(Triplets(e.groups)) = Cardinality(Triplets(d.groups))
         /\ Triplets(e.groups) = {} <=> Triplets(d.groups) = {}
    BY <1>5, <1>6, <1>7, <1>9, <1>10 DEF ds, es
  <1>14. SameShape(w, c, e, w, c, d)
    BY <1>4, <1>11, <1>12, <1>13 DEF SameShape
  <1> QED
    BY <1>14, SameYaku

\* The fu of a reading from those of its pair, its wait and its groups.
FuFrom(how, closed, pair, wait, groups, yaku) ==
  LET pinfu == "PINFU" \in yaku
      fu == 20 + (IF how = "RON" /\ closed THEN 10 ELSE 0) + (IF how = "TSUMO" THEN 2 ELSE 0)
               + (pair + (IF pinfu THEN 0 ELSE wait) + groups)
  IN CASE "CHIITOI" \in yaku -> 25
       [] "CHIITOI" \notin yaku /\ pinfu /\ how = "TSUMO" -> 20
       [] OTHER -> IF fu = 20 /\ how = "RON" THEN 30 ELSE RoundUp10(fu)

LEMMA FuIs ==
  ASSUME NEW w, NEW c, NEW d, NEW yaku, d # NO_READING
  PROVE  Fu(w, c, d, yaku) =
           FuFrom(c.win, IsClosed(w), PairFu(w, d.pair), WaitFu(w, d), ShapeFu(c, d), yaku)
  <1>1. ShapeFu(c, d) = SumFunction([i \in DOMAIN d.groups |-> GroupFu(d.groups[i], c)])
    BY DEF ShapeFu, GroupFus
  <1> QED
    BY <1>1 DEF Fu, FuFrom

LEMMA RearrangedFu ==
  ASSUME NEW w, NEW d, IsReading(d, w), NEW e, IsReading(e, w), Rearranged(e, d), NEW c, NEW yaku
  PROVE  Fu(w, c, e, yaku) = Fu(w, c, d, yaku)
  <1>1. DOMAIN d.groups = 1 .. 4 /\ DOMAIN e.groups = 1 .. 4 /\ d # NO_READING /\ e # NO_READING
    BY ReadingHasGroups
  <1>2. PICK p : IsOrder(p) /\ \A i \in 1 .. 4 : e.groups[i] = d.groups[p[i]]
    BY DEF Rearranged
  <1>3. /\ \A i \in 1 .. 4 : p[i] \in 1 .. 4
        /\ \A k \in 1 .. 4 : \E i \in 1 .. 4 : p[i] = k
    BY <1>2, OrderOnto DEF IsOrder
  <1>4. e.pair = d.pair /\ e.pair_wins = d.pair_wins
    BY DEF Rearranged
  <1>5. WaitFu(w, e) = WaitFu(w, d)
    <2>1. (\E i \in DOMAIN e.groups :
             LET g == e.groups[i] IN IsSequence(g) /\ g.wins /\ ~ IsRyanmenWait(g, w.type))
          <=> (\E i \in DOMAIN d.groups :
                 LET g == d.groups[i] IN IsSequence(g) /\ g.wins /\ ~ IsRyanmenWait(g, w.type))
      BY <1>1, <1>2, <1>3
    <2> QED
      BY <1>4, <2>1 DEF WaitFu
  <1>6. ShapeFu(c, e) = ShapeFu(c, d)
    <2> DEFINE f == [i \in 1 .. 4 |-> GroupFu(d.groups[i], c)]
    <2>1. \A i \in 1 .. 4 : GroupFu(d.groups[i], c) \in Nat
      BY GroupFuType DEF IsReading
    <2>2. f \in [1 .. 4 -> Int] /\ \A i \in 1 .. 4 : f[i] = GroupFu(d.groups[i], c)
      BY <2>1
    <2> HIDE DEF f
    <2>3. f[1] + f[2] + f[3] + f[4] = f[p[1]] + f[p[2]] + f[p[3]] + f[p[4]]
      BY <1>2, <2>2, SumInOrder
    <2>4. ShapeFu(c, d) = f[1] + f[2] + f[3] + f[4]
      BY <2>2, ShapeFuIs
    <2>5. \A i \in 1 .. 4 : f[p[i]] = GroupFu(e.groups[i], c)
      BY <1>2, <1>3, <2>2
    <2>6. ShapeFu(c, e) = f[p[1]] + f[p[2]] + f[p[3]] + f[p[4]]
      BY <2>5, ShapeFuIs
    <2> QED
      BY <2>3, <2>4, <2>6
  <1> QED
    BY <1>1, <1>4, <1>5, <1>6, FuIs

LEMMA RearrangedScore ==
  ASSUME NEW w, NEW d, IsReading(d, w), NEW e, IsReading(e, w), Rearranged(e, d),
         NEW r, NEW c, NEW yaku
  PROVE  Scored(w, r, c, e, yaku) = Scored(w, r, c, d, yaku)
  BY RearrangedFu DEF Scored

\* A hand of orphans cannot be divided: it has but one tile of some honor.
LEMMA OrphansIndivisible ==
  ASSUME NEW w, IsWin(w), IsKokushi(w), NEW d, IsDivision(d, w)
  PROVE  FALSE
  <1>1. {27, 28} \subseteq Orphans
    BY DEF Orphans, TileType, IsYaochu, Number, Suit, HONOR
  <1>2. /\ \A t \in Orphans : t \in DOMAIN w.tiles /\ w.tiles[t] >= 1
        /\ \E pair \in Orphans : {t \in Orphans : w.tiles[t] >= 2} = {pair}
    BY DEF IsKokushi, CheckKokushi, Contains
  <1>3. IsReading(d, w) /\ w.tiles \in [DOMAIN w.tiles -> Nat]
    BY WinTypes DEF IsDivision
  <1>4. Due(w) \in SUBSET (1 .. 4)
    <2>1. Len(w.melds) \in 0 .. 4
      BY WinTypes
    <2> QED
      BY <2>1 DEF Due
  <1>5. ASSUME NEW t \in {27, 28}
        PROVE  w.tiles[t] >= 2
    <2>1. t \in TileType /\ t \in DOMAIN w.tiles /\ w.tiles[t] >= 1 /\ w.tiles[t] \in Nat
      BY <1>1, <1>2, <1>3 DEF TileType
    <2>2. w.tiles[t] = CountIn(d, Due(w), t) + 2 * One(t = d.pair)
      BY <2>1 DEF IsDivision, HeldOf
    <2>3. CountIn(d, Due(w), t) \in Nat
      BY <1>3, <1>4, CountFacts
    <2>4. CASE t = d.pair
      <3>1. One(t = d.pair) = 1
        BY <2>4 DEF One
      <3> QED
        BY <2>2, <2>3, <3>1
    <2>5. CASE t # d.pair
      <3>1. One(t = d.pair) = 0
        BY <2>5 DEF One
      <3>2. CountIn(d, Due(w), t) > 0
        BY <2>1, <2>2, <2>3, <3>1
      <3>3. PICK j \in Due(w) : GroupCount(d.groups[j], t) > 0
        BY <1>3, <1>4, <3>2, CountFacts
      <3> DEFINE g == d.groups[j]
      <3>4. /\ t \in GroupTypes(g) /\ g.kind \in {"SEQUENCE", "TRIPLET"} /\ g \in Groups
            /\ GroupCount(g, t) = IF g.kind = "SEQUENCE" THEN 1 ELSE 3
            /\ g.kind = "SEQUENCE" => StartsSequence(g.base) /\ GroupTypes(g) = SequenceFrom(g.base)
        BY <3>3, DueGroup
      <3>5. CountIn(d, Due(w), t) >= GroupCount(g, t)
        BY <1>3, <1>4, CountOfTwo
      <3> HIDE DEF g
      <3>6. g.kind # "SEQUENCE"
        <4>1. SUFFICES ASSUME g.kind = "SEQUENCE"
                       PROVE  FALSE
          OBVIOUS
        <4>2. g.base \in 0 .. 33 /\ t \in g.base .. (g.base + 2)
          BY <3>4, <4>1 DEF Groups, TileType, SequenceFrom
        <4>3. g.base \in 0 .. 24
          BY <3>4, <4>1, <4>2 DEF StartsSequence, Suit, Number, HONOR
        <4> QED
          BY <4>2, <4>3
      <3>7. GroupCount(g, t) = 3
        BY <3>4, <3>6
      <3> QED
        BY <2>2, <2>3, <3>1, <3>5, <3>7
    <2> QED
      BY <2>4, <2>5
  <1> QED
    BY <1>1, <1>2, <1>5

\* No way to read a declared win is worth more than what it is paid.
LEMMA NoneIsBetter ==
  ASSUME NEW w, IsWin(w), NEW r, r.kazoe_yakuman \in BOOLEAN, Declarable(w, r),
         NEW d, IsDivision(d, w)
  PROVE  LET c    == DeclaredContext(w)
             yaku == (CountBasedYaku(w, r, c) \ {"CHIITOI"}) \cup DecompositionYaku(w, c, d)
         IN yaku # {} => ~ Better(Scored(w, r, c, d, yaku), BestResult(w, r, c))
  <1> DEFINE c == DeclaredContext(w)
             yaku == (CountBasedYaku(w, r, c) \ {"CHIITOI"}) \cup DecompositionYaku(w, c, d)
  <1>1. c.win # NONE
    BY ContextType DEF NONE
  <1>2. \A s \in Scores(w, r, c) : ~ Better(s, BestResult(w, r, c))
    BY ScoreIsBest
  <1> HIDE DEF c
  <1>3. PICK e \in ReadingsOf(w, c) : Rearranged(e, d)
    BY <1>1, EveryDivisionIsFound
  <1>4. IsReading(e, w) /\ IsReading(d, w)
    BY ReadingsType DEF IsDivision
  <1>5. DecompositionYaku(w, c, e) = DecompositionYaku(w, c, d)
    BY <1>3, <1>4, RearrangedYaku
  <1>6. "KOKUSHI" \notin CountBasedYaku(w, r, c)
    BY OrphansIndivisible, BaseMeans
  <1>7. ASSUME yaku # {}
        PROVE  ~ Better(Scored(w, r, c, d, yaku), BestResult(w, r, c))
    <2> DEFINE k == [yaku |-> (CountBasedYaku(w, r, c) \ {"CHIITOI"}) \cup DecompositionYaku(w, c, e),
                     reading |-> e]
    <2>1. k \in Candidates(w, r, c)
      BY <1>6 DEF Candidates
    <2>2. k.yaku = yaku /\ k.reading = e
      BY <1>5
    <2> HIDE DEF k, yaku
    <2>3. Scored(w, r, c, e, yaku) \in Scores(w, r, c)
      BY <1>7, <2>1, <2>2 DEF Scores
    <2>4. Scored(w, r, c, e, yaku) = Scored(w, r, c, d, yaku)
      BY <1>3, <1>4, RearrangedScore
    <2> QED
      BY <1>2, <2>3, <2>4
  <1> QED
    BY <1>7 DEF c

\* A hand is paid by its best reading: however it is divided, and whichever tile
\* of its type is said to be the winning one, no reading is worth more.
THEOREM NoBetterReadingHolds == Spec => []NoBetterReading
  <1>1. ScoreInv => NoBetterReading
    <2> SUFFICES ASSUME ScoreInv, IsOver, win.reading # NO_READING
                 PROVE  LET c    == DeclaredContext(win)
                            yaku == (CountBasedYaku(win, rules, c) \ {"CHIITOI"})
                                      \cup DecompositionYaku(win, c, win.reading)
                        IN yaku # {} => ~ Better(Scored(win, rules, c, win.reading, yaku), declared)
      BY DEF NoBetterReading
    <2>1. win \in Wins /\ IsWin(win) /\ rules.kazoe_yakuman \in BOOLEAN
      BY WinsAssumption, RulesAssumption DEF ScoreInv
    <2>2. /\ Declarable(win, rules)
          /\ declared = BestResult(win, rules, DeclaredContext(win))
      <3>1. state # LiveState(win)
        BY <2>1 DEF IsOver, LiveState, IsWin, LivePhases
      <3> QED
        BY <3>1 DEF ScoreInv
    <2>3. IsDivision(win.reading, win)
      BY <2>1, DivisionAssumption
    <2> QED
      BY <2>1, <2>2, <2>3, NoneIsBetter
  <1> QED
    BY <1>1, ScoreInvHolds, PTL

-----------------------------------------------------------------------------
(* A type in another suit                                                   *)

\* Image by one suit; by two it is the way back.
Turn(s, t) == IF Suit(t) = HONOR THEN t ELSE 9 * ((Suit(t) + s) % 3) + 9 - Number(t)

Back(s) == 3 - s

LEMMA TurnIs ==
  ASSUME NEW s \in {1, 2}, NEW t \in TileType
  PROVE  /\ Suit(t) \in 0 .. 3
         /\ Suit(t) = HONOR <=> t \in 27 .. 33
         /\ Suit(t) = 0 <=> t \in 0 .. 8
         /\ Suit(t) = 1 <=> t \in 9 .. 17
         /\ Suit(t) = 2 <=> t \in 18 .. 26
         /\ t \in 27 .. 33 => Turn(s, t) = t /\ Number(t) = 0
         /\ t \in 0 .. 8   => Turn(s, t) = (IF s = 1 THEN 17 - t ELSE 26 - t) /\ Number(t) = t + 1
         /\ t \in 9 .. 17  => Turn(s, t) = (IF s = 1 THEN 35 - t ELSE 17 - t) /\ Number(t) = t - 8
         /\ t \in 18 .. 26 => Turn(s, t) = (IF s = 1 THEN 26 - t ELSE 35 - t) /\ Number(t) = t - 17
  <1> USE DEF TileType, Turn, Suit, Number, HONOR
  <1>1. CASE t \in 27 .. 33
    BY <1>1
  <1>2. CASE t \in 0 .. 8
    BY <1>2
  <1>3. CASE t \in 9 .. 17
    BY <1>3
  <1>4. CASE t \in 18 .. 26
    BY <1>4
  <1> QED
    BY <1>1, <1>2, <1>3, <1>4

LEMMA TurnFacts ==
  ASSUME NEW s \in {1, 2}, NEW t \in TileType
  PROVE  /\ Turn(s, t) \in TileType /\ Turn(Back(s), Turn(s, t)) = t
         /\ Suit(Turn(s, t)) = HONOR <=> Suit(t) = HONOR
         /\ Suit(t) = HONOR => Turn(s, t) = t
         /\ Suit(t) # HONOR => Number(Turn(s, t)) = 10 - Number(t) /\ Number(t) \in 1 .. 9
         /\ Suit(t) # HONOR => Suit(Turn(s, t)) = (Suit(t) + s) % 3
         /\ IsYaochu(Turn(s, t)) <=> IsYaochu(t)
         /\ Number(Turn(s, t)) \in {1, 9} <=> Number(t) \in {1, 9}
  <1> DEFINE u == Turn(s, t)
  <1>1. u \in TileType
    BY TurnIs DEF TileType
  <1>2. Back(s) \in {1, 2} /\ (s = 1 => Back(s) = 2) /\ (s = 2 => Back(s) = 1)
    BY DEF Back
  <1> HIDE DEF u
  <1>3. /\ t \in 27 .. 33 => u = t
        /\ t \in 0 .. 8   => u = (IF s = 1 THEN 17 - t ELSE 26 - t)
        /\ t \in 9 .. 17  => u = (IF s = 1 THEN 35 - t ELSE 17 - t)
        /\ t \in 18 .. 26 => u = (IF s = 1 THEN 26 - t ELSE 35 - t)
    BY TurnIs DEF u
  <1>4. t \in Int /\ (t \in 27 .. 33 \/ t \in 0 .. 8 \/ t \in 9 .. 17 \/ t \in 18 .. 26)
    BY DEF TileType
  <1>5. u \in 27 .. 33 => Turn(Back(s), u) = u
    BY <1>1, <1>2, TurnIs
  <1>6. /\ u \in 0 .. 8   => Turn(Back(s), u) = (IF s = 2 THEN 17 - u ELSE 26 - u)
        /\ u \in 9 .. 17  => Turn(Back(s), u) = (IF s = 2 THEN 35 - u ELSE 17 - u)
        /\ u \in 18 .. 26 => Turn(Back(s), u) = (IF s = 2 THEN 26 - u ELSE 35 - u)
    BY <1>1, <1>2, TurnIs
  <1>7. Turn(Back(s), u) = t
    BY <1>3, <1>4, <1>5, <1>6
  <1>8. /\ Suit(u) \in 0 .. 3
        /\ Suit(u) = HONOR <=> u \in 27 .. 33
        /\ Suit(u) = 0 <=> u \in 0 .. 8
        /\ Suit(u) = 1 <=> u \in 9 .. 17
        /\ Suit(u) = 2 <=> u \in 18 .. 26
        /\ u \in 27 .. 33 => Number(u) = 0
        /\ u \in 0 .. 8   => Number(u) = u + 1
        /\ u \in 9 .. 17  => Number(u) = u - 8
        /\ u \in 18 .. 26 => Number(u) = u - 17
    BY <1>1, <1>2, TurnIs
  <1>9. /\ Suit(t) \in 0 .. 3
        /\ Suit(t) = HONOR <=> t \in 27 .. 33
        /\ Suit(t) = 0 <=> t \in 0 .. 8
        /\ Suit(t) = 1 <=> t \in 9 .. 17
        /\ Suit(t) = 2 <=> t \in 18 .. 26
        /\ t \in 27 .. 33 => Number(t) = 0
        /\ t \in 0 .. 8   => Number(t) = t + 1
        /\ t \in 9 .. 17  => Number(t) = t - 8
        /\ t \in 18 .. 26 => Number(t) = t - 17
    BY TurnIs
  <1>10. Suit(u) = HONOR <=> Suit(t) = HONOR
    BY <1>3, <1>4, <1>8, <1>9
  <1>11. Suit(t) = HONOR => u = t
    BY <1>3, <1>9
  <1>12. Suit(t) # HONOR => Number(u) = 10 - Number(t) /\ Number(t) \in 1 .. 9
    BY <1>3, <1>4, <1>8, <1>9
  <1>13. Suit(t) # HONOR => Suit(u) = (Suit(t) + s) % 3
    <2> SUFFICES ASSUME Suit(t) # HONOR
                 PROVE  Suit(u) = (Suit(t) + s) % 3
      OBVIOUS
    <2>1. /\ (0 + 1) % 3 = 1 /\ (1 + 1) % 3 = 2 /\ (2 + 1) % 3 = 0
          /\ (0 + 2) % 3 = 2 /\ (1 + 2) % 3 = 0 /\ (2 + 2) % 3 = 1
      OBVIOUS
    <2>2. CASE t \in 0 .. 8
      <3>1. Suit(t) = 0 /\ Suit(u) = (IF s = 1 THEN 1 ELSE 2)
        BY <2>2, <1>3, <1>8, <1>9
      <3> QED
        BY <3>1, <2>1
    <2>3. CASE t \in 9 .. 17
      <3>1. Suit(t) = 1 /\ Suit(u) = (IF s = 1 THEN 2 ELSE 0)
        BY <2>3, <1>3, <1>8, <1>9
      <3> QED
        BY <3>1, <2>1
    <2>4. CASE t \in 18 .. 26
      <3>1. Suit(t) = 2 /\ Suit(u) = (IF s = 1 THEN 0 ELSE 1)
        BY <2>4, <1>3, <1>8, <1>9
      <3> QED
        BY <3>1, <2>1
    <2> QED
      BY <1>4, <1>9, <2>2, <2>3, <2>4
  <1>14. Suit(t) = HONOR => Number(t) = 0 /\ Number(u) = 0
    BY <1>3, <1>8, <1>9
  <1>15. IsYaochu(u) <=> IsYaochu(t)
    BY <1>12, <1>14, <1>10 DEF IsYaochu
  <1>16. Number(u) \in {1, 9} <=> Number(t) \in {1, 9}
    BY <1>12, <1>14
  <1> QED
    BY <1>1, <1>7, <1>10, <1>11, <1>12, <1>13, <1>15, <1>16 DEF u

LEMMA TurnSame ==
  ASSUME NEW s \in {1, 2}, NEW t \in TileType, NEW u \in TileType
  PROVE  Turn(s, t) = Turn(s, u) <=> t = u
  BY TurnFacts

LEMMA BackAgain ==
  ASSUME NEW s \in {1, 2}
  PROVE  Back(s) \in {1, 2} /\ Back(Back(s)) = s
  BY DEF Back

\* Image and Unimage turn by one and by two suits.
LEMMA ImageTurns ==
  ASSUME NEW t \in TileType
  PROVE  Image(t) = Turn(1, t) /\ Unimage(t) = Turn(2, t)
  <1> DEFINE f(x) == Turn(1, x)
  <1>1. \A x : Image(x) = f(x)
    BY DEF Image, Turn
  <1>2. f(t) \in TileType /\ f(f(t)) \in TileType /\ f(f(f(t))) \in TileType
        /\ f(f(f(f(t)))) \in TileType
    <2>1. \A x \in TileType : f(x) \in TileType
      BY TurnFacts
    <2> QED
      BY <2>1
  <1>3. \A x \in TileType : f(f(x)) = (IF x \in 27 .. 33 THEN x ELSE IF x \in 0 .. 8 THEN x + 18 ELSE x - 9)
    <2> SUFFICES ASSUME NEW x \in TileType
                 PROVE  f(f(x)) = (IF x \in 27 .. 33 THEN x ELSE IF x \in 0 .. 8 THEN x + 18 ELSE x - 9)
      OBVIOUS
    <2>1. /\ x \in 27 .. 33 => f(x) = x
          /\ x \in 0 .. 8   => f(x) = 17 - x
          /\ x \in 9 .. 17  => f(x) = 35 - x
          /\ x \in 18 .. 26 => f(x) = 26 - x
      BY TurnIs
    <2> DEFINE y == f(x)
    <2>2. y \in TileType
      BY TurnFacts
    <2>3. /\ y \in 27 .. 33 => f(y) = y
          /\ y \in 0 .. 8   => f(y) = 17 - y
          /\ y \in 9 .. 17  => f(y) = 35 - y
          /\ y \in 18 .. 26 => f(y) = 26 - y
      BY <2>2, TurnIs
    <2> HIDE DEF f
    <2> QED
      BY <2>1, <2>3 DEF TileType
  <1>4. f(f(f(f(t)))) = (IF t \in 27 .. 33 THEN t ELSE IF t \in 0 .. 17 THEN t + 9 ELSE t - 18)
    <2> HIDE DEF f
    <2>1. f(f(t)) = (IF t \in 27 .. 33 THEN t ELSE IF t \in 0 .. 8 THEN t + 18 ELSE t - 9)
      BY <1>3
    <2>2. f(f(f(f(t)))) = (IF f(f(t)) \in 27 .. 33 THEN f(f(t))
                             ELSE IF f(f(t)) \in 0 .. 8 THEN f(f(t)) + 18 ELSE f(f(t)) - 9)
      BY <1>2, <1>3
    <2> QED
      BY <2>1, <2>2 DEF TileType
  <1> DEFINE z == f(f(f(f(t))))
  <1>5. /\ z \in 27 .. 33 => f(z) = z
        /\ z \in 0 .. 8   => f(z) = 17 - z
        /\ z \in 9 .. 17  => f(z) = 35 - z
        /\ z \in 18 .. 26 => f(z) = 26 - z
    <2>1. z \in TileType
      BY <1>2
    <2> QED
      BY <2>1, TurnIs
  <1>6. /\ t \in 27 .. 33 => Turn(2, t) = t
        /\ t \in 0 .. 8   => Turn(2, t) = 26 - t
        /\ t \in 9 .. 17  => Turn(2, t) = 17 - t
        /\ t \in 18 .. 26 => Turn(2, t) = 35 - t
    BY TurnIs
  <1>7. f(z) = Turn(2, t)
    <2> HIDE DEF f
    <2> QED
      BY <1>4, <1>5, <1>6 DEF TileType
  <1>8. Unimage(t) = f(z)
    <2> HIDE DEF f
    <2> QED
      BY <1>1 DEF Unimage
  <1> QED
    BY <1>1, <1>7, <1>8

\* A sequence turns around: its last type becomes the lowest.
LEMMA TurnSequence ==
  ASSUME NEW s \in {1, 2}, NEW b \in TileType, StartsSequence(b)
  PROVE  /\ b + 1 \in TileType /\ b + 2 \in TileType /\ Suit(b) # HONOR
         /\ Suit(b + 1) = Suit(b) /\ Suit(b + 2) = Suit(b)
         /\ Turn(s, b + 2) \in TileType /\ StartsSequence(Turn(s, b + 2))
         /\ Turn(s, b + 1) = Turn(s, b + 2) + 1 /\ Turn(s, b) = Turn(s, b + 2) + 2
         /\ Number(Turn(s, b + 2)) = 8 - Number(b) /\ Number(b) \in 1 .. 7
  <1>1. /\ b \in 0 .. 6 \/ b \in 9 .. 15 \/ b \in 18 .. 24
    BY TurnIs DEF StartsSequence, TileType
  <1>2. b + 1 \in TileType /\ b + 2 \in TileType
    BY <1>1 DEF TileType
  <1>3. Suit(b) # HONOR /\ Suit(b + 1) = Suit(b) /\ Suit(b + 2) = Suit(b)
    <2>1. /\ b \in 0 .. 6 => b \in 0 .. 8 /\ b + 1 \in 0 .. 8 /\ b + 2 \in 0 .. 8
          /\ b \in 9 .. 15 => b \in 9 .. 17 /\ b + 1 \in 9 .. 17 /\ b + 2 \in 9 .. 17
          /\ b \in 18 .. 24 => b \in 18 .. 26 /\ b + 1 \in 18 .. 26 /\ b + 2 \in 18 .. 26
      OBVIOUS
    <2> QED
      BY <1>1, <1>2, <2>1, TurnIs DEF StartsSequence
  <1>4. /\ b \in 0 .. 6   => Turn(s, b) = (IF s = 1 THEN 17 - b ELSE 26 - b) /\ Number(b) = b + 1
        /\ b \in 9 .. 15  => Turn(s, b) = (IF s = 1 THEN 35 - b ELSE 17 - b) /\ Number(b) = b - 8
        /\ b \in 18 .. 24 => Turn(s, b) = (IF s = 1 THEN 26 - b ELSE 35 - b) /\ Number(b) = b - 17
    BY TurnIs
  <1>5. /\ b \in 0 .. 6   => Turn(s, b + 1) = (IF s = 1 THEN 17 - (b + 1) ELSE 26 - (b + 1))
        /\ b \in 9 .. 15  => Turn(s, b + 1) = (IF s = 1 THEN 35 - (b + 1) ELSE 17 - (b + 1))
        /\ b \in 18 .. 24 => Turn(s, b + 1) = (IF s = 1 THEN 26 - (b + 1) ELSE 35 - (b + 1))
    BY <1>2, TurnIs
  <1>6. /\ b \in 0 .. 6   => Turn(s, b + 2) = (IF s = 1 THEN 17 - (b + 2) ELSE 26 - (b + 2)) /\ Number(b + 2) = b + 3
        /\ b \in 9 .. 15  => Turn(s, b + 2) = (IF s = 1 THEN 35 - (b + 2) ELSE 17 - (b + 2)) /\ Number(b + 2) = b - 6
        /\ b \in 18 .. 24 => Turn(s, b + 2) = (IF s = 1 THEN 26 - (b + 2) ELSE 35 - (b + 2)) /\ Number(b + 2) = b - 15
    BY <1>2, TurnIs
  <1>7. Turn(s, b + 1) = Turn(s, b + 2) + 1 /\ Turn(s, b) = Turn(s, b + 2) + 2
    BY <1>1, <1>4, <1>5, <1>6
  <1>8. /\ Turn(s, b + 2) \in TileType /\ Suit(Turn(s, b + 2)) # HONOR
        /\ Number(Turn(s, b + 2)) = 10 - Number(b + 2)
    BY <1>2, <1>3, TurnFacts
  <1>9. Number(Turn(s, b + 2)) = 8 - Number(b) /\ Number(b) \in 1 .. 7
    BY <1>1, <1>4, <1>6, <1>8
  <1> QED
    BY <1>2, <1>3, <1>7, <1>8, <1>9 DEF StartsSequence

-----------------------------------------------------------------------------
(* Sums of the same numbers                                                 *)

\* What adds nothing may be left out.
LEMMA SumsSupport ==
  ASSUME NEW D, IsFiniteSet(D), NEW f \in [D -> Int], NEW s \in SUBSET D, NEW t \in SUBSET s,
         \A x \in s \ t : f[x] = 0
  PROVE  Sums(f)[s] = Sums(f)[t]
  <1> DEFINE B == {u \in SUBSET s : t \subseteq u /\ Sums(f)[u] # Sums(f)[t]}
  <1>1. B = {}
    <2> SUFFICES ASSUME B # {}
                 PROVE  FALSE
      OBVIOUS
    <2>1. \A u \in B : IsFiniteSet(u)
      BY FS_Subset
    <2> HIDE DEF B
    <2>2. PICK u \in B : \A x \in B : Cardinality(u) <= Cardinality(x)
      BY <2>1, SmallestSet
    <2> USE DEF B
    <2>3. PICK x \in u : x \notin t
      <3>1. t \subseteq u /\ u # t
        BY <2>2
      <3> QED
        BY <3>1
    <2>4. /\ u \in SUBSET D /\ t \subseteq u \ {x} /\ u \ {x} \in SUBSET s
          /\ Cardinality(u) \in Nat /\ Cardinality(u \ {x}) = Cardinality(u) - 1
      BY <2>2, <2>3, OneLess
    <2>5. u \ {x} \notin B
      <3> HIDE DEF B
      <3> QED
        BY <2>2, <2>4
    <2>6. Sums(f)[u \ {x}] = Sums(f)[t]
      BY <2>4, <2>5
    <2>7. Sums(f)[u] = f[x] + Sums(f)[u \ {x}]
      BY <2>3, <2>4, SumsRemove
    <2>8. f[x] = 0 /\ Sums(f)[t] \in Int
      BY <2>2, <2>3, SumsType
    <2> QED
      BY <2>2, <2>6, <2>7, <2>8
  <1> QED
    BY <1>1

\* g has the numbers of f under other names.
Renames(h, f, g) ==
  /\ h \in [DOMAIN f -> DOMAIN g] /\ \A x, y \in DOMAIN f : h[x] = h[y] => x = y
  /\ \A x \in DOMAIN f : g[h[x]] = f[x]

LEMMA SumsRenamed ==
  ASSUME NEW D, IsFiniteSet(D), NEW f \in [D -> Int],
         NEW E, IsFiniteSet(E), NEW g \in [E -> Int],
         NEW h \in [D -> E], \A x, y \in D : h[x] = h[y] => x = y,
         \A x \in D : g[h[x]] = f[x], NEW s \in SUBSET D
  PROVE  Sums(f)[s] = Sums(g)[{h[x] : x \in s}]
  <1> DEFINE im(u) == {h[x] : x \in u}
             B == {u \in SUBSET s : Sums(f)[u] # Sums(g)[im(u)]}
  <1>1. B = {}
    <2> SUFFICES ASSUME B # {}
                 PROVE  FALSE
      OBVIOUS
    <2>1. \A u \in B : IsFiniteSet(u)
      BY FS_Subset
    <2> HIDE DEF B
    <2>2. PICK u \in B : \A x \in B : Cardinality(u) <= Cardinality(x)
      BY <2>1, SmallestSet
    <2> USE DEF B
    <2>3. u # {}
      <3>1. Sums(f)[{}] = 0
        BY SumsRule
      <3>2. Sums(g)[{}] = 0
        BY SumsRule
      <3>3. im({}) = {}
        OBVIOUS
      <3> QED
        BY <2>2, <3>1, <3>2, <3>3
    <2>4. PICK x \in u : TRUE
      BY <2>3
    <2>5. /\ u \in SUBSET D /\ u \ {x} \in SUBSET s
          /\ Cardinality(u) \in Nat /\ Cardinality(u \ {x}) = Cardinality(u) - 1
      BY <2>2, <2>4, OneLess
    <2>6. u \ {x} \notin B
      <3> HIDE DEF B
      <3> QED
        BY <2>2, <2>5
    <2>7. Sums(f)[u \ {x}] = Sums(g)[im(u \ {x})]
      BY <2>5, <2>6
    <2>8. Sums(f)[u] = f[x] + Sums(f)[u \ {x}]
      BY <2>4, <2>5, SumsRemove
    <2>9. im(u) \in SUBSET E /\ h[x] \in im(u) /\ im(u \ {x}) = im(u) \ {h[x]}
      BY <2>4, <2>5
    <2> HIDE DEF im
    <2>10. Sums(g)[im(u)] = g[h[x]] + Sums(g)[im(u) \ {h[x]}]
      BY <2>9, SumsRemove
    <2> QED
      BY <2>2, <2>4, <2>5, <2>7, <2>8, <2>9, <2>10
  <1> QED
    BY <1>1

LEMMA SumsRename ==
  ASSUME NEW D, IsFiniteSet(D), NEW f \in [D -> Int],
         NEW E, IsFiniteSet(E), NEW g \in [E -> Int],
         NEW h, Renames(h, f, g)
  PROVE  \A s \in SUBSET D : Sums(f)[s] = Sums(g)[{h[x] : x \in s}]
  <1>1. /\ h \in [D -> E] /\ \A x, y \in D : h[x] = h[y] => x = y
        /\ \A x \in D : g[h[x]] = f[x]
    BY DEF Renames
  <1> QED
    BY <1>1, SumsRenamed

-----------------------------------------------------------------------------
(* The same hand in another suit                                            *)

TurnBase(s, sequence, b) == Turn(s, IF sequence THEN b + 2 ELSE b)

SameTypes(s, ts, us) ==
  Len(us) = Len(ts) /\ \A i \in 1 .. Len(ts) : us[i] = Turn(s, ts[i])

SameCircumstances(w, v) ==
  /\ v.live = w.live /\ v.rinshan = w.rinshan /\ v.empty = w.empty
  /\ v.riichi = w.riichi /\ v.double_riichi = w.double_riichi /\ v.ippatsu = w.ippatsu
  /\ v.dealer = w.dealer /\ v.first_turn = w.first_turn
  /\ v.round_wind = w.round_wind /\ v.seat_wind = w.seat_wind /\ v.aka = w.aka

\* As many tiles of each turned type.
SameCounts(s, f, g) ==
  /\ DOMAIN g = {Turn(s, t) : t \in DOMAIN f}
  /\ \A t \in DOMAIN f : g[Turn(s, t)] = f[t]

\* v is the hand w, s suits on.
IsTwin(s, w, v) ==
  /\ SameCounts(s, w.tiles, v.tiles)
  /\ Len(v.melds) = Len(w.melds)
  /\ \A i \in 1 .. Len(w.melds) :
       /\ v.melds[i].kind = w.melds[i].kind
       /\ v.melds[i].base = TurnBase(s, w.melds[i].kind = "CHI", w.melds[i].base)
  /\ v.type = Turn(s, w.type)
  /\ SameTypes(s, w.dora, v.dora) /\ SameTypes(s, w.ura, v.ura)
  /\ SameCircumstances(w, v)

AreTwins(s, w, v) == s \in {1, 2} /\ IsWin(w) /\ IsWin(v) /\ IsTwin(s, w, v)

\* The lowest type of a turned sequence or triplet.
LEMMA TurnBaseBack ==
  ASSUME NEW s \in {1, 2}, NEW sequence \in BOOLEAN, NEW b \in TileType,
         sequence => StartsSequence(b)
  PROVE  /\ TurnBase(s, sequence, b) \in TileType
         /\ sequence => StartsSequence(TurnBase(s, sequence, b))
         /\ TurnBase(Back(s), sequence, TurnBase(s, sequence, b)) = b
  <1>1. CASE sequence
    <2> DEFINE c == Turn(s, b + 2)
    <2>1. c \in TileType /\ StartsSequence(c) /\ Turn(s, b) = c + 2
      BY <1>1, TurnSequence
    <2>2. Turn(Back(s), Turn(s, b)) = b
      BY TurnFacts
    <2> QED
      BY <1>1, <2>1, <2>2 DEF TurnBase
  <1>2. CASE ~ sequence
    BY <1>2, TurnFacts DEF TurnBase
  <1> QED
    BY <1>1, <1>2

LEMMA SameTypesBack ==
  ASSUME NEW s \in {1, 2}, NEW ts \in Seq(TileType), NEW us \in Seq(TileType), SameTypes(s, ts, us)
  PROVE  SameTypes(Back(s), us, ts)
  <1>1. \A i \in 1 .. Len(ts) : ts[i] \in TileType
    BY SeqFacts
  <1> QED
    BY <1>1, TurnFacts DEF SameTypes

\* A twin of a hand has it as its twin.
LEMMA TwinsBack ==
  ASSUME NEW s, NEW w, NEW v, AreTwins(s, w, v)
  PROVE  AreTwins(Back(s), v, w)
  <1>0. /\ s \in {1, 2} /\ IsWin(w) /\ IsWin(v) /\ IsTwin(s, w, v)
        /\ Back(s) \in {1, 2}
    BY BackAgain DEF AreTwins
  <1>1. /\ DOMAIN w.tiles \subseteq TileType /\ DOMAIN v.tiles \subseteq TileType
        /\ w.type \in TileType
    BY <1>0, WinTypes
  <1>2. \A t \in DOMAIN w.tiles : Turn(Back(s), Turn(s, t)) = t
    BY <1>0, <1>1, TurnFacts
  <1>3. DOMAIN w.tiles = {Turn(Back(s), t) : t \in DOMAIN v.tiles}
    BY <1>0, <1>2 DEF IsTwin, SameCounts
  <1>4. \A t \in DOMAIN v.tiles : w.tiles[Turn(Back(s), t)] = v.tiles[t]
    BY <1>0, <1>2 DEF IsTwin, SameCounts
  <1>5. ASSUME NEW i \in 1 .. Len(v.melds)
        PROVE  /\ w.melds[i].kind = v.melds[i].kind
               /\ w.melds[i].base = TurnBase(Back(s), v.melds[i].kind = "CHI", v.melds[i].base)
    <2>1. /\ i \in 1 .. Len(w.melds)
          /\ v.melds[i].kind = w.melds[i].kind
          /\ v.melds[i].base = TurnBase(s, w.melds[i].kind = "CHI", w.melds[i].base)
      BY <1>0 DEF IsTwin
    <2>2. w.melds[i].base \in TileType /\ (w.melds[i].kind = "CHI" => StartsSequence(w.melds[i].base))
      BY <1>0, <2>1, WinTypes DEF IsWin
    <2> DEFINE sequence == w.melds[i].kind = "CHI"
    <2>3. sequence \in BOOLEAN /\ (sequence => StartsSequence(w.melds[i].base))
      BY <2>2
    <2> HIDE DEF sequence
    <2>4. TurnBase(Back(s), sequence, TurnBase(s, sequence, w.melds[i].base)) = w.melds[i].base
      BY <1>0, <2>2, <2>3, TurnBaseBack
    <2> QED
      BY <2>1, <2>4 DEF sequence
  <1>6. w.type = Turn(Back(s), v.type)
    BY <1>0, <1>1, TurnFacts DEF IsTwin
  <1>7. SameTypes(Back(s), v.dora, w.dora) /\ SameTypes(Back(s), v.ura, w.ura)
    BY <1>0, SameTypesBack DEF IsTwin, IsWin
  <1>8. SameCircumstances(v, w) /\ Len(w.melds) = Len(v.melds)
    BY <1>0 DEF IsTwin, SameCircumstances
  <1> QED
    BY <1>0, <1>3, <1>4, <1>5, <1>6, <1>7, <1>8 DEF AreTwins, IsTwin, SameCounts

\* The fields of Twin.
LEMMA TwinFields ==
  ASSUME NEW w, IsWin(w)
  PROVE  /\ DOMAIN Twin(w) = WinFields
         /\ Twin(w).tiles = [t \in {Image(u) : u \in DOMAIN w.tiles} |-> w.tiles[Unimage(t)]]
         /\ Twin(w).melds = [i \in DOMAIN w.melds |->
                  [w.melds[i] EXCEPT !.base =
                     Image(IF w.melds[i].kind = "CHI" THEN @ + 2 ELSE @)]]
         /\ Twin(w).type = Image(w.type)
         /\ Twin(w).dora = [i \in DOMAIN w.dora |-> Image(w.dora[i])]
         /\ Twin(w).ura = [i \in DOMAIN w.ura |-> Image(w.ura[i])]
         /\ SameCircumstances(w, Twin(w))
  <1>1. DOMAIN w = WinFields
    BY DEF IsWin
  <1>2. DOMAIN Twin(w) = WinFields
    BY <1>1 DEF Twin
  <1>3. Twin(w).tiles = [t \in {Image(u) : u \in DOMAIN w.tiles} |-> w.tiles[Unimage(t)]]
    BY <1>1 DEF Twin, WinFields
  <1>4. Twin(w).melds = [i \in DOMAIN w.melds |->
                  [w.melds[i] EXCEPT !.base =
                     Image(IF w.melds[i].kind = "CHI" THEN @ + 2 ELSE @)]]
    BY <1>1 DEF Twin, WinFields
  <1>5. Twin(w).type = Image(w.type)
    BY <1>1 DEF Twin, WinFields
  <1>6. Twin(w).dora = [i \in DOMAIN w.dora |-> Image(w.dora[i])]
    BY <1>1 DEF Twin, WinFields
  <1>7. Twin(w).ura = [i \in DOMAIN w.ura |-> Image(w.ura[i])]
    BY <1>1 DEF Twin, WinFields
  <1>8. SameCircumstances(w, Twin(w))
    BY <1>1 DEF Twin, WinFields, SameCircumstances
  <1> QED
    BY <1>2, <1>3, <1>4, <1>5, <1>6, <1>7, <1>8

LEMMA TurnTotal ==
  ASSUME NEW s \in {1, 2}, NEW D \in SUBSET TileType, NEW f \in [D -> Nat],
         NEW E, NEW g \in [E -> Nat], SameCounts(s, f, g)
  PROVE  Total(g) = Total(f)
  <1>0. E = {Turn(s, t) : t \in D} /\ \A t \in D : g[Turn(s, t)] = f[t]
    BY DEF SameCounts
  <1>1. IsFiniteSet(TileType)
    <2>1. 0 \in Int /\ 33 \in Int
      OBVIOUS
    <2> QED
      BY <2>1, FS_Interval DEF TileType
  <1>2. E \subseteq TileType
    BY <1>0, TurnFacts
  <1>3. IsFiniteSet(D) /\ IsFiniteSet(E)
    BY <1>1, <1>2, FS_Subset
  <1> DEFINE h == [t \in D |-> Turn(s, t)]
  <1>4. Renames(h, f, g)
    BY <1>0, TurnSame DEF Renames
  <1>5. {h[x] : x \in D} = E
    BY <1>0
  <1>6. f \in [D -> Int] /\ g \in [E -> Int]
    OBVIOUS
  <1> HIDE DEF h
  <1>7. Sums(f)[D] = Sums(g)[{h[x] : x \in D}]
    <2>1. D \in SUBSET D
      OBVIOUS
    <2> QED
      BY <1>3, <1>4, <1>6, <2>1, SumsRename
  <1>8. Total(f) = Sums(f)[D] /\ Total(g) = Sums(g)[E]
    BY SumIsLastSum DEF Total
  <1> QED
    BY <1>5, <1>7, <1>8

LEMMA TurnedTypes ==
  ASSUME NEW ts \in Seq(TileType), NEW us, us = [i \in DOMAIN ts |-> Image(ts[i])]
  PROVE  us \in Seq(TileType) /\ SameTypes(1, ts, us)
  <1>1. Len(ts) \in Nat /\ DOMAIN ts = 1 .. Len(ts) /\ \A i \in 1 .. Len(ts) : ts[i] \in TileType
    BY SeqFacts
  <1>2. \A i \in 1 .. Len(ts) : us[i] = Turn(1, ts[i]) /\ us[i] \in TileType
    BY <1>1, ImageTurns, TurnFacts
  <1>3. us \in [1 .. Len(ts) -> TileType]
    BY <1>1, <1>2
  <1>4. us \in Seq(TileType) /\ Len(us) = Len(ts)
    BY <1>1, <1>3
  <1> QED
    BY <1>2, <1>4 DEF SameTypes

LEMMA TwinTiles ==
  ASSUME NEW w, IsWin(w), NEW v, v = Twin(w)
  PROVE  /\ DOMAIN v.tiles = {Turn(1, t) : t \in DOMAIN w.tiles}
         /\ \A t \in DOMAIN w.tiles : v.tiles[Turn(1, t)] = w.tiles[t]
         /\ v.tiles \in [DOMAIN v.tiles -> 0 .. TILE_PER_TYPE]
         /\ DOMAIN v.tiles \subseteq TileType
         /\ Total(v.tiles) = Total(w.tiles)
         /\ v.type = Turn(1, w.type) /\ v.type \in DOMAIN v.tiles /\ v.tiles[v.type] > 0
  <1>1. /\ DOMAIN w.tiles \subseteq TileType /\ w.tiles \in [DOMAIN w.tiles -> 0 .. TILE_PER_TYPE]
        /\ w.type \in DOMAIN w.tiles /\ w.tiles[w.type] > 0
    BY DEF IsWin
  <1>2. /\ v.tiles = [t \in {Image(u) : u \in DOMAIN w.tiles} |-> w.tiles[Unimage(t)]]
        /\ v.type = Image(w.type)
    BY TwinFields
  <1>3. \A t \in DOMAIN w.tiles : Image(t) = Turn(1, t) /\ Turn(1, t) \in TileType
    BY <1>1, ImageTurns, TurnFacts
  <1>4. DOMAIN v.tiles = {Turn(1, t) : t \in DOMAIN w.tiles}
    BY <1>2, <1>3
  <1>5. ASSUME NEW t \in DOMAIN w.tiles
        PROVE  v.tiles[Turn(1, t)] = w.tiles[t]
    <2>1. Turn(1, t) \in {Image(u) : u \in DOMAIN w.tiles}
      BY <1>3
    <2>2. Unimage(Turn(1, t)) = Turn(2, Turn(1, t))
      BY <1>3, ImageTurns
    <2>3. Turn(2, Turn(1, t)) = t
      <3>1. t \in TileType /\ Back(1) = 2
        BY <1>1 DEF Back
      <3> QED
        BY <3>1, TurnFacts
    <2> QED
      BY <1>2, <2>1, <2>2, <2>3
  <1>6. v.tiles \in [DOMAIN v.tiles -> 0 .. TILE_PER_TYPE]
    <2>1. \A u \in DOMAIN v.tiles : v.tiles[u] \in 0 .. TILE_PER_TYPE
      BY <1>1, <1>4, <1>5
    <2>2. v.tiles = [u \in DOMAIN v.tiles |-> v.tiles[u]]
      BY <1>2
    <2> QED
      BY <2>1, <2>2
  <1>7. DOMAIN v.tiles \subseteq TileType
    BY <1>3, <1>4
  <1>8. v.type = Turn(1, w.type)
    BY <1>1, <1>2, <1>3
  <1>9. v.type \in DOMAIN v.tiles /\ v.tiles[v.type] > 0
    BY <1>1, <1>4, <1>5, <1>8
  <1>10. Total(v.tiles) = Total(w.tiles)
    <2>1. w.tiles \in [DOMAIN w.tiles -> Nat] /\ v.tiles \in [DOMAIN v.tiles -> Nat]
      BY <1>1, <1>6 DEF TILE_PER_TYPE
    <2>2. 1 \in {1, 2}
      OBVIOUS
    <2> QED
      BY <2>1, <2>2, <1>1, <1>4, <1>5, TurnTotal DEF SameCounts
  <1> QED
    BY <1>4, <1>5, <1>6, <1>7, <1>8, <1>9, <1>10

LEMMA TwinMelds ==
  ASSUME NEW w, IsWin(w), NEW v, v = Twin(w)
  PROVE  /\ v.melds \in Seq([kind : MeldKinds, base : TileType]) /\ Len(v.melds) = Len(w.melds)
         /\ \A i \in 1 .. Len(w.melds) :
              /\ v.melds[i].kind = w.melds[i].kind
              /\ v.melds[i].base = TurnBase(1, w.melds[i].kind = "CHI", w.melds[i].base)
              /\ v.melds[i].kind = "CHI" => StartsSequence(v.melds[i].base)
  <1> DEFINE M == [kind : MeldKinds, base : TileType]
  <1>1. /\ w.melds \in Seq(M) /\ Len(w.melds) \in Nat
        /\ DOMAIN w.melds = 1 .. Len(w.melds)
    BY SeqFacts DEF IsWin
  <1>2. ASSUME NEW i \in 1 .. Len(w.melds)
        PROVE  /\ v.melds[i] \in M /\ v.melds[i].kind = w.melds[i].kind
               /\ v.melds[i].base = TurnBase(1, w.melds[i].kind = "CHI", w.melds[i].base)
               /\ v.melds[i].kind = "CHI" => StartsSequence(v.melds[i].base)
    <2> DEFINE m == w.melds[i]
               b == IF m.kind = "CHI" THEN m.base + 2 ELSE m.base
    <2>1. m \in M
      <3> HIDE DEF M
      <3> QED
        BY <1>1, SeqFacts
    <2>2. m.kind = "CHI" => StartsSequence(m.base)
      BY <1>1 DEF IsWin
    <2>3. b \in TileType
      <3>1. m.base \in TileType
        BY <2>1
      <3>2. CASE m.kind = "CHI"
        BY <2>2, <3>1, <3>2, TurnSequence
      <3> QED
        BY <3>1, <3>2
    <2>4. v.melds[i] = [m EXCEPT !.base = Image(b)]
      <3>1. v.melds = [j \in DOMAIN w.melds |->
                  [w.melds[j] EXCEPT !.base =
                     Image(IF w.melds[j].kind = "CHI" THEN @ + 2 ELSE @)]]
        BY TwinFields
      <3>2. i \in DOMAIN w.melds
        BY <1>1
      <3> QED
        BY <3>1, <3>2, Zenon
    <2>5. Image(b) = Turn(1, b) /\ Turn(1, b) \in TileType
      BY <2>3, ImageTurns, TurnFacts
    <2>6. v.melds[i] \in M /\ v.melds[i].kind = m.kind /\ v.melds[i].base = Turn(1, b)
      <3> HIDE DEF b, m
      <3> QED
        BY <2>1, <2>4, <2>5
    <2>7. v.melds[i].base = TurnBase(1, m.kind = "CHI", m.base)
      BY <2>6 DEF TurnBase
    <2>8. m.kind = "CHI" => StartsSequence(v.melds[i].base)
      BY <2>1, <2>2, <2>6, TurnSequence
    <2> QED
      BY <2>6, <2>7, <2>8
  <1>3. v.melds \in Seq(M) /\ Len(v.melds) = Len(w.melds)
    <2>1. v.melds = [i \in 1 .. Len(w.melds) |-> v.melds[i]]
      BY <1>1, TwinFields
    <2>2. v.melds \in [1 .. Len(w.melds) -> M]
      <3> HIDE DEF M
      <3> QED
        BY <1>2, <2>1
    <2> HIDE DEF M
    <2> QED
      BY <1>1, <2>2
  <1> QED
    BY <1>2, <1>3

LEMMA TwinIsTwin ==
  ASSUME NEW w, IsWin(w)
  PROVE  AreTwins(1, w, Twin(w))
  <1> DEFINE v == Twin(w)
  <1>1. /\ DOMAIN v = WinFields /\ SameCircumstances(w, v)
        /\ v.dora = [i \in DOMAIN w.dora |-> Image(w.dora[i])]
        /\ v.ura = [i \in DOMAIN w.ura |-> Image(w.ura[i])]
    BY TwinFields
  <1>2. w.dora \in Seq(TileType) /\ w.ura \in Seq(TileType)
    BY DEF IsWin
  <1> HIDE DEF v
  <1>3. /\ v.dora \in Seq(TileType) /\ SameTypes(1, w.dora, v.dora)
        /\ v.ura \in Seq(TileType) /\ SameTypes(1, w.ura, v.ura)
    BY <1>1, <1>2, TurnedTypes
  <1>4. /\ v.melds \in Seq([kind : MeldKinds, base : TileType]) /\ Len(v.melds) = Len(w.melds)
        /\ \A i \in 1 .. Len(w.melds) :
              /\ v.melds[i].kind = w.melds[i].kind
              /\ v.melds[i].base = TurnBase(1, w.melds[i].kind = "CHI", w.melds[i].base)
              /\ v.melds[i].kind = "CHI" => StartsSequence(v.melds[i].base)
    BY TwinMelds DEF v
  <1>5. /\ DOMAIN v.tiles = {Turn(1, t) : t \in DOMAIN w.tiles}
        /\ \A t \in DOMAIN w.tiles : v.tiles[Turn(1, t)] = w.tiles[t]
        /\ v.tiles \in [DOMAIN v.tiles -> 0 .. TILE_PER_TYPE]
        /\ DOMAIN v.tiles \subseteq TileType
        /\ Total(v.tiles) = Total(w.tiles)
        /\ v.type = Turn(1, w.type) /\ v.type \in DOMAIN v.tiles /\ v.tiles[v.type] > 0
    BY TwinTiles DEF v
  <1>6. DOMAIN v.melds = 1 .. Len(v.melds)
    BY <1>4, SeqFacts
  <1>7. IsWin(v)
    BY <1>1, <1>3, <1>4, <1>5, <1>6 DEF IsWin, SameCircumstances
  <1>8. IsTwin(1, w, v)
    BY <1>1, <1>3, <1>4, <1>5 DEF IsTwin, SameCounts
  <1> QED
    BY <1>7, <1>8 DEF v, AreTwins

-----------------------------------------------------------------------------
(* Twins have the same tiles, turned                                        *)

\* A group in another suit.
TurnGroup(s, g) ==
  [kind |-> g.kind, base |-> TurnBase(s, IsSequence(g), g.base), open |-> g.open, wins |-> g.wins]

IsSound(g) == g \in Groups /\ (IsSequence(g) => StartsSequence(g.base))

LEMMA TurnedGroup ==
  ASSUME NEW s \in {1, 2}, NEW g, IsSound(g), NEW h, h = TurnGroup(s, g)
  PROVE  /\ IsSound(h) /\ TurnGroup(Back(s), h) = g
         /\ IsSequence(h) <=> IsSequence(g)
         /\ GroupTypes(h) = {Turn(s, t) : t \in GroupTypes(g)}
         /\ GroupTypes(g) \subseteq TileType
         /\ \A t \in TileType : GroupCount(h, Turn(s, t)) = GroupCount(g, t)
  <1>0. /\ g \in Groups /\ (IsSequence(g) => StartsSequence(g.base)) /\ g.base \in TileType
        /\ IsSequence(g) \in BOOLEAN
    BY DEF IsSound, Groups, IsSequence
  <1>1. /\ h.kind = g.kind /\ h.open = g.open /\ h.wins = g.wins
        /\ h.base = TurnBase(s, IsSequence(g), g.base)
        /\ IsSequence(h) = IsSequence(g)
    BY DEF TurnGroup, IsSequence
  <1>2. /\ h.base \in TileType /\ (IsSequence(g) => StartsSequence(h.base))
        /\ TurnBase(Back(s), IsSequence(g), h.base) = g.base
    BY <1>0, <1>1, TurnBaseBack
  <1>3. h \in Groups
    BY <1>0, <1>2 DEF TurnGroup, Groups
  <1>4. IsSound(h)
    BY <1>1, <1>2, <1>3 DEF IsSound
  <1>5. TurnGroup(Back(s), h) = g
    <2>1. TurnGroup(Back(s), h) = [kind |-> g.kind, base |-> g.base, open |-> g.open, wins |-> g.wins]
      BY <1>1, <1>2 DEF TurnGroup
    <2> QED
      BY <1>0, <2>1 DEF Groups
  <1>6. GroupTypes(h) = {Turn(s, t) : t \in GroupTypes(g)} /\ GroupTypes(g) \subseteq TileType
    <2>1. CASE IsSequence(g)
      <3> DEFINE b == g.base
                 c == h.base
      <3>1. GroupTypes(g) = {b, b + 1, b + 2} /\ b \in Int
        BY <2>1, <1>0 DEF GroupTypes, IsSequence, SequenceFrom, TileType
      <3>2. GroupTypes(h) = {c, c + 1, c + 2}
        BY <2>1, <1>1, <1>2 DEF GroupTypes, IsSequence, SequenceFrom, TileType
      <3>3. c = Turn(s, b + 2)
        BY <2>1, <1>1 DEF TurnBase
      <3>4. b \in TileType /\ b + 1 \in TileType /\ b + 2 \in TileType
            /\ Turn(s, b + 1) = c + 1 /\ Turn(s, b) = c + 2
        BY <2>1, <1>0, <3>3, TurnSequence
      <3> HIDE DEF b, c
      <3> QED
        BY <3>1, <3>2, <3>3, <3>4
    <2>2. CASE ~ IsSequence(g)
      BY <2>2, <1>0, <1>1 DEF GroupTypes, IsSequence, TurnBase
    <2> QED
      BY <2>1, <2>2
  <1>7. ASSUME NEW t \in TileType
        PROVE  GroupCount(h, Turn(s, t)) = GroupCount(g, t)
    <2>1. Turn(s, t) \in GroupTypes(h) <=> t \in GroupTypes(g)
      BY <1>6, TurnSame
    <2>2. g.kind \in {"SEQUENCE", "TRIPLET", "QUAD"}
      BY <1>0 DEF Groups
    <2> QED
      BY <1>1, <2>1, <2>2 DEF GroupCount
  <1> QED
    BY <1>1, <1>4, <1>5, <1>6, <1>7

LEMMA TwinMeld ==
  ASSUME NEW s, NEW w, NEW v, AreTwins(s, w, v), NEW i \in 1 .. Len(w.melds)
  PROVE  /\ IsSound(Melds(w)[i]) /\ Melds(v)[i] = TurnGroup(s, Melds(w)[i])
         /\ Melds(w)[i] = MeldGroup(w.melds[i]) /\ Melds(v)[i] = MeldGroup(v.melds[i])
  <1>1. /\ s \in {1, 2} /\ IsWin(w) /\ IsWin(v) /\ IsTwin(s, w, v)
    BY DEF AreTwins
  <1> DEFINE m == w.melds[i]
             n == v.melds[i]
  <1>2. /\ i \in DOMAIN w.melds /\ i \in DOMAIN v.melds
        /\ m.kind \in MeldKinds /\ m.base \in TileType
        /\ m.kind = "CHI" => StartsSequence(m.base)
    BY <1>1, WinTypes DEF IsTwin, IsWin
  <1>3. n.kind = m.kind /\ n.base = TurnBase(s, m.kind = "CHI", m.base)
    BY <1>1 DEF IsTwin
  <1>4. Melds(w)[i] = MeldGroup(m) /\ Melds(v)[i] = MeldGroup(n)
    BY <1>2 DEF Melds
  <1> HIDE DEF m, n
  <1>5. /\ MeldGroup(m) \in Groups /\ MeldGroup(m).kind = Kind(m) /\ MeldGroup(m).base = m.base
        /\ MeldGroup(m).open = (m.kind # "ANKAN") /\ MeldGroup(m).wins = FALSE
    BY <1>2, MeldGroupType DEF MeldGroup
  <1>6. Kind(m) = "SEQUENCE" <=> m.kind = "CHI"
    BY <1>2 DEF Kind, MeldKinds
  <1>7. IsSequence(MeldGroup(m)) <=> m.kind = "CHI"
    BY <1>5, <1>6 DEF IsSequence
  <1>8. IsSound(MeldGroup(m))
    BY <1>2, <1>5, <1>7 DEF IsSound
  <1>9. MeldGroup(n) = TurnGroup(s, MeldGroup(m))
    <2>1. Kind(n) = Kind(m)
      BY <1>3 DEF Kind
    <2>2. TurnBase(s, IsSequence(MeldGroup(m)), m.base) = n.base
      BY <1>3, <1>7 DEF TurnBase
    <2> QED
      BY <2>1, <2>2, <1>3, <1>5 DEF MeldGroup, TurnGroup
  <1> QED
    BY <1>4, <1>8, <1>9 DEF m, n

\* What a hand and its twin have in common as they are.
LEMMA TwinShape ==
  ASSUME NEW s, NEW w, NEW v, AreTwins(s, w, v)
  PROVE  /\ Len(v.melds) = Len(w.melds) /\ DOMAIN v.melds = DOMAIN w.melds
         /\ DOMAIN w.melds = 1 .. Len(w.melds) /\ Len(w.melds) \in 0 .. 4
         /\ IsClosed(w) <=> IsClosed(v)
         /\ Quads(w) = Quads(v)
         /\ w.melds = <<>> <=> v.melds = <<>>
         /\ Due(v) = Due(w) /\ Due(w) \in SUBSET (1 .. 4)
  <1>1. /\ s \in {1, 2} /\ IsWin(w) /\ IsWin(v) /\ IsTwin(s, w, v)
    BY DEF AreTwins
  <1>2. /\ Len(v.melds) = Len(w.melds) /\ DOMAIN v.melds = DOMAIN w.melds
        /\ DOMAIN w.melds = 1 .. Len(w.melds) /\ Len(w.melds) \in 0 .. 4
        /\ \A i \in DOMAIN w.melds : v.melds[i].kind = w.melds[i].kind
    BY <1>1, WinTypes DEF IsTwin
  <1>3. IsClosed(w) <=> IsClosed(v)
    BY <1>2 DEF IsClosed
  <1>4. Quads(w) = Quads(v)
    <2>1. \A i \in DOMAIN w.melds : Kind(v.melds[i]) = Kind(w.melds[i])
      BY <1>2 DEF Kind
    <2>2. {i \in DOMAIN w.melds : Kind(w.melds[i]) = "QUAD"} = {i \in DOMAIN v.melds : Kind(v.melds[i]) = "QUAD"}
      BY <1>2, <2>1
    <2> QED
      BY <2>2 DEF Quads
  <1>5. w.melds = <<>> <=> v.melds = <<>>
    <2>1. w.melds \in Seq([kind : MeldKinds, base : TileType]) /\ v.melds \in Seq([kind : MeldKinds, base : TileType])
      BY <1>1 DEF IsWin
    <2> DEFINE M == [kind : MeldKinds, base : TileType]
    <2>2. \A ms \in Seq(M) : ms = <<>> <=> Len(ms) = 0
      <3> HIDE DEF M
      <3> QED
        OBVIOUS
    <2> QED
      BY <1>2, <2>1, <2>2
  <1>6. Due(v) = Due(w) /\ Due(w) \in SUBSET (1 .. 4)
    BY <1>2 DEF Due
  <1> QED
    BY <1>2, <1>3, <1>4, <1>5, <1>6

\* As many tiles of each type.
LEMMA TwinHeld ==
  ASSUME NEW s, NEW w, NEW v, AreTwins(s, w, v), NEW t \in TileType
  PROVE  /\ Turn(s, t) \in DOMAIN v.tiles <=> t \in DOMAIN w.tiles
         /\ t \in DOMAIN w.tiles => v.tiles[Turn(s, t)] = w.tiles[t]
         /\ HeldOf(v, Turn(s, t)) = HeldOf(w, t)
  <1>1. /\ s \in {1, 2} /\ IsWin(w) /\ IsWin(v) /\ IsTwin(s, w, v)
    BY DEF AreTwins
  <1>2. DOMAIN w.tiles \subseteq TileType
    BY <1>1, WinTypes
  <1>3. Turn(s, t) \in DOMAIN v.tiles <=> t \in DOMAIN w.tiles
    BY <1>1, <1>2, TurnSame DEF IsTwin, SameCounts
  <1>4. t \in DOMAIN w.tiles => v.tiles[Turn(s, t)] = w.tiles[t]
    BY <1>1 DEF IsTwin, SameCounts
  <1> QED
    BY <1>3, <1>4 DEF HeldOf

LEMMA TwinTypes ==
  ASSUME NEW s, NEW w, NEW v, AreTwins(s, w, v)
  PROVE  /\ AllTypes(w) \subseteq TileType
         /\ AllTypes(v) = {Turn(s, t) : t \in AllTypes(w)}
  <1>1. /\ s \in {1, 2} /\ IsWin(w) /\ IsWin(v) /\ IsTwin(s, w, v)
    BY DEF AreTwins
  <1>2. /\ DOMAIN w.tiles \subseteq TileType /\ DOMAIN v.tiles \subseteq TileType
        /\ DOMAIN v.tiles = {Turn(s, t) : t \in DOMAIN w.tiles}
    BY <1>1, WinTypes DEF IsTwin, SameCounts
  <1>3. Held(w.tiles) \subseteq TileType /\ Held(v.tiles) = {Turn(s, t) : t \in Held(w.tiles)}
    <2>1. \A t \in DOMAIN w.tiles : v.tiles[Turn(s, t)] = w.tiles[t]
      BY <1>1 DEF IsTwin, SameCounts
    <2> QED
      BY <1>2, <2>1 DEF Held
  <1>4. \A i \in DOMAIN w.melds :
          /\ GroupTypes(Melds(w)[i]) \subseteq TileType
          /\ GroupTypes(Melds(v)[i]) = {Turn(s, t) : t \in GroupTypes(Melds(w)[i])}
    BY <1>1, TwinShape, TwinMeld, TurnedGroup
  <1>5. DOMAIN v.melds = DOMAIN w.melds
    BY TwinShape
  <1> QED
    BY <1>3, <1>4, <1>5 DEF AllTypes

LEMMA TwinTotalOf ==
  ASSUME NEW s, NEW w, NEW v, AreTwins(s, w, v),
         NEW c, c.total = TotalCounts(w), NEW b, b.total = TotalCounts(v), NEW t \in TileType
  PROVE  TotalOf(b, Turn(s, t)) = TotalOf(c, t)
  <1>1. s \in {1, 2}
    BY DEF AreTwins
  <1>2. Turn(s, t) \in AllTypes(v) <=> t \in AllTypes(w)
    BY <1>1, TwinTypes, TurnSame
  <1> DEFINE F(x, y) == [i \in DOMAIN x.melds |-> GroupCount(Melds(x)[i], y)]
  <1>3. F(v, Turn(s, t)) = F(w, t)
    <2>1. \A i \in DOMAIN w.melds : GroupCount(Melds(v)[i], Turn(s, t)) = GroupCount(Melds(w)[i], t)
      BY <1>1, TwinShape, TwinMeld, TurnedGroup
    <2> QED
      BY <2>1, TwinShape
  <1>4. \A x : \A y \in AllTypes(x) : TotalCounts(x)[y] = HeldOf(x, y) + SumFunction(F(x, y))
    BY DEF TotalCounts, HeldOf
  <1>5. \A x : DOMAIN TotalCounts(x) = AllTypes(x)
    BY DEF TotalCounts
  <1>6. HeldOf(v, Turn(s, t)) = HeldOf(w, t)
    BY TwinHeld
  <1> HIDE DEF F
  <1>7. CASE t \in AllTypes(w)
    BY <1>2, <1>3, <1>4, <1>5, <1>6, <1>7 DEF TotalOf
  <1>8. CASE t \notin AllTypes(w)
    BY <1>2, <1>5, <1>8 DEF TotalOf
  <1> QED
    BY <1>7, <1>8

\* The contexts of twins.
SameContext(s, c, b) ==
  /\ b.win = c.win /\ b.rinshan = c.rinshan /\ b.haitei = c.haitei
  /\ b.houtei = c.houtei /\ b.chankan = c.chankan
  /\ b.suits = {(x + s) % 3 : x \in c.suits} /\ c.suits \subseteq 0 .. 2 /\ b.suits \subseteq 0 .. 2
  /\ b.honor <=> c.honor
  /\ b.simple <=> c.simple
  /\ b.terminal <=> c.terminal

LEMMA TwinContext ==
  ASSUME NEW s, NEW w, NEW v, AreTwins(s, w, v)
  PROVE  SameContext(s, DeclaredContext(w), DeclaredContext(v))
  <1>1. /\ s \in {1, 2} /\ IsWin(w) /\ IsWin(v)
        /\ v.live = w.live /\ v.rinshan = w.rinshan /\ v.empty = w.empty
    BY DEF AreTwins, IsTwin, SameCircumstances
  <1> DEFINE c == DeclaredContext(w)
             b == DeclaredContext(v)
             d == [LiveState(w) EXCEPT !.chankan = w.live \notin {"DRAW", "DISCARD"}]
             how == DetectWin(w, d)
  <1>2. [LiveState(v) EXCEPT !.chankan = v.live \notin {"DRAW", "DISCARD"}] = d
    BY <1>1 DEF LiveState
  <1>3. DetectWin(v, d) = how
    BY DEF DetectWin
  <1> HIDE DEF d, how
  <1>4. c = Context(w, d) /\ b = Context(v, d) /\ DetectWin(w, d) = how
    BY <1>2 DEF DeclaredContext, d, how
  <1> HIDE DEF c, b
  <1>5. /\ b.win = c.win /\ b.rinshan = c.rinshan /\ b.haitei = c.haitei
        /\ b.houtei = c.houtei /\ b.chankan = c.chankan
    BY <1>1, <1>3, <1>4 DEF Context
  <1>6. /\ c.suits = {Suit(t) : t \in AllTypes(w)} \ {HONOR}
        /\ b.suits = {Suit(t) : t \in AllTypes(v)} \ {HONOR}
        /\ c.honor = (\E t \in AllTypes(w) : Suit(t) = HONOR)
        /\ b.honor = (\E t \in AllTypes(v) : Suit(t) = HONOR)
        /\ c.simple = (\E t \in AllTypes(w) : ~ IsYaochu(t))
        /\ b.simple = (\E t \in AllTypes(v) : ~ IsYaochu(t))
        /\ c.terminal = (\E t \in AllTypes(w) : Number(t) \in {1, 9})
        /\ b.terminal = (\E t \in AllTypes(v) : Number(t) \in {1, 9})
    BY <1>4 DEF Context
  <1>7. AllTypes(w) \subseteq TileType /\ AllTypes(v) = {Turn(s, t) : t \in AllTypes(w)}
    BY TwinTypes
  <1>8. \A t \in AllTypes(w) :
          /\ Suit(Turn(s, t)) = HONOR <=> Suit(t) = HONOR
          /\ Suit(t) # HONOR => Suit(Turn(s, t)) = (Suit(t) + s) % 3
          /\ IsYaochu(Turn(s, t)) <=> IsYaochu(t)
          /\ Number(Turn(s, t)) \in {1, 9} <=> Number(t) \in {1, 9}
    BY <1>1, <1>7, TurnFacts
  <1>9. b.honor <=> c.honor
    BY <1>6, <1>7, <1>8
  <1>10. b.simple <=> c.simple
    BY <1>6, <1>7, <1>8
  <1>11. b.terminal <=> c.terminal
    BY <1>6, <1>7, <1>8
  <1>12. b.suits = {(x + s) % 3 : x \in c.suits}
    BY <1>6, <1>7, <1>8
  <1>13. c.suits \subseteq 0 .. 2 /\ b.suits \subseteq 0 .. 2
    <2>1. \A t \in TileType : Suit(t) \in 0 .. 3
      BY <1>1, TurnIs
    <2>2. AllTypes(v) \subseteq TileType
      BY <1>1, <1>7, TurnFacts
    <2> QED
      BY <2>1, <2>2, <1>6, <1>7 DEF HONOR
  <1> QED
    BY <1>5, <1>9, <1>10, <1>11, <1>12, <1>13 DEF SameContext, c, b

-----------------------------------------------------------------------------
(* The yaku that the tiles alone decide                                     *)

LEMMA TwinKokushi ==
  ASSUME NEW s, NEW w, NEW v, AreTwins(s, w, v), IsKokushi(w)
  PROVE  IsKokushi(v)
  <1>1. s \in {1, 2} /\ w.melds = <<>> /\ CheckKokushi(w.tiles)
    BY DEF AreTwins, IsKokushi
  <1>2. v.melds = <<>>
    BY <1>1, TwinShape
  <1>3. Orphans \subseteq TileType
    BY DEF Orphans
  <1>4. \A t \in TileType : Turn(s, t) \in TileType /\ (Turn(s, t) \in Orphans <=> t \in Orphans)
    BY <1>1, TurnFacts DEF Orphans
  <1>5. \A t \in TileType : Turn(s, Turn(Back(s), t)) = t /\ Turn(Back(s), t) \in TileType
    BY <1>1, BackAgain, TurnFacts
  <1>6. \A t \in TileType : /\ Turn(s, t) \in DOMAIN v.tiles <=> t \in DOMAIN w.tiles
                            /\ t \in DOMAIN w.tiles => v.tiles[Turn(s, t)] = w.tiles[t]
    BY TwinHeld
  <1>7. /\ Orphans \subseteq DOMAIN w.tiles /\ \A t \in Orphans : w.tiles[t] >= 1
        /\ \E pair \in Orphans : {t \in Orphans : w.tiles[t] >= 2} = {pair}
    BY <1>1 DEF CheckKokushi, Contains
  <1>8. ASSUME NEW u \in Orphans
        PROVE  \E t \in Orphans : u = Turn(s, t) /\ u \in DOMAIN v.tiles /\ v.tiles[u] = w.tiles[t]
    <2>1. Turn(Back(s), u) \in Orphans /\ Turn(s, Turn(Back(s), u)) = u
      BY <1>3, <1>4, <1>5
    <2> QED
      BY <2>1, <1>3, <1>6, <1>7
  <1>9. PICK pair \in Orphans : {t \in Orphans : w.tiles[t] >= 2} = {pair}
    BY <1>7
  <1>10. /\ Turn(s, pair) \in Orphans
         /\ {u \in Orphans : v.tiles[u] >= 2} = {Turn(s, pair)}
    <2>1. Turn(s, pair) \in Orphans /\ v.tiles[Turn(s, pair)] = w.tiles[pair]
      BY <1>3, <1>4, <1>6, <1>7
    <2>2. \A u \in Orphans : v.tiles[u] >= 2 => u = Turn(s, pair)
      BY <1>8, <1>9
    <2>3. w.tiles[pair] >= 2
      BY <1>9
    <2> QED
      BY <2>1, <2>2, <2>3
  <1>11. Contains(v.tiles, 1, Orphans)
    BY <1>7, <1>8 DEF Contains
  <1> QED
    BY <1>2, <1>10, <1>11 DEF IsKokushi, CheckKokushi

LEMMA TwinChiitoi ==
  ASSUME NEW s, NEW w, NEW v, AreTwins(s, w, v), IsChiitoi(w)
  PROVE  IsChiitoi(v)
  <1>1. s \in {1, 2} /\ w.melds = <<>> /\ CheckSevenPairs(w.tiles)
    BY DEF AreTwins, IsChiitoi
  <1>2. v.melds = <<>>
    BY <1>1, TwinShape
  <1>3. SameCounts(s, w.tiles, v.tiles)
    BY DEF AreTwins, IsTwin
  <1>4. CheckSevenPairs(v.tiles)
    BY <1>1, <1>3 DEF CheckSevenPairs, SameCounts
  <1> QED
    BY <1>2, <1>4 DEF IsChiitoi

\* The n-th of a suit from below becomes the n-th from above.
LEMMA TurnNth ==
  ASSUME NEW s \in {1, 2}, NEW suit \in 0 .. 2, NEW n \in 1 .. 9
  PROVE  /\ 9 * suit + n - 1 \in TileType
         /\ Turn(s, 9 * suit + n - 1) = 9 * ((suit + s) % 3) + (10 - n) - 1
         /\ (suit + s) % 3 \in 0 .. 2
         /\ NineGates(10 - n) = NineGates(n)
  <1> DEFINE t == 9 * suit + n - 1
  <1>1. /\ suit = 0 => t \in 0 .. 8 /\ t = n - 1
        /\ suit = 1 => t \in 9 .. 17 /\ t = n + 8
        /\ suit = 2 => t \in 18 .. 26 /\ t = n + 17
    OBVIOUS
  <1>2. suit = 0 \/ suit = 1 \/ suit = 2
    OBVIOUS
  <1>3. t \in TileType
    BY <1>1, <1>2 DEF TileType
  <1>4. /\ t \in 0 .. 8   => Turn(s, t) = (IF s = 1 THEN 17 - t ELSE 26 - t)
        /\ t \in 9 .. 17  => Turn(s, t) = (IF s = 1 THEN 35 - t ELSE 17 - t)
        /\ t \in 18 .. 26 => Turn(s, t) = (IF s = 1 THEN 26 - t ELSE 35 - t)
    BY <1>3, TurnIs
  <1>5. /\ (0 + 1) % 3 = 1 /\ (1 + 1) % 3 = 2 /\ (2 + 1) % 3 = 0
        /\ (0 + 2) % 3 = 2 /\ (1 + 2) % 3 = 0 /\ (2 + 2) % 3 = 1
    OBVIOUS
  <1> DEFINE x == (suit + s) % 3
  <1>6. /\ suit = 0 => x = s
        /\ suit = 1 => x = (IF s = 1 THEN 2 ELSE 0)
        /\ suit = 2 => x = (IF s = 1 THEN 0 ELSE 1)
    BY <1>5
  <1> HIDE DEF x, t
  <1>7. Turn(s, t) = 9 * x + (10 - n) - 1
    BY <1>1, <1>2, <1>4, <1>6
  <1>8. x \in 0 .. 2
    BY <1>2, <1>6
  <1>9. NineGates(10 - n) = NineGates(n)
    BY DEF NineGates
  <1> QED
    BY <1>3, <1>7, <1>8, <1>9 DEF x, t

\* One suit stays one suit.
LEMMA TwinSuits ==
  ASSUME NEW s \in {1, 2}, NEW c, NEW b, SameContext(s, c, b)
  PROVE  /\ Cardinality(c.suits) = 1 => Cardinality(b.suits) = 1
         /\ c.suits = {} => b.suits = {}
  <1>1. b.suits = {(x + s) % 3 : x \in c.suits} /\ c.suits \subseteq 0 .. 2
    BY DEF SameContext
  <1>2. c.suits = {} => b.suits = {}
    BY <1>1
  <1>3. ASSUME Cardinality(c.suits) = 1
        PROVE  Cardinality(b.suits) = 1
    <2>1. IsFiniteSet(c.suits)
      <3>1. IsFiniteSet(0 .. 2)
        <4>1. 0 \in Int /\ 2 \in Int
          OBVIOUS
        <4> QED
          BY <4>1, FS_Interval
      <3> QED
        BY <3>1, <1>1, FS_Subset
    <2>2. PICK x : c.suits = {x}
      BY <2>1, <1>3, FS_Singleton
    <2>3. b.suits = {(x + s) % 3}
      BY <2>2, <1>1
    <2> QED
      BY <2>3, FS_Singleton
  <1> QED
    BY <1>2, <1>3

LEMMA TwinChuuren ==
  ASSUME NEW s, NEW w, NEW v, AreTwins(s, w, v),
         NEW c, c.total = TotalCounts(w), NEW b, b.total = TotalCounts(v), SameContext(s, c, b),
         IsChuuren(w, c)
  PROVE  IsChuuren(v, b)
  <1>1. s \in {1, 2} /\ w.melds = <<>> /\ ~ c.honor /\ Cardinality(c.suits) = 1
    BY DEF AreTwins, IsChuuren
  <1>2. /\ v.melds = <<>> /\ ~ b.honor /\ Cardinality(b.suits) = 1
        /\ b.suits = {(x + s) % 3 : x \in c.suits} /\ c.suits \subseteq 0 .. 2
    <2>1. Cardinality(b.suits) = 1
      BY <1>1, TwinSuits
    <2>2. v.melds = <<>>
      BY <1>1, TwinShape
    <2> QED
      BY <1>1, <2>1, <2>2 DEF SameContext
  <1>3. PICK suit \in c.suits : \A n \in 1 .. 9 : TotalOf(c, 9 * suit + n - 1) >= NineGates(n)
    BY DEF IsChuuren
  <1> DEFINE x == (suit + s) % 3
  <1>4. x \in b.suits /\ suit \in 0 .. 2
    BY <1>2
  <1>5. ASSUME NEW n \in 1 .. 9
        PROVE  TotalOf(b, 9 * x + n - 1) >= NineGates(n)
    <2> DEFINE m == 10 - n
               t == 9 * suit + m - 1
    <2>1. m \in 1 .. 9 /\ 10 - m = n
      OBVIOUS
    <2> HIDE DEF m
    <2>2. t \in TileType /\ Turn(s, t) = 9 * x + n - 1 /\ NineGates(m) = NineGates(n)
      BY <1>1, <1>4, <2>1, TurnNth
    <2>3. TotalOf(b, Turn(s, t)) = TotalOf(c, t)
      BY <2>2, TwinTotalOf
    <2>4. TotalOf(c, t) >= NineGates(m)
      BY <1>3, <2>1
    <2> QED
      BY <2>2, <2>3, <2>4
  <1> QED
    BY <1>2, <1>4, <1>5 DEF IsChuuren

\* The winning tile is where it was.
LEMMA TwinType ==
  ASSUME NEW s, NEW w, NEW v, AreTwins(s, w, v)
  PROVE  /\ v.tiles[v.type] = w.tiles[w.type]
         /\ NineGates(Number(v.type)) = NineGates(Number(w.type))
  <1>1. /\ s \in {1, 2} /\ w.type \in DOMAIN w.tiles /\ w.type \in TileType
        /\ v.type = Turn(s, w.type)
    BY WinTypes DEF AreTwins, IsTwin
  <1> QED
    BY <1>1, TwinHeld, TurnFacts DEF NineGates

\* How many of some honors there are three of.
LEMMA TwinTriplets ==
  ASSUME NEW s, NEW w, NEW v, AreTwins(s, w, v),
         NEW c, c.total = TotalCounts(w), NEW b, b.total = TotalCounts(v),
         NEW types \in SUBSET (27 .. 33)
  PROVE  TripletsIn(b, types) = TripletsIn(c, types)
  <1>1. \A t \in types : TotalOf(b, t) = TotalOf(c, t)
    <2>1. s \in {1, 2}
      BY DEF AreTwins
    <2>2. \A t \in types : t \in TileType
      BY DEF TileType
    <2>3. \A t \in types : Turn(s, t) = t
      BY <2>1, <2>2, TurnIs
    <2> QED
      BY <2>2, <2>3, TwinTotalOf
  <1> QED
    BY <1>1 DEF TripletsIn

\* What decides the yaku that do not depend on the reading.
SameWin(w, c, v, b) ==
  /\ v.riichi = w.riichi /\ v.double_riichi = w.double_riichi /\ v.ippatsu = w.ippatsu
  /\ v.first_turn = w.first_turn /\ v.dealer = w.dealer
  /\ b.win = c.win /\ b.rinshan = c.rinshan /\ b.haitei = c.haitei
  /\ b.houtei = c.houtei /\ b.chankan = c.chankan
  /\ IsClosed(v) <=> IsClosed(w)
  /\ IsKokushi(v) <=> IsKokushi(w)
  /\ IsKokushi13Wait(v) <=> IsKokushi13Wait(w)
  /\ IsChiitoi(v) <=> IsChiitoi(w)
  /\ IsChuuren(v, b) <=> IsChuuren(w, c)
  /\ IsJunseiChuuren(v, b) <=> IsJunseiChuuren(w, c)
  /\ b.honor <=> c.honor
  /\ b.terminal <=> c.terminal
  /\ b.simple <=> c.simple
  /\ Cardinality(b.suits) = 1 <=> Cardinality(c.suits) = 1
  /\ b.suits = {} <=> c.suits = {}
  /\ IsGreen(v) <=> IsGreen(w)
  /\ Quads(v) = Quads(w)
  /\ TripletsIn(b, Dragons \cup ValueWinds(v)) = TripletsIn(c, Dragons \cup ValueWinds(w))
  /\ TripletsIn(b, Dragons) = TripletsIn(c, Dragons)
  /\ TripletsIn(b, Winds) = TripletsIn(c, Winds)

LEMMA SameBase ==
  ASSUME NEW w, NEW c, NEW v, NEW b, SameWin(w, c, v, b), NEW r
  PROVE  CountBasedYaku(v, r, b) = CountBasedYaku(w, r, c)
  <1>1. When(v.riichi, "RIICHI") = When(w.riichi, "RIICHI")
    BY DEF SameWin
  <1>2. When(v.double_riichi, "DOUBLE_RIICHI") = When(w.double_riichi, "DOUBLE_RIICHI")
    BY DEF SameWin
  <1>3. When(r.ippatsu /\ v.ippatsu, "IPPATSU") = When(r.ippatsu /\ w.ippatsu, "IPPATSU")
    BY DEF SameWin
  <1>4. When(b.win = "TSUMO" /\ IsClosed(v), "MENZEN_TSUMO")
          = When(c.win = "TSUMO" /\ IsClosed(w), "MENZEN_TSUMO")
    BY DEF When, SameWin
  <1>5. /\ When(b.rinshan, "RINSHAN") = When(c.rinshan, "RINSHAN")
        /\ When(b.haitei, "HAITEI") = When(c.haitei, "HAITEI")
        /\ When(b.houtei, "HOUTEI") = When(c.houtei, "HOUTEI")
        /\ When(b.chankan, "CHANKAN") = When(c.chankan, "CHANKAN")
    BY DEF SameWin
  <1>6. When(b.win = "TSUMO" /\ v.first_turn /\ v.dealer, "TENHOU")
          = When(c.win = "TSUMO" /\ w.first_turn /\ w.dealer, "TENHOU")
    BY DEF SameWin
  <1>7. When(b.win = "TSUMO" /\ v.first_turn /\ ~ v.dealer, "CHIIHOU")
          = When(c.win = "TSUMO" /\ w.first_turn /\ ~ w.dealer, "CHIIHOU")
    BY DEF SameWin
  <1>8. /\ When(IsKokushi(v), "KOKUSHI") = When(IsKokushi(w), "KOKUSHI")
        /\ When(IsKokushi13Wait(v), "KOKUSHI_13") = When(IsKokushi13Wait(w), "KOKUSHI_13")
        /\ When(IsChiitoi(v), "CHIITOI") = When(IsChiitoi(w), "CHIITOI")
        /\ When(IsChuuren(v, b), "CHUUREN") = When(IsChuuren(w, c), "CHUUREN")
        /\ When(IsJunseiChuuren(v, b), "JUNSEI_CHUUREN") = When(IsJunseiChuuren(w, c), "JUNSEI_CHUUREN")
    BY DEF When, SameWin
  <1>9. When(/\ ~ b.honor /\ ~ b.terminal
             /\ IsClosed(v) \/ r.kuitan, "TANYAO")
          = When(/\ ~ c.honor /\ ~ c.terminal
                 /\ IsClosed(w) \/ r.kuitan, "TANYAO")
    BY DEF When, SameWin
  <1>10. When(TripletsIn(b, Dragons \cup ValueWinds(v)) > 0, "YAKUHAI")
           = When(TripletsIn(c, Dragons \cup ValueWinds(w)) > 0, "YAKUHAI")
    BY DEF SameWin
  <1>11. When(~ b.simple, "HONROUTOU") = When(~ c.simple, "HONROUTOU")
    BY DEF When, SameWin
  <1>12. When(b.honor /\ Cardinality(b.suits) = 1, "HONITSU")
           = When(c.honor /\ Cardinality(c.suits) = 1, "HONITSU")
    BY DEF When, SameWin
  <1>13. When(~ b.honor /\ Cardinality(b.suits) = 1, "CHINITSU")
           = When(~ c.honor /\ Cardinality(c.suits) = 1, "CHINITSU")
    BY DEF When, SameWin
  <1>14. When(b.suits = {}, "TSUUIISOU") = When(c.suits = {}, "TSUUIISOU")
    BY DEF When, SameWin
  <1>15. When(AllTypes(v) \subseteq GreenTypes, "RYUUIISOU")
           = When(AllTypes(w) \subseteq GreenTypes, "RYUUIISOU")
    BY DEF When, SameWin, IsGreen
  <1>16. When(~ b.simple /\ ~ b.honor, "CHINROUTOU") = When(~ c.simple /\ ~ c.honor, "CHINROUTOU")
    BY DEF When, SameWin
  <1>17. /\ When(Quads(v) >= 3, "SANKANTSU") = When(Quads(w) >= 3, "SANKANTSU")
         /\ When(Quads(v) = 4, "SUUKANTSU") = When(Quads(w) = 4, "SUUKANTSU")
    BY DEF SameWin
  <1>18. /\ When(TripletsIn(b, Dragons) = 3, "DAISANGEN") = When(TripletsIn(c, Dragons) = 3, "DAISANGEN")
         /\ When(TripletsIn(b, Winds) = 4, "DAISUUSHII") = When(TripletsIn(c, Winds) = 4, "DAISUUSHII")
    BY DEF SameWin
  <1> QED
    BY <1>1, <1>2, <1>3, <1>4, <1>5, <1>6, <1>7, <1>8, <1>9, <1>10, <1>11, <1>12, <1>13,
       <1>14, <1>15, <1>16, <1>17, <1>18 DEF CountBasedYaku

LEMMA TwinsWinAlike ==
  ASSUME NEW s, NEW w, NEW v, AreTwins(s, w, v), IsGreen(v) <=> IsGreen(w)
  PROVE  SameWin(w, DeclaredContext(w), v, DeclaredContext(v))
  <1> DEFINE c == DeclaredContext(w)
             b == DeclaredContext(v)
  <1>1. AreTwins(Back(s), v, w) /\ s \in {1, 2} /\ Back(s) \in {1, 2}
    BY TwinsBack, BackAgain DEF AreTwins
  <1>2. /\ IsWin(w) /\ IsWin(v) /\ SameCircumstances(w, v)
        /\ c.total = TotalCounts(w) /\ b.total = TotalCounts(v)
    BY ContextType DEF AreTwins, IsTwin
  <1>3. SameContext(s, c, b) /\ SameContext(Back(s), b, c)
    BY <1>1, TwinContext
  <1> HIDE DEF c, b
  <1>4. /\ IsClosed(v) <=> IsClosed(w)
        /\ Quads(v) = Quads(w)
    BY TwinShape
  <1>5. IsKokushi(v) <=> IsKokushi(w)
    BY <1>1, TwinKokushi
  <1>6. IsKokushi13Wait(v) <=> IsKokushi13Wait(w)
    BY <1>5, TwinType DEF IsKokushi13Wait
  <1>7. IsChiitoi(v) <=> IsChiitoi(w)
    BY <1>1, TwinChiitoi
  <1>8. IsChuuren(v, b) <=> IsChuuren(w, c)
    BY <1>1, <1>2, <1>3, TwinChuuren
  <1>9. IsJunseiChuuren(v, b) <=> IsJunseiChuuren(w, c)
    BY <1>8, TwinType DEF IsJunseiChuuren
  <1>10. Cardinality(b.suits) = 1 <=> Cardinality(c.suits) = 1
    BY <1>1, <1>3, TwinSuits
  <1>11. b.suits = {} <=> c.suits = {}
    BY <1>1, <1>3, TwinSuits
  <1>12. /\ TripletsIn(b, Dragons) = TripletsIn(c, Dragons)
         /\ TripletsIn(b, Winds) = TripletsIn(c, Winds)
         /\ TripletsIn(b, Dragons \cup ValueWinds(v)) = TripletsIn(c, Dragons \cup ValueWinds(w))
    <2>1. Dragons \subseteq 27 .. 33 /\ Winds \subseteq 27 .. 33
      BY DEF Dragons, HAKU, CHUN, Winds, EAST, NORTH
    <2>2. ValueWinds(v) = ValueWinds(w) /\ Dragons \cup ValueWinds(w) \subseteq 27 .. 33
      BY <1>2, <2>1 DEF ValueWinds, SameCircumstances, IsWin
    <2> QED
      BY <1>2, <2>1, <2>2, TwinTriplets
  <1>13. /\ b.win = c.win /\ b.rinshan = c.rinshan /\ b.haitei = c.haitei
         /\ b.houtei = c.houtei /\ b.chankan = c.chankan
         /\ b.honor <=> c.honor
         /\ b.simple <=> c.simple
         /\ b.terminal <=> c.terminal
    BY <1>3 DEF SameContext
  <1>14. /\ v.riichi = w.riichi /\ v.double_riichi = w.double_riichi /\ v.ippatsu = w.ippatsu
         /\ v.first_turn = w.first_turn /\ v.dealer = w.dealer
    BY <1>2 DEF SameCircumstances
  <1>15. SameWin(w, c, v, b)
    BY <1>4, <1>5, <1>6, <1>7, <1>8, <1>9, <1>10, <1>11, <1>12, <1>13, <1>14 DEF SameWin
  <1> QED
    BY <1>15 DEF c, b

-----------------------------------------------------------------------------
(* The same division in another suit                                        *)

LEMMA TurnHonor ==
  ASSUME NEW s \in {1, 2}, NEW t \in TileType, NEW types \in SUBSET (27 .. 33)
  PROVE  Turn(s, t) \in types <=> t \in types
  <1>1. /\ t \in 27 .. 33 => Turn(s, t) = t
        /\ t \in 0 .. 8   => Turn(s, t) = (IF s = 1 THEN 17 - t ELSE 26 - t)
        /\ t \in 9 .. 17  => Turn(s, t) = (IF s = 1 THEN 35 - t ELSE 17 - t)
        /\ t \in 18 .. 26 => Turn(s, t) = (IF s = 1 THEN 26 - t ELSE 35 - t)
    BY TurnIs
  <1>2. CASE t \in 27 .. 33
    BY <1>1, <1>2
  <1>3. CASE t \notin 27 .. 33
    <2>1. Turn(s, t) \notin 27 .. 33
      BY <1>1, <1>3 DEF TileType
    <2> QED
      BY <1>3, <2>1
  <1> QED
    BY <1>2, <1>3

\* What a group counts for.
LEMMA TurnedWait ==
  ASSUME NEW s \in {1, 2}, NEW g, IsSound(g), NEW h, h = TurnGroup(s, g), NEW type \in TileType
  PROVE  IsRyanmenWait(h, Turn(s, type)) <=> IsRyanmenWait(g, type)
  <1>1. /\ IsSequence(h) <=> IsSequence(g)
        /\ h.wins = g.wins /\ g.base \in TileType
        /\ h.base = TurnBase(s, IsSequence(g), g.base)
        /\ IsSequence(g) => StartsSequence(g.base)
    BY DEF TurnGroup, IsSequence, IsSound, Groups
  <1>2. CASE IsSequence(g)
    <2> DEFINE b == g.base
    <2>1. h.base = Turn(s, b + 2)
      BY <1>1, <1>2 DEF TurnBase
    <2>0. b \in TileType /\ StartsSequence(b)
      BY <1>1, <1>2
    <2> HIDE DEF b
    <2>2. /\ b \in TileType /\ b + 2 \in TileType /\ Turn(s, b) = Turn(s, b + 2) + 2
          /\ Number(Turn(s, b + 2)) = 8 - Number(b) /\ Number(b) \in 1 .. 7
      BY <2>0, TurnSequence
    <2>3. /\ Turn(s, type) = h.base <=> type = b + 2
          /\ Turn(s, type) = h.base + 2 <=> type = b
      BY <2>1, <2>2, TurnSame
    <2>4. (Number(h.base) # 7 <=> Number(b) # 1) /\ (Number(h.base) # 1 <=> Number(b) # 7)
      BY <2>1, <2>2
    <2> QED
      BY <1>1, <1>2, <2>3, <2>4 DEF IsRyanmenWait, b
  <1>3. CASE ~ IsSequence(g)
    BY <1>1, <1>3 DEF IsRyanmenWait
  <1> QED
    BY <1>2, <1>3

LEMMA TurnedYaochu ==
  ASSUME NEW s \in {1, 2}, NEW g, IsSound(g), NEW h, h = TurnGroup(s, g)
  PROVE  HasYaochu(h) <=> HasYaochu(g)
  <1>1. /\ IsSequence(h) <=> IsSequence(g)
        /\ g.base \in TileType
        /\ h.base = TurnBase(s, IsSequence(g), g.base)
        /\ IsSequence(g) => StartsSequence(g.base)
    BY DEF TurnGroup, IsSequence, IsSound, Groups
  <1>2. CASE IsSequence(g)
    <2> DEFINE b == g.base
    <2>0. b \in TileType /\ StartsSequence(b)
      BY <1>1, <1>2
    <2>1. h.base = Turn(s, b + 2)
      BY <1>1, <1>2 DEF TurnBase
    <2> HIDE DEF b
    <2>2. Number(Turn(s, b + 2)) = 8 - Number(b) /\ Number(b) \in 1 .. 7
      BY <2>0, TurnSequence
    <2>3. Number(Turn(s, b + 2)) \in {1, 7} <=> Number(b) \in {1, 7}
      BY <2>2
    <2> QED
      BY <1>1, <1>2, <2>1, <2>3 DEF HasYaochu, b
  <1>3. CASE ~ IsSequence(g)
    <2>1. h.base = Turn(s, g.base)
      BY <1>1, <1>3 DEF TurnBase
    <2> QED
      BY <1>1, <1>3, <2>1, TurnFacts DEF HasYaochu
  <1> QED
    BY <1>2, <1>3

LEMMA TurnedFu ==
  ASSUME NEW s \in {1, 2}, NEW g, IsSound(g), NEW h, h = TurnGroup(s, g),
         NEW c, NEW b, b.win = c.win
  PROVE  /\ IsConcealedTriplet(h, b) <=> IsConcealedTriplet(g, c)
         /\ GroupFu(h, b) = GroupFu(g, c)
  <1>1. /\ IsSequence(h) <=> IsSequence(g)
        /\ g.base \in TileType /\ g.kind \in {"SEQUENCE", "TRIPLET", "QUAD"}
        /\ h.kind = g.kind /\ h.open = g.open /\ h.wins = g.wins
        /\ h.base = TurnBase(s, IsSequence(g), g.base)
    BY DEF TurnGroup, IsSequence, IsSound, Groups
  <1>2. IsConcealedTriplet(h, b) <=> IsConcealedTriplet(g, c)
    BY <1>1 DEF IsConcealedTriplet
  <1>3. CASE IsSequence(g)
    <2>1. g.kind = "SEQUENCE" /\ h.kind = "SEQUENCE"
      BY <1>1, <1>3 DEF IsSequence
    <2>2. 2 * 0 = 0
      OBVIOUS
    <2> QED
      BY <1>2, <2>1, <2>2 DEF GroupFu
  <1>4. CASE ~ IsSequence(g)
    <2>1. h.base = Turn(s, g.base)
      BY <1>1, <1>4 DEF TurnBase
    <2>2. IsYaochu(h.base) <=> IsYaochu(g.base)
      BY <1>1, <2>1, TurnFacts
    <2> QED
      BY <1>1, <1>2, <2>2 DEF GroupFu
  <1> QED
    BY <1>2, <1>3, <1>4

-----------------------------------------------------------------------------

SoundReading(d, w) == IsReading(d, w) /\ \A i \in 1 .. 4 : IsSound(d.groups[i])

TurnReading(s, d) ==
  [groups |-> [i \in 1 .. 4 |-> TurnGroup(s, d.groups[i])],
   pair |-> Turn(s, d.pair), pair_wins |-> d.pair_wins]

\* Two readings of twins, the one turned into the other.
AreTurned(s, w, v, d, e) ==
  /\ AreTwins(s, w, v) /\ SoundReading(d, w) /\ SoundReading(e, v)
  /\ \A i \in 1 .. 4 : e.groups[i] = TurnGroup(s, d.groups[i])
  /\ e.pair = Turn(s, d.pair) /\ e.pair_wins = d.pair_wins

LEMMA TurnedBack ==
  ASSUME NEW s, NEW w, NEW v, NEW d, NEW e, AreTurned(s, w, v, d, e)
  PROVE  AreTurned(Back(s), v, w, e, d)
  <1>1. /\ AreTwins(s, w, v) /\ s \in {1, 2} /\ SoundReading(d, w) /\ SoundReading(e, v)
        /\ e.pair = Turn(s, d.pair) /\ e.pair_wins = d.pair_wins
        /\ \A i \in 1 .. 4 : e.groups[i] = TurnGroup(s, d.groups[i]) /\ IsSound(d.groups[i])
        /\ d.pair \in TileType
    BY DEF AreTurned, AreTwins, SoundReading, IsReading
  <1>2. AreTwins(Back(s), v, w)
    BY <1>1, TwinsBack
  <1>3. \A i \in 1 .. 4 : d.groups[i] = TurnGroup(Back(s), e.groups[i])
    BY <1>1, TurnedGroup
  <1>4. d.pair = Turn(Back(s), e.pair)
    BY <1>1, TurnFacts
  <1> QED
    BY <1>1, <1>2, <1>3, <1>4 DEF AreTurned

LEMMA DivisionIsSound ==
  ASSUME NEW s, NEW w, NEW v, AreTwins(s, w, v), NEW d, IsDivision(d, w)
  PROVE  SoundReading(d, w)
  <1>1. IsReading(d, w) /\ IsWin(w) /\ Len(w.melds) \in 0 .. 4
    BY TwinShape DEF IsDivision, AreTwins
  <1>2. ASSUME NEW i \in 1 .. 4
        PROVE  IsSound(d.groups[i])
    <2>1. d.groups[i] \in Groups
      BY <1>1 DEF IsReading
    <2>2. CASE i \in 1 .. Len(w.melds)
      <3>1. d.groups[i] = MeldGroup(w.melds[i])
        BY <1>1, <2>2 DEF IsReading
      <3> QED
        BY <2>2, <3>1, TwinMeld
    <2>3. CASE i \notin 1 .. Len(w.melds)
      <3>1. i \in Due(w)
        BY <1>1, <2>3 DEF Due
      <3> QED
        BY <2>1, <3>1 DEF IsDivision, IsSound
    <2> QED
      BY <2>2, <2>3
  <1> QED
    BY <1>1, <1>2 DEF SoundReading

LEMMA TurnedIsReading ==
  ASSUME NEW s, NEW w, NEW v, AreTwins(s, w, v), NEW d, IsDivision(d, w),
         NEW e, e = TurnReading(s, d)
  PROVE  AreTurned(s, w, v, d, e)
  <1>1. /\ SoundReading(d, w) /\ s \in {1, 2} /\ Len(w.melds) \in 0 .. 4 /\ Len(v.melds) = Len(w.melds)
    BY DivisionIsSound, TwinShape DEF AreTwins
  <1>2. /\ IsReading(d, w) /\ \A i \in 1 .. 4 : IsSound(d.groups[i])
        /\ d.pair \in TileType /\ d.pair_wins \in BOOLEAN
    BY <1>1 DEF SoundReading, IsReading
  <1>3. /\ e.groups = [i \in 1 .. 4 |-> TurnGroup(s, d.groups[i])]
        /\ e.pair = Turn(s, d.pair) /\ e.pair_wins = d.pair_wins
    BY DEF TurnReading
  <1>4. \A i \in 1 .. 4 : e.groups[i] = TurnGroup(s, d.groups[i]) /\ IsSound(e.groups[i])
    BY <1>1, <1>2, <1>3, TurnedGroup
  <1>5. e.groups \in Seq(Groups) /\ Len(e.groups) = 4
    <2>1. e.groups \in [1 .. 4 -> Groups]
      BY <1>3, <1>4 DEF IsSound
    <2>2. ASSUME NEW S, NEW n \in Nat, NEW q \in [1 .. n -> S]
          PROVE  q \in Seq(S) /\ Len(q) = n
      OBVIOUS
    <2>3. 4 \in Nat
      OBVIOUS
    <2> QED
      BY <2>1, <2>2, <2>3
  <1>6. e.pair \in TileType /\ e.pair_wins \in BOOLEAN
    BY <1>1, <1>2, <1>3, TurnFacts
  <1>7. ASSUME NEW i \in 1 .. 4
        PROVE  /\ e.groups[i] \in Groups
               /\ (IF i <= Len(v.melds) THEN e.groups[i] = MeldGroup(v.melds[i])
                                       ELSE e.groups[i].kind # "QUAD" /\ ~ e.groups[i].open)
    <2>1. e.groups[i] \in Groups
      BY <1>4 DEF IsSound
    <2>2. CASE i <= Len(v.melds)
      <3>1. i \in 1 .. Len(w.melds)
        BY <1>1, <2>2
      <3>2. d.groups[i] = MeldGroup(w.melds[i])
        BY <1>2, <3>1 DEF IsReading
      <3> QED
        BY <1>4, <2>1, <2>2, <3>1, <3>2, TwinMeld
    <2>3. CASE ~ (i <= Len(v.melds))
      <3>1. d.groups[i].kind # "QUAD" /\ ~ d.groups[i].open
        BY <1>1, <1>2, <2>3 DEF IsReading
      <3>2. e.groups[i].kind = d.groups[i].kind /\ e.groups[i].open = d.groups[i].open
        BY <1>4 DEF TurnGroup
      <3> QED
        BY <2>1, <2>3, <3>1, <3>2
    <2> QED
      BY <2>2, <2>3
  <1>8. IsReading(e, v)
    BY <1>5, <1>6, <1>7 DEF IsReading
  <1> QED
    BY <1>1, <1>3, <1>4, <1>8 DEF AreTurned, SoundReading

\* A division of a hand is one of its twin, turned.
LEMMA TurnedDivision ==
  ASSUME NEW s, NEW w, NEW v, AreTwins(s, w, v), NEW d, IsDivision(d, w),
         NEW e, e = TurnReading(s, d)
  PROVE  IsDivision(e, v) /\ AreTurned(s, w, v, d, e)
  <1>0. AreTurned(s, w, v, d, e)
    BY TurnedIsReading
  <1>1. /\ s \in {1, 2} /\ Due(v) = Due(w) /\ Due(w) \in SUBSET (1 .. 4)
        /\ IsReading(e, v) /\ \A i \in 1 .. 4 : IsSound(d.groups[i]) /\ IsSound(e.groups[i])
        /\ d.pair \in TileType
        /\ \A i \in 1 .. 4 : e.groups[i] = TurnGroup(s, d.groups[i])
        /\ e.pair = Turn(s, d.pair) /\ e.pair_wins = d.pair_wins
    BY <1>0, TwinShape DEF AreTurned, SoundReading, AreTwins, IsReading
  <1>2. \A i \in Due(v) : IsSequence(e.groups[i]) => StartsSequence(e.groups[i].base)
    BY <1>1 DEF IsSound
  <1>3. ASSUME NEW u \in TileType
        PROVE  HeldOf(v, u) = CountIn(e, Due(v), u) + 2 * One(u = e.pair)
    <2> DEFINE t == Turn(Back(s), u)
    <2>1. t \in TileType /\ u = Turn(s, t)
      BY <1>1, BackAgain, TurnFacts
    <2> HIDE DEF t
    <2>2. HeldOf(w, t) = CountIn(d, Due(w), t) + 2 * One(t = d.pair)
      BY <2>1 DEF IsDivision
    <2>3. HeldOf(v, u) = HeldOf(w, t)
      BY <2>1, TwinHeld
    <2>4. u = e.pair <=> t = d.pair
      BY <1>1, <2>1, TurnSame
    <2>5. CountIn(e, Due(v), u) = CountIn(d, Due(w), t)
      <3>1. \A i \in 1 .. 4 : GroupCount(e.groups[i], u) = GroupCount(d.groups[i], t)
        BY <1>1, <2>1, TurnedGroup
      <3>2. [i \in 1 .. 4 |-> IF i \in Due(v) THEN GroupCount(e.groups[i], u) ELSE 0]
              = [i \in 1 .. 4 |-> IF i \in Due(w) THEN GroupCount(d.groups[i], t) ELSE 0]
        BY <1>1, <3>1
      <3> QED
        BY <3>2 DEF CountIn
    <2>6. One(u = e.pair) = One(t = d.pair)
      BY <2>4 DEF One
    <2> QED
      BY <2>2, <2>3, <2>5, <2>6
  <1>4. \A i \in 1 .. 4 : /\ e.groups[i].wins = d.groups[i].wins
                          /\ v.type \in GroupTypes(e.groups[i]) <=> w.type \in GroupTypes(d.groups[i])
    <2>1. w.type \in TileType /\ v.type = Turn(s, w.type)
      BY WinTypes DEF AreTwins, IsTwin
    <2>2. \A i \in 1 .. 4 : e.groups[i].wins = d.groups[i].wins
      BY <1>1 DEF TurnGroup
    <2>3. \A i \in 1 .. 4 : /\ GroupTypes(e.groups[i]) = {Turn(s, t) : t \in GroupTypes(d.groups[i])}
                            /\ GroupTypes(d.groups[i]) \subseteq TileType
      BY <1>1, TurnedGroup
    <2>4. \A i \in 1 .. 4 : v.type \in GroupTypes(e.groups[i]) <=> w.type \in GroupTypes(d.groups[i])
      BY <1>1, <2>1, <2>3, TurnSame
    <2> QED
      BY <2>2, <2>4
  <1>5. IF e.pair_wins
          THEN v.type = e.pair /\ \A i \in Due(v) : ~ e.groups[i].wins
          ELSE \E i \in Due(v) : /\ v.type \in GroupTypes(e.groups[i])
                                /\ \A j \in Due(v) : e.groups[j].wins <=> j = i
    <2>1. IF d.pair_wins
            THEN w.type = d.pair /\ \A i \in Due(w) : ~ d.groups[i].wins
            ELSE \E i \in Due(w) : /\ w.type \in GroupTypes(d.groups[i])
                                  /\ \A j \in Due(w) : d.groups[j].wins <=> j = i
      BY DEF IsDivision
    <2>2. v.type = Turn(s, w.type)
      BY DEF AreTwins, IsTwin
    <2> QED
      BY <1>1, <1>4, <2>1, <2>2
  <1>6. IsDivision(e, v)
    BY <1>1, <1>2, <1>3, <1>5 DEF IsDivision
  <1> QED
    BY <1>0, <1>6

-----------------------------------------------------------------------------
(* The sequences and triplets of a division, turned                         *)

\* The lowest types of sequences, in another suit.
TurnBases(s, bases) == {Turn(s, b + 2) : b \in bases}

\* Types, and so triplets, in another suit.
TurnTypes(s, types) == {Turn(s, t) : t \in types}

LEMMA TurnThreeSuits ==
  ASSUME NEW s \in {1, 2}, NEW D \in SUBSET TileType, \A b \in D : StartsSequence(b),
         NEW E, E = TurnBases(s, D), ThreeSuits(D)
  PROVE  ThreeSuits(E)
  <1>1. PICK b \in D : b \in D /\ b + 9 \in D /\ b + 18 \in D
    BY DEF ThreeSuits
  <1>2. b \in TileType /\ b + 18 \in TileType /\ StartsSequence(b) /\ StartsSequence(b + 18)
    BY <1>1
  <1>3. b \in 0 .. 6
    <2>1. b + 18 + 2 \in TileType /\ Suit(b + 18) # HONOR /\ Suit(b + 18 + 2) = Suit(b + 18)
      <3> DEFINE x == b + 18
      <3>1. x \in TileType /\ StartsSequence(x)
        BY <1>2
      <3> HIDE DEF x
      <3>2. x + 2 \in TileType /\ Suit(x) # HONOR /\ Suit(x + 2) = Suit(x)
        BY <3>1, TurnSequence
      <3> QED
        BY <3>2 DEF x
    <2>2. b + 18 + 2 \in 18 .. 26
      BY <1>2, <2>1, TurnIs DEF TileType, HONOR
    <2> QED
      BY <1>2, <2>2 DEF TileType
  <1> HIDE <1>2
  <1>4. /\ b + 2 \in 0 .. 8 /\ b + 9 + 2 \in 9 .. 17 /\ b + 18 + 2 \in 18 .. 26
        /\ b + 2 \in TileType /\ b + 9 + 2 \in TileType /\ b + 18 + 2 \in TileType
    BY <1>3 DEF TileType
  <1>5. /\ Turn(s, b + 2) = IF s = 1 THEN 15 - b ELSE 24 - b
        /\ Turn(s, b + 9 + 2) = IF s = 1 THEN 24 - b ELSE 6 - b
        /\ Turn(s, b + 18 + 2) = IF s = 1 THEN 6 - b ELSE 15 - b
    <2>1. /\ Turn(s, b + 2) = IF s = 1 THEN 17 - (b + 2) ELSE 26 - (b + 2)
          /\ Turn(s, b + 9 + 2) = IF s = 1 THEN 35 - (b + 9 + 2) ELSE 17 - (b + 9 + 2)
          /\ Turn(s, b + 18 + 2) = IF s = 1 THEN 26 - (b + 18 + 2) ELSE 35 - (b + 18 + 2)
      BY <1>4, TurnIs
    <2> QED
      BY <1>3, <2>1
  <1>6. Turn(s, b + 2) \in E /\ Turn(s, b + 9 + 2) \in E /\ Turn(s, b + 18 + 2) \in E
    BY <1>1 DEF TurnBases
  <1>7. 6 - b \in E /\ 15 - b \in E /\ 24 - b \in E
    BY <1>5, <1>6
  <1>8. 6 - b + 9 = 15 - b /\ 6 - b + 18 = 24 - b
    BY <1>3
  <1> QED
    BY <1>7, <1>8 DEF ThreeSuits

LEMMA TurnStraight ==
  ASSUME NEW s \in {1, 2}, NEW D \in SUBSET TileType, \A b \in D : StartsSequence(b),
         NEW E, E = TurnBases(s, D), Straight(D)
  PROVE  Straight(E)
  <1>1. PICK b \in D : Number(b) = 1 /\ b \in D /\ b + 3 \in D /\ b + 6 \in D
    BY DEF Straight
  <1>2. b \in TileType /\ StartsSequence(b)
    BY <1>1
  <1>3. b \in {0, 9, 18}
    <2>1. Suit(b) # HONOR
      BY <1>2, TurnSequence
    <2> QED
      BY <1>1, <1>2, <2>1, TurnIs DEF TileType
  <1> HIDE <1>2
  <1>4. /\ b + 2 \in TileType /\ b + 3 + 2 \in TileType /\ b + 6 + 2 \in TileType
        /\ b = 0  => b + 2 \in 0 .. 8 /\ b + 3 + 2 \in 0 .. 8 /\ b + 6 + 2 \in 0 .. 8
        /\ b = 9  => b + 2 \in 9 .. 17 /\ b + 3 + 2 \in 9 .. 17 /\ b + 6 + 2 \in 9 .. 17
        /\ b = 18 => b + 2 \in 18 .. 26 /\ b + 3 + 2 \in 18 .. 26 /\ b + 6 + 2 \in 18 .. 26
    BY <1>3 DEF TileType
  <1> DEFINE x == Turn(s, b + 6 + 2)
  <1>5. Turn(s, b + 3 + 2) = x + 3 /\ Turn(s, b + 2) = x + 6
        /\ x \in (IF s = 1 THEN {9, 18, 0} ELSE {18, 0, 9})
    <2>1. CASE b = 0
      <3>1. /\ Turn(s, b + 2) = IF s = 1 THEN 17 - (b + 2) ELSE 26 - (b + 2)
            /\ Turn(s, b + 3 + 2) = IF s = 1 THEN 17 - (b + 3 + 2) ELSE 26 - (b + 3 + 2)
            /\ Turn(s, b + 6 + 2) = IF s = 1 THEN 17 - (b + 6 + 2) ELSE 26 - (b + 6 + 2)
        BY <1>4, <2>1, TurnIs
      <3> QED
        BY <2>1, <3>1
    <2>2. CASE b = 9
      <3>1. /\ Turn(s, b + 2) = IF s = 1 THEN 35 - (b + 2) ELSE 17 - (b + 2)
            /\ Turn(s, b + 3 + 2) = IF s = 1 THEN 35 - (b + 3 + 2) ELSE 17 - (b + 3 + 2)
            /\ Turn(s, b + 6 + 2) = IF s = 1 THEN 35 - (b + 6 + 2) ELSE 17 - (b + 6 + 2)
        BY <1>4, <2>2, TurnIs
      <3> QED
        BY <2>2, <3>1
    <2>3. CASE b = 18
      <3>1. /\ Turn(s, b + 2) = IF s = 1 THEN 26 - (b + 2) ELSE 35 - (b + 2)
            /\ Turn(s, b + 3 + 2) = IF s = 1 THEN 26 - (b + 3 + 2) ELSE 35 - (b + 3 + 2)
            /\ Turn(s, b + 6 + 2) = IF s = 1 THEN 26 - (b + 6 + 2) ELSE 35 - (b + 6 + 2)
        BY <1>4, <2>3, TurnIs
      <3> QED
        BY <2>3, <3>1
    <2> QED
      BY <1>3, <2>1, <2>2, <2>3
  <1>6. Turn(s, b + 2) \in E /\ Turn(s, b + 3 + 2) \in E /\ Turn(s, b + 6 + 2) \in E
    BY <1>1 DEF TurnBases
  <1> HIDE DEF x
  <1>7. x \in E /\ x + 3 \in E /\ x + 6 \in E
    BY <1>5, <1>6 DEF x
  <1>8. Number(x) = 1
    <2>1. x \in TileType /\ x \in {0, 9, 18}
      BY <1>5 DEF TileType
    <2> QED
      BY <2>1, TurnIs
  <1> QED
    BY <1>7, <1>8 DEF Straight

LEMMA TurnThreeTriplets ==
  ASSUME NEW s \in {1, 2}, NEW D \in SUBSET TileType,
         NEW E, E = TurnTypes(s, D), ThreeTriplets(D)
  PROVE  ThreeTriplets(E)
  <1>1. PICK t \in D : Suit(t) = MANZU /\ t \in D /\ t + 9 \in D /\ t + 18 \in D
    BY DEF ThreeTriplets
  <1>2. t \in 0 .. 8
    BY <1>1, TurnIs DEF MANZU
  <1>3. t + 9 \in 9 .. 17 /\ t + 18 \in 18 .. 26
        /\ t \in TileType /\ t + 9 \in TileType /\ t + 18 \in TileType
    BY <1>2 DEF TileType
  <1>4. /\ Turn(s, t) = IF s = 1 THEN 17 - t ELSE 26 - t
        /\ Turn(s, t + 9) = IF s = 1 THEN 35 - (t + 9) ELSE 17 - (t + 9)
        /\ Turn(s, t + 18) = IF s = 1 THEN 26 - (t + 18) ELSE 35 - (t + 18)
    BY <1>2, <1>3, TurnIs
  <1>5. Turn(s, t) \in E /\ Turn(s, t + 9) \in E /\ Turn(s, t + 18) \in E
    BY <1>1 DEF TurnTypes
  <1>6. 8 - t \in E /\ 17 - t \in E /\ 26 - t \in E
    <2>1. 35 - (t + 9) = 26 - t /\ 17 - (t + 9) = 8 - t /\ 26 - (t + 18) = 8 - t /\ 35 - (t + 18) = 17 - t
      BY <1>2
    <2> QED
      BY <1>4, <1>5, <2>1
  <1>7. 8 - t + 9 = 17 - t /\ 8 - t + 18 = 26 - t /\ 8 - t \in TileType /\ 8 - t \in 0 .. 8
    BY <1>2 DEF TileType
  <1>8. Suit(8 - t) = MANZU
    BY <1>7, TurnIs DEF MANZU
  <1> QED
    BY <1>6, <1>7, <1>8 DEF ThreeTriplets

-----------------------------------------------------------------------------
(* Equal sequences, counted at the sequences that there are                 *)

Pairs(gs) == [b \in Bases(gs) |-> Times(gs, b) \div 2]

LEMMA TimesType ==
  ASSUME NEW gs, DOMAIN gs = 1 .. 4, NEW b
  PROVE  /\ Times(gs, b) \in Nat /\ Times(gs, b) \div 2 \in Int
         /\ b \notin Bases(gs) => Times(gs, b) \div 2 = 0
  <1> DEFINE s == {i \in DOMAIN gs : IsSequence(gs[i]) /\ gs[i].base = b}
  <1>1. IsFiniteSet(1 .. 4)
    <2>1. 1 \in Int /\ 4 \in Int
      OBVIOUS
    <2> QED
      BY <2>1, FS_Interval
  <1>2. s \subseteq 1 .. 4 /\ IsFiniteSet(s)
    BY <1>1, FS_Subset
  <1>3. Cardinality(s) \in Nat
    BY <1>2, FS_CardinalityType
  <1>4. Times(gs, b) \in Nat
    BY <1>3 DEF Times
  <1>5. ASSUME b \notin Bases(gs)
        PROVE  Times(gs, b) = 0
    <2>1. s = {}
      BY <1>5 DEF Bases
    <2> QED
      BY <2>1, FS_EmptySet DEF Times
  <1> QED
    BY <1>4, <1>5

LEMMA BasesFinite ==
  ASSUME NEW gs, DOMAIN gs = 1 .. 4
  PROVE  /\ IsFiniteSet(EveryBase(gs)) /\ Bases(gs) \subseteq EveryBase(gs)
         /\ IsFiniteSet(Bases(gs))
  <1>1. IsFiniteSet(1 .. 4)
    <2>1. 1 \in Int /\ 4 \in Int
      OBVIOUS
    <2> QED
      BY <2>1, FS_Interval
  <1>2. EveryBase(gs) = {gs[1].base, gs[2].base, gs[3].base, gs[4].base}
    BY DEF EveryBase
  <1>3. IsFiniteSet({gs[1].base, gs[2].base, gs[3].base, gs[4].base})
    <2> DEFINE a == gs[1].base
               b == gs[2].base
               c == gs[3].base
               d == gs[4].base
    <2> HIDE DEF a, b, c, d
    <2>1. IsFiniteSet({a, b, c, d, d})
      BY FiveFinite
    <2>2. {a, b, c, d, d} = {a, b, c, d}
      OBVIOUS
    <2> QED
      BY <2>1, <2>2 DEF a, b, c, d
  <1>4. Bases(gs) \subseteq EveryBase(gs)
    BY DEF Bases, EveryBase
  <1> QED
    BY <1>2, <1>3, <1>4, FS_Subset

LEMMA EqualAtBases ==
  ASSUME NEW gs, DOMAIN gs = 1 .. 4
  PROVE  EqualSequences(gs) = Sums(Pairs(gs))[Bases(gs)]
  <1> DEFINE every == [b \in EveryBase(gs) |-> Times(gs, b) \div 2]
             pairs == Pairs(gs)
  <1>1. /\ IsFiniteSet(EveryBase(gs)) /\ Bases(gs) \subseteq EveryBase(gs)
        /\ IsFiniteSet(Bases(gs))
    BY BasesFinite
  <1>2. /\ every \in [EveryBase(gs) -> Int] /\ pairs \in [Bases(gs) -> Int]
        /\ DOMAIN every = EveryBase(gs)
        /\ \A b \in EveryBase(gs) \ Bases(gs) : every[b] = 0
        /\ \A b \in Bases(gs) : every[b] = pairs[b]
    BY <1>1, TimesType DEF Pairs
  <1>3. EqualSequences(gs) = Sums(every)[EveryBase(gs)]
    BY <1>2, EqualIs, SumIsLastSum
  <1> HIDE DEF every, pairs
  <1>4. Sums(every)[EveryBase(gs)] = Sums(every)[Bases(gs)]
    <2>1. EveryBase(gs) \in SUBSET EveryBase(gs) /\ Bases(gs) \in SUBSET EveryBase(gs)
      BY <1>1
    <2> QED
      BY <1>1, <1>2, <2>1, SumsSupport
  <1>5. Sums(every)[Bases(gs)] = Sums(pairs)[Bases(gs)]
    <2>1. Bases(gs) \in SUBSET EveryBase(gs) /\ Bases(gs) \in SUBSET Bases(gs)
      BY <1>1
    <2> QED
      BY <1>1, <1>2, <2>1, SumsAgree
  <1> QED
    BY <1>3, <1>4, <1>5 DEF pairs

-----------------------------------------------------------------------------
(* Turned readings have the same yaku                                       *)

LEMMA TurnedGroups ==
  ASSUME NEW s, NEW w, NEW v, NEW d, NEW e, AreTurned(s, w, v, d, e)
  PROVE  /\ s \in {1, 2} /\ DOMAIN d.groups = 1 .. 4 /\ DOMAIN e.groups = 1 .. 4
         /\ \A i \in 1 .. 4 :
              /\ IsSound(d.groups[i]) /\ d.groups[i].base \in TileType
              /\ e.groups[i] = TurnGroup(s, d.groups[i])
              /\ IsSequence(e.groups[i]) <=> IsSequence(d.groups[i])
              /\ IsSequence(d.groups[i]) => StartsSequence(d.groups[i].base)
              /\ e.groups[i].base = TurnBase(s, IsSequence(d.groups[i]), d.groups[i].base)
              /\ e.groups[i].open = d.groups[i].open /\ e.groups[i].wins = d.groups[i].wins
  <1>1. /\ s \in {1, 2} /\ IsReading(d, w) /\ IsReading(e, v)
        /\ \A i \in 1 .. 4 : IsSound(d.groups[i]) /\ e.groups[i] = TurnGroup(s, d.groups[i])
    BY DEF AreTurned, AreTwins, SoundReading
  <1>2. DOMAIN d.groups = 1 .. 4 /\ DOMAIN e.groups = 1 .. 4
    BY <1>1, ReadingHasGroups
  <1>3. ASSUME NEW i \in 1 .. 4
        PROVE  /\ d.groups[i].base \in TileType
               /\ IsSequence(d.groups[i]) => StartsSequence(d.groups[i].base)
    BY <1>1 DEF IsSound, Groups
  <1>4. ASSUME NEW i \in 1 .. 4
        PROVE  /\ IsSequence(e.groups[i]) <=> IsSequence(d.groups[i])
               /\ e.groups[i].base = TurnBase(s, IsSequence(d.groups[i]), d.groups[i].base)
               /\ e.groups[i].open = d.groups[i].open /\ e.groups[i].wins = d.groups[i].wins
    BY <1>1 DEF TurnGroup, IsSequence
  <1> QED
    BY <1>1, <1>2, <1>3, <1>4

LEMMA TurnedSets ==
  ASSUME NEW s, NEW w, NEW v, NEW d, NEW e, AreTurned(s, w, v, d, e)
  PROVE  /\ Triplets(e.groups) = Triplets(d.groups)
         /\ Bases(d.groups) \subseteq TileType /\ \A b \in Bases(d.groups) : StartsSequence(b)
         /\ Bases(e.groups) = TurnBases(s, Bases(d.groups))
         /\ Types(d.groups) \subseteq TileType
         /\ Types(e.groups) = TurnTypes(s, Types(d.groups))
  <1> DEFINE ds == d.groups
             es == e.groups
  <1>1. /\ s \in {1, 2} /\ DOMAIN ds = 1 .. 4 /\ DOMAIN es = 1 .. 4
        /\ \A i \in 1 .. 4 :
              /\ ds[i].base \in TileType
              /\ IsSequence(es[i]) <=> IsSequence(ds[i])
              /\ IsSequence(ds[i]) => StartsSequence(ds[i].base)
              /\ IsSequence(ds[i]) => es[i].base = Turn(s, ds[i].base + 2)
              /\ ~ IsSequence(ds[i]) => es[i].base = Turn(s, ds[i].base)
    BY TurnedGroups DEF TurnBase
  <1> HIDE DEF ds, es
  <1>2. Triplets(es) = Triplets(ds)
    BY <1>1 DEF Triplets
  <1>3. Bases(ds) \subseteq TileType /\ \A b \in Bases(ds) : StartsSequence(b)
    BY <1>1 DEF Bases
  <1>4. Bases(es) = TurnBases(s, Bases(ds))
    BY <1>1 DEF Bases, TurnBases
  <1>5. Types(ds) \subseteq TileType
    BY <1>1 DEF Types, Triplets
  <1>6. Types(es) = TurnTypes(s, Types(ds))
    BY <1>1 DEF Types, Triplets, TurnTypes
  <1> QED
    BY <1>2, <1>3, <1>4, <1>5, <1>6 DEF ds, es

LEMMA TurnedEqual ==
  ASSUME NEW s, NEW w, NEW v, NEW d, NEW e, AreTurned(s, w, v, d, e)
  PROVE  EqualSequences(e.groups) = EqualSequences(d.groups)
  <1> DEFINE ds == d.groups
             es == e.groups
             D == Bases(ds)
             E == Bases(es)
             f == Pairs(ds)
             g == Pairs(es)
             h == [b \in D |-> Turn(s, b + 2)]
  <1>1. /\ s \in {1, 2} /\ DOMAIN ds = 1 .. 4 /\ DOMAIN es = 1 .. 4
        /\ \A i \in 1 .. 4 :
              /\ ds[i].base \in TileType
              /\ IsSequence(es[i]) <=> IsSequence(ds[i])
              /\ IsSequence(ds[i]) => StartsSequence(ds[i].base)
              /\ IsSequence(ds[i]) => es[i].base = Turn(s, ds[i].base + 2)
    BY TurnedGroups DEF TurnBase
  <1>2. D \subseteq TileType /\ (\A b \in D : StartsSequence(b)) /\ E = TurnBases(s, D)
    BY TurnedSets
  <1>3. IsFiniteSet(D) /\ IsFiniteSet(E)
    BY <1>1, BasesFinite
  <1>4. f \in [D -> Int] /\ g \in [E -> Int] /\ DOMAIN f = D /\ DOMAIN g = E
    BY <1>1, TimesType DEF Pairs
  <1>5. EqualSequences(ds) = Sums(f)[D] /\ EqualSequences(es) = Sums(g)[E]
    BY <1>1, EqualAtBases
  <1> HIDE DEF ds, es
  <1>6. \A b \in D : \A c \in D : Turn(s, b + 2) = Turn(s, c + 2) => b = c
    <2> TAKE b \in D
    <2> TAKE c \in D
    <2>1. b \in TileType /\ c \in TileType /\ b + 2 \in TileType /\ c + 2 \in TileType
      BY <1>1, <1>2, TurnSequence
    <2>2. Turn(s, b + 2) = Turn(s, c + 2) => b + 2 = c + 2
      BY <1>1, <2>1, TurnSame
    <2> QED
      BY <2>1, <2>2 DEF TileType
  <1>7. ASSUME NEW b \in D
        PROVE  Times(es, Turn(s, b + 2)) = Times(ds, b)
    <2>1. \A i \in 1 .. 4 : IsSequence(ds[i]) => ds[i].base \in D
      BY <1>1 DEF Bases
    <2>2. ASSUME NEW i \in 1 .. 4, IsSequence(ds[i])
          PROVE  es[i].base = Turn(s, b + 2) <=> ds[i].base = b
      BY <1>1, <1>6, <2>1, <2>2
    <2> QED
      BY <1>1, <2>2 DEF Times
  <1>8. \A b \in D : Turn(s, b + 2) \in E
    BY <1>2 DEF TurnBases
  <1>9. Renames(h, f, g)
    <2>1. h \in [D -> E] /\ \A x \in D : h[x] = Turn(s, x + 2)
      BY <1>8
    <2>2. \A x \in D : f[x] = Times(ds, x) \div 2
      BY DEF Pairs
    <2>3. \A x \in E : g[x] = Times(es, x) \div 2
      BY DEF Pairs
    <2>4. \A x \in D : g[h[x]] = f[x]
      BY <1>7, <1>8, <2>1, <2>2, <2>3
    <2> HIDE DEF h, f, g, D, E
    <2> QED
      BY <1>4, <1>6, <2>1, <2>4 DEF Renames
  <1>10. {h[x] : x \in D} = E
    BY <1>2 DEF TurnBases
  <1> HIDE DEF h, f, g, D, E
  <1>11. Sums(f)[D] = Sums(g)[{h[x] : x \in D}]
    <2>1. D \in SUBSET D
      OBVIOUS
    <2> QED
      BY <1>3, <1>4, <1>9, <2>1, SumsRename
  <1> QED
    BY <1>5, <1>10, <1>11 DEF ds, es

LEMMA HonorsStay ==
  ASSUME NEW s \in {1, 2}, NEW X \in SUBSET TileType, NEW Y, Y = TurnTypes(s, X),
         NEW types \in SUBSET (27 .. 33)
  PROVE  Y \cap types = X \cap types
  <1>1. \A t \in X : Turn(s, t) \in types => t \in types
    BY TurnHonor
  <1>2. \A t \in X : t \in types => Turn(s, t) = t
    BY TurnIs
  <1> QED
    BY <1>1, <1>2 DEF TurnTypes

\* The winds of the table and of the seats are not turned.
LEMMA TwinWinds ==
  ASSUME NEW s, NEW w, NEW v, AreTwins(s, w, v)
  PROVE  /\ v.seat_wind = w.seat_wind /\ v.round_wind = w.round_wind
         /\ ValueWinds(v) = ValueWinds(w)
         /\ Dragons \subseteq 27 .. 33 /\ Winds \subseteq 27 .. 33
         /\ {w.seat_wind} \subseteq 27 .. 33 /\ {w.round_wind} \subseteq 27 .. 33
         /\ Dragons \cup ValueWinds(w) \subseteq 27 .. 33
  <1>1. SameCircumstances(w, v) /\ IsWin(w)
    BY DEF AreTwins, IsTwin
  <1>2. Dragons \subseteq 27 .. 33 /\ Winds \subseteq 27 .. 33
    BY DEF Dragons, HAKU, CHUN, Winds, EAST, NORTH
  <1>3. v.seat_wind = w.seat_wind /\ v.round_wind = w.round_wind
    BY <1>1 DEF SameCircumstances
  <1>4. w.seat_wind \in Winds /\ w.round_wind \in Winds
    BY <1>1 DEF IsWin
  <1> QED
    BY <1>2, <1>3, <1>4 DEF ValueWinds

LEMMA TurnedShape ==
  ASSUME NEW s, NEW w, NEW v, NEW d, NEW e, AreTurned(s, w, v, d, e),
         NEW c, NEW b, SameContext(s, c, b)
  PROVE  SameShape(w, c, d, v, b, e)
  <1> DEFINE ds == d.groups
             es == e.groups
  <1>0. AreTurned(Back(s), v, w, e, d)
    BY TurnedBack
  <1>1. /\ AreTwins(s, w, v) /\ s \in {1, 2} /\ AreTurned(Back(s), v, w, e, d)
        /\ Back(s) \in {1, 2}
        /\ d.pair \in TileType /\ e.pair = Turn(s, d.pair) /\ e.pair_wins = d.pair_wins
    BY <1>0, BackAgain DEF AreTurned, AreTwins, SoundReading, IsReading
  <1>2. /\ b.win = c.win
        /\ b.honor <=> c.honor
    BY DEF SameContext
  <1>3. IsClosed(w) <=> IsClosed(v)
    BY <1>1, TwinShape
  <1>4. /\ DOMAIN ds = 1 .. 4 /\ DOMAIN es = 1 .. 4
        /\ \A i \in 1 .. 4 : IsSound(ds[i]) /\ es[i] = TurnGroup(s, ds[i])
    BY TurnedGroups
  <1>5. /\ Triplets(es) = Triplets(ds)
        /\ Bases(ds) \subseteq TileType /\ \A x \in Bases(ds) : StartsSequence(x)
        /\ Bases(es) = TurnBases(s, Bases(ds))
        /\ Types(ds) \subseteq TileType
        /\ Types(es) = TurnTypes(s, Types(ds))
    BY TurnedSets
  <1>6. /\ Bases(es) \subseteq TileType /\ \A x \in Bases(es) : StartsSequence(x)
        /\ Bases(ds) = TurnBases(Back(s), Bases(es))
        /\ Types(es) \subseteq TileType
        /\ Types(ds) = TurnTypes(Back(s), Types(es))
    BY <1>1, TurnedSets
  <1>7. EqualSequences(ds) = EqualSequences(es)
    BY TurnedEqual
  <1>8. /\ w.type \in TileType /\ v.type = Turn(s, w.type)
    BY <1>1, WinTypes DEF AreTwins, IsTwin
  <1>9. OpenWait(w, d) <=> OpenWait(v, e)
    <2>1. \A i \in 1 .. 4 : IsRyanmenWait(es[i], v.type) <=> IsRyanmenWait(ds[i], w.type)
      BY <1>1, <1>4, <1>8, TurnedWait
    <2> QED
      BY <1>4, <2>1 DEF OpenWait
  <1>10. /\ IsValuePair(w, d.pair) <=> IsValuePair(v, e.pair)
         /\ d.pair \in Dragons <=> e.pair \in Dragons
         /\ d.pair \in Winds <=> e.pair \in Winds
    BY <1>1, TwinWinds, TurnHonor DEF IsValuePair
  <1>11. AllYaochu(d) <=> AllYaochu(e)
    <2>1. IsYaochu(e.pair) <=> IsYaochu(d.pair)
      BY <1>1, TurnFacts
    <2>2. \A i \in 1 .. 4 : HasYaochu(es[i]) <=> HasYaochu(ds[i])
      BY <1>1, <1>4, TurnedYaochu
    <2>3. Bases(es) = {} <=> Bases(ds) = {}
      BY <1>5 DEF TurnBases
    <2> QED
      BY <1>4, <2>1, <2>2, <2>3 DEF AllYaochu
  <1>12. Concealed(c, ds) = Concealed(b, es)
    <2>1. \A i \in 1 .. 4 : IsConcealedTriplet(es[i], b) <=> IsConcealedTriplet(ds[i], c)
      BY <1>1, <1>2, <1>4, TurnedFu
    <2>2. {i \in Triplets(es) : IsConcealedTriplet(es[i], b)}
            = {i \in Triplets(ds) : IsConcealedTriplet(ds[i], c)}
      BY <1>4, <1>5, <2>1 DEF Triplets
    <2> QED
      BY <2>2 DEF Concealed
  <1>13. Types(es) \cap Dragons = Types(ds) \cap Dragons /\ Types(es) \cap Winds = Types(ds) \cap Winds
    <2> DEFINE X == Types(ds)
               Y == Types(es)
    <2>1. X \in SUBSET TileType /\ Y = TurnTypes(s, X)
      BY <1>5
    <2>2. Dragons \in SUBSET (27 .. 33) /\ Winds \in SUBSET (27 .. 33)
      BY <1>1, TwinWinds
    <2> HIDE DEF X, Y
    <2>3. ASSUME NEW types \in SUBSET (27 .. 33)
          PROVE  Y \cap types = X \cap types
      <3>1. s \in {1, 2}
        BY <1>1
      <3> QED
        BY <2>1, <3>1, HonorsStay
    <2>4. Y \cap Dragons = X \cap Dragons /\ Y \cap Winds = X \cap Winds
      BY <2>2, <2>3
    <2> QED
      BY <2>4 DEF X, Y
  <1>14. ThreeSuits(Bases(ds)) <=> ThreeSuits(Bases(es))
    BY <1>1, <1>5, <1>6, TurnThreeSuits
  <1>15. Straight(Bases(ds)) <=> Straight(Bases(es))
    BY <1>1, <1>5, <1>6, TurnStraight
  <1>16. ThreeTriplets(Types(ds)) <=> ThreeTriplets(Types(es))
    BY <1>1, <1>5, <1>6, TurnThreeTriplets
  <1> QED
    BY <1>1, <1>2, <1>3, <1>5, <1>7, <1>9, <1>10, <1>11, <1>12, <1>13, <1>14, <1>15, <1>16
    DEF SameShape

-----------------------------------------------------------------------------
(* Twins have the same han and fu                                           *)

LEMMA TurnedFuSame ==
  ASSUME NEW s, NEW w, NEW v, NEW d, NEW e, AreTurned(s, w, v, d, e),
         NEW c, NEW b, b.win = c.win, NEW yaku
  PROVE  Fu(v, b, e, yaku) = Fu(w, c, d, yaku)
  <1> DEFINE ds == d.groups
             es == e.groups
  <1>1. /\ AreTwins(s, w, v) /\ s \in {1, 2} /\ IsReading(d, w) /\ IsReading(e, v)
        /\ d.pair \in TileType /\ e.pair = Turn(s, d.pair) /\ e.pair_wins = d.pair_wins
    BY DEF AreTurned, AreTwins, SoundReading, IsReading
  <1>2. /\ DOMAIN ds = 1 .. 4 /\ DOMAIN es = 1 .. 4
        /\ \A i \in 1 .. 4 : /\ IsSound(ds[i]) /\ es[i] = TurnGroup(s, ds[i])
                             /\ IsSequence(es[i]) <=> IsSequence(ds[i])
                             /\ es[i].wins = ds[i].wins
    BY TurnedGroups
  <1>3. w.type \in TileType /\ v.type = Turn(s, w.type)
    BY <1>1, WinTypes DEF AreTwins, IsTwin
  <1>4. IsClosed(w) <=> IsClosed(v)
    BY <1>1, TwinShape
  <1>5. PairFu(v, e.pair) = PairFu(w, d.pair)
    <2>1. /\ d.pair \in Dragons <=> e.pair \in Dragons
          /\ d.pair \in {w.seat_wind} <=> e.pair \in {w.seat_wind}
          /\ d.pair \in {w.round_wind} <=> e.pair \in {w.round_wind}
          /\ v.seat_wind = w.seat_wind /\ v.round_wind = w.round_wind
      <3>1. \A types \in SUBSET (27 .. 33) : d.pair \in types <=> e.pair \in types
        BY <1>1, TurnHonor
      <3>2. /\ Dragons \in SUBSET (27 .. 33) /\ {w.seat_wind} \in SUBSET (27 .. 33)
            /\ {w.round_wind} \in SUBSET (27 .. 33)
            /\ v.seat_wind = w.seat_wind /\ v.round_wind = w.round_wind
        BY <1>1, TwinWinds
      <3> QED
        BY <3>1, <3>2
    <2>2. /\ One(d.pair \in Dragons) = One(e.pair \in Dragons)
          /\ One(d.pair = w.seat_wind) = One(e.pair = v.seat_wind)
          /\ One(d.pair = w.round_wind) = One(e.pair = v.round_wind)
      BY <2>1 DEF One
    <2> QED
      BY <2>2 DEF PairFu
  <1>6. WaitFu(v, e) = WaitFu(w, d)
    <2>1. \A i \in 1 .. 4 : IsRyanmenWait(es[i], v.type) <=> IsRyanmenWait(ds[i], w.type)
      BY <1>1, <1>2, <1>3, TurnedWait
    <2> QED
      BY <1>1, <1>2, <2>1 DEF WaitFu
  <1>7. ShapeFu(b, e) = ShapeFu(c, d)
    <2>1. \A i \in 1 .. 4 : GroupFu(es[i], b) = GroupFu(ds[i], c)
      BY <1>1, <1>2, TurnedFu
    <2> HIDE DEF ds, es
    <2>2. /\ GroupFu(es[1], b) = GroupFu(ds[1], c) /\ GroupFu(es[2], b) = GroupFu(ds[2], c)
          /\ GroupFu(es[3], b) = GroupFu(ds[3], c) /\ GroupFu(es[4], b) = GroupFu(ds[4], c)
      BY <2>1
    <2>3. /\ ShapeFu(c, d) = GroupFu(ds[1], c) + GroupFu(ds[2], c) + GroupFu(ds[3], c) + GroupFu(ds[4], c)
          /\ ShapeFu(b, e) = GroupFu(es[1], b) + GroupFu(es[2], b) + GroupFu(es[3], b) + GroupFu(es[4], b)
      BY <1>1, ShapeFuIs DEF ds, es
    <2> QED
      BY <2>2, <2>3
  <1>8. d # NO_READING /\ e # NO_READING
    BY <1>1, ReadingHasGroups
  <1>9. /\ Fu(w, c, d, yaku) =
             FuFrom(c.win, IsClosed(w), PairFu(w, d.pair), WaitFu(w, d), ShapeFu(c, d), yaku)
        /\ Fu(v, b, e, yaku) =
             FuFrom(b.win, IsClosed(v), PairFu(v, e.pair), WaitFu(v, e), ShapeFu(b, e), yaku)
    BY <1>8, FuIs
  <1>10. IsClosed(v) = IsClosed(w)
    BY <1>4 DEF IsClosed
  <1> QED
    BY <1>5, <1>6, <1>7, <1>9, <1>10

LEMMA NoReadingFuSame ==
  ASSUME NEW s, NEW w, NEW v, AreTwins(s, w, v), NEW c, NEW b, b.win = c.win, NEW yaku
  PROVE  Fu(v, b, NO_READING, yaku) = Fu(w, c, NO_READING, yaku)
  <1>1. IsClosed(w) <=> IsClosed(v)
    BY TwinShape
  <1> QED
    BY <1>1 DEF Fu

LEMMA IndicatedSame ==
  ASSUME NEW s, NEW w, NEW v, AreTwins(s, w, v),
         NEW c, c.total = TotalCounts(w), NEW b, b.total = TotalCounts(v),
         NEW ts \in Seq(TileType), NEW us \in Seq(TileType), SameTypes(s, ts, us)
  PROVE  Indicated(b, us) = Indicated(c, ts)
  <1>1. /\ DOMAIN ts = 1 .. Len(ts) /\ DOMAIN us = 1 .. Len(us) /\ Len(us) = Len(ts)
        /\ \A i \in 1 .. Len(ts) : ts[i] \in TileType /\ us[i] = Turn(s, ts[i])
    BY SeqFacts DEF SameTypes
  <1>2. \A i \in 1 .. Len(ts) : TotalOf(b, us[i]) = TotalOf(c, ts[i])
    BY <1>1, TwinTotalOf
  <1>3. [i \in DOMAIN us |-> TotalOf(b, us[i])] = [i \in DOMAIN ts |-> TotalOf(c, ts[i])]
    BY <1>1, <1>2
  <1> QED
    BY <1>3 DEF Indicated

LEMMA TwinHan ==
  ASSUME NEW s, NEW w, NEW v, AreTwins(s, w, v),
         NEW c, c.total = TotalCounts(w), NEW b, b.total = TotalCounts(v), NEW yaku
  PROVE  Han(v, b, yaku) = Han(w, c, yaku)
  <1>1. /\ IsWin(w) /\ IsWin(v) /\ SameCircumstances(w, v)
        /\ SameTypes(s, w.dora, v.dora) /\ SameTypes(s, w.ura, v.ura)
    BY DEF AreTwins, IsTwin
  <1>2. /\ w.dora \in Seq(TileType) /\ w.ura \in Seq(TileType)
        /\ v.dora \in Seq(TileType) /\ v.ura \in Seq(TileType)
    BY <1>1 DEF IsWin
  <1>3. Indicated(b, v.dora) = Indicated(c, w.dora) /\ Indicated(b, v.ura) = Indicated(c, w.ura)
    BY <1>1, <1>2, IndicatedSame
  <1>4. v.aka = w.aka /\ v.riichi = w.riichi /\ v.seat_wind = w.seat_wind /\ v.round_wind = w.round_wind
    BY <1>1 DEF SameCircumstances
  <1>5. /\ TripletsIn(b, Dragons) = TripletsIn(c, Dragons)
        /\ TripletsIn(b, {w.seat_wind}) = TripletsIn(c, {w.seat_wind})
        /\ TripletsIn(b, {w.round_wind}) = TripletsIn(c, {w.round_wind})
    BY TwinWinds, TwinTriplets
  <1>6. YakuhaiHan(v, b) = YakuhaiHan(w, c)
    BY <1>4, <1>5 DEF YakuhaiHan
  <1>7. IsClosed(v) <=> IsClosed(w)
    BY TwinShape
  <1>8. HanWorth(v, b) = HanWorth(w, c)
    BY <1>6, <1>7 DEF HanWorth
  <1> QED
    BY <1>3, <1>4, <1>8 DEF Han

LEMMA TwinScored ==
  ASSUME NEW s, NEW w, NEW v, AreTwins(s, w, v),
         NEW c, c.total = TotalCounts(w), NEW b, b.total = TotalCounts(v), b.win = c.win,
         NEW d, NEW e, NEW yaku, Fu(v, b, e, yaku) = Fu(w, c, d, yaku), NEW r
  PROVE  Scored(v, r, b, e, yaku) = Scored(w, r, c, d, yaku)
  <1>1. Han(v, b, yaku) = Han(w, c, yaku)
    BY TwinHan
  <1>2. v.dealer = w.dealer
    BY DEF AreTwins, IsTwin, SameCircumstances
  <1> QED
    BY <1>1, <1>2 DEF Scored

-----------------------------------------------------------------------------
(* A hand that has a reading is complete                                    *)

LEMMA CutLeaves ==
  ASSUME NEW r, r.groups \in Seq(Groups), NEW i \in TileType, NEW type, NEW q, CutGroup(r, i, type, q)
  PROVE  /\ Melded(r.tiles, i, q.tiles) /\ q.pair = r.pair /\ q.pair_wins = r.pair_wins
         /\ Len(r.groups) < MAX_MELDS /\ Len(q.groups) = Len(r.groups) + 1
  <1>1. PICK wins \in BOOLEAN, kind \in {"TRIPLET", "SEQUENCE"} :
          /\ \/ kind = "TRIPLET" /\ r.tiles[i] >= 3 /\ q.tiles = Take(r.tiles, 3, {i})
             \/ /\ kind = "SEQUENCE" /\ HasSequence(r.tiles, i)
                /\ q.tiles = Take(r.tiles, 1, SequenceFrom(i))
          /\ q = [tiles |-> q.tiles, available |-> r.available /\ ~ wins,
                  groups |-> Append(r.groups, NewGroup(kind, i, wins)),
                  pair |-> r.pair, pair_wins |-> r.pair_wins]
    BY DEF CutGroup
  <1>2. Melded(r.tiles, i, q.tiles)
    BY <1>1 DEF Melded
  <1>3. Len(r.groups) < MAX_MELDS
    BY DEF CutGroup
  <1> DEFINE g == NewGroup(kind, i, wins)
  <1>4. g \in Groups
    BY DEF NewGroup, Groups
  <1>5. q.groups = Append(r.groups, g) /\ q.pair = r.pair /\ q.pair_wins = r.pair_wins
    BY <1>1
  <1> HIDE DEF g
  <1>6. Len(q.groups) = Len(r.groups) + 1
    BY <1>4, <1>5, AppendGroup
  <1> QED
    BY <1>2, <1>3, <1>5, <1>6

\* A partly divided hand that can be divided further could be before.
LEMMA CompletableBack ==
  ASSUME NEW w, IsWin(w), NEW k \in Nat, NEW r, IsPartial(r, w, k), NEW q,
         q \in Divided(r, w.type), Completable(q)
  PROVE  Completable(r)
  <1> DEFINE D == DOMAIN w.tiles
             i == Min(Held(r.tiles))
             n == Len(r.groups)
  <1>1. Held(r.tiles) # {}
    BY DEF Divided
  <1>2. CutPair(r, i, w.type, q) \/ CutGroup(r, i, w.type, q)
    BY <1>1, DividedMeans
  <1>3. IsTypes(D) /\ D \subseteq TileType
    BY WinTypes
  <1>4. r.tiles \in [D -> Nat] /\ r.groups \in Seq(Groups) /\ n \in Nat /\ n <= 4
    BY DEF IsPartial, MAX_MELDS
  <1>5. i \in D /\ IsFirst(i, r.tiles)
    BY <1>1, <1>3, <1>4, FirstTile
  <1> HIDE DEF D, i
  <1>6. i \in TileType /\ i # NO_PAIR
    BY <1>3, <1>5 DEF TileType, NO_PAIR
  <1>7. Total(r.tiles) \in Nat
    BY <1>3, <1>4, TotalType DEF IsTypes
  <1>8. CASE CutPair(r, i, w.type, q)
    <2>1. Paired(r.tiles, i, q.tiles) /\ r.pair = NO_PAIR
      BY <1>8 DEF CutPair
    <2>2. q.groups = r.groups /\ q.pair = i
      BY <1>8 DEF CutPair
    <2>3. Total(q.tiles) = 3 * (4 - n) /\ RemoveMelds(q.tiles, 4 - n)
      BY <1>6, <2>2 DEF Completable, MAX_MELDS
    <2>4. Total(q.tiles) = Total(r.tiles) - 2
      BY <1>3, <1>4, <1>5, <2>1, PairedType
    <2>5. CheckStandard(r.tiles, 4 - n)
      BY <1>4, <1>5, <2>1, <2>3, StandardIsPaired
    <2> HIDE DEF n
    <2>6. Total(r.tiles) = 3 * (4 - n) + 2
      BY <1>4, <1>7, <2>3, <2>4
    <2> QED
      BY <2>1, <2>5, <2>6 DEF Completable, MAX_MELDS, n
  <1>9. CASE CutGroup(r, i, w.type, q)
    <2>1. /\ Melded(r.tiles, i, q.tiles) /\ q.pair = r.pair
          /\ n < 4 /\ Len(q.groups) = n + 1
      BY <1>4, <1>6, <1>9, CutLeaves DEF MAX_MELDS
    <2> HIDE DEF n
    <2>2. 4 - n \in 1 .. MAX_MELDS /\ 4 - (n + 1) = (4 - n) - 1
      BY <1>4, <2>1 DEF MAX_MELDS
    <2>3. Total(q.tiles) = Total(r.tiles) - 3
      BY <1>3, <1>4, <1>5, <2>1, MeldedType
    <2>4. CASE r.pair = NO_PAIR
      <3>1. Total(q.tiles) = 3 * (4 - (n + 1)) + 2 /\ CheckStandard(q.tiles, (4 - n) - 1)
        BY <2>1, <2>2, <2>4 DEF Completable, MAX_MELDS
      <3>2. CheckStandard(r.tiles, 4 - n)
        BY <1>3, <1>4, <1>5, <2>1, <2>2, <3>1, StandardStepBack
      <3>3. Total(r.tiles) = 3 * (4 - n) + 2
        BY <1>4, <1>7, <2>3, <3>1
      <3> QED
        BY <2>4, <3>2, <3>3 DEF Completable, MAX_MELDS, n
    <2>5. CASE r.pair # NO_PAIR
      <3>1. Total(q.tiles) = 3 * (4 - (n + 1)) /\ RemoveMelds(q.tiles, (4 - n) - 1)
        BY <2>1, <2>2, <2>5 DEF Completable, MAX_MELDS
      <3>2. RemoveMelds(r.tiles, 4 - n)
        BY <1>3, <1>4, <1>5, <2>1, <2>2, <3>1, MeldsStep
      <3>3. Total(r.tiles) = 3 * (4 - n)
        BY <1>4, <1>7, <2>3, <3>1
      <3> QED
        BY <2>5, <3>2, <3>3 DEF Completable, MAX_MELDS, n
    <2> QED
      BY <2>4, <2>5
  <1> QED
    BY <1>2, <1>8, <1>9

LEMMA WholeIsCompletable ==
  ASSUME NEW w, IsWin(w), NEW k, NEW r, IsPartial(r, w, k), IsWhole(r)
  PROVE  Completable(r)
  <1>1. /\ Held(r.tiles) = {} /\ r.pair # NO_PAIR /\ Len(r.groups) = 4
        /\ r.tiles \in [DOMAIN w.tiles -> Nat]
    BY DEF IsWhole, IsPartial, MAX_MELDS
  <1>2. Total(r.tiles) = 0
    BY <1>1, WinTypes, TotalType DEF IsTypes
  <1>3. RemoveMelds(r.tiles, 0)
    BY RemoveMeldsRule
  <1>4. 4 - 4 = 0 /\ 3 * 0 = 0
    OBVIOUS
  <1> QED
    BY <1>1, <1>2, <1>3, <1>4 DEF Completable, MAX_MELDS

LEMMA ReadingShowsStandard ==
  ASSUME NEW w, IsWin(w), NEW c, ReadingsOf(w, c) # {}
  PROVE  CheckStandard(w.tiles, MAX_MELDS - Len(w.melds))
  <1> SUFFICES ASSUME ~ CheckStandard(w.tiles, MAX_MELDS - Len(w.melds))
               PROVE  FALSE
    OBVIOUS
  <1> DEFINE T == {k \in 0 .. 5 : \A r \in Partly(w, c)[k] : ~ Completable(r)}
             m == Len(w.melds)
  <1>1. m \in 0 .. 4 /\ DOMAIN w.melds = 1 .. m
    BY WinTypes
  <1>2. ~ Completable(Undivided(w, c))
    <2>1. /\ Undivided(w, c).tiles = w.tiles /\ Undivided(w, c).pair = NO_PAIR
          /\ Undivided(w, c).groups = Melds(w)
      BY DEF Undivided
    <2>2. Len(Melds(w)) = m
      BY <1>1 DEF Melds
    <2> QED
      BY <2>1, <2>2 DEF Completable
  <1>3. 0 \in T
    BY <1>2, PartlyRule
  <1>4. ASSUME NEW k \in 0 .. 4, k \in T
        PROVE  k + 1 \in T
    <2> SUFFICES ASSUME NEW q \in Partly(w, c)[k + 1], Completable(q)
                 PROVE  FALSE
      OBVIOUS
    <2>1. PICK r \in Partly(w, c)[k] : q \in Divided(r, w.type)
      BY FurtherPartly DEF Further
    <2>2. k \in Nat /\ IsPartial(r, w, k)
      BY <2>1, AllPartial
    <2>3. Completable(r)
      BY <2>1, <2>2, CompletableBack
    <2> QED
      BY <1>4, <2>1, <2>3
  <1> HIDE DEF T
  <1>5. \A k \in 0 .. 5 : k \in T
    BY <1>3, <1>4, UpToFive
  <1> HIDE DEF m
  <1>6. 5 - m \in 0 .. 5 /\ MAX_MELDS + 1 - m = 5 - m
    BY <1>1 DEF MAX_MELDS
  <1>7. PICK r \in Partly(w, c)[5 - m] : IsWhole(r)
    BY <1>6, ReadingsArePartly DEF m
  <1>8. IsPartial(r, w, 5 - m)
    BY <1>6, <1>7, AllPartial
  <1>9. Completable(r)
    BY <1>7, <1>8, WholeIsCompletable
  <1> QED
    BY <1>5, <1>6, <1>7, <1>9 DEF T

-----------------------------------------------------------------------------
(* Every reading that is found is a division                                *)

\* The groups of a partly divided hand that were cut off.
FoundOf(r, w) == (Len(w.melds) + 1) .. Len(r.groups)

\* The winning tile is still to be placed, or is in one place.
Placed(r, w) ==
  IF r.available \/ r.pair_wins
    THEN /\ \A i \in FoundOf(r, w) : ~ r.groups[i].wins
         /\ r.pair_wins => ~ r.available /\ w.type = r.pair
    ELSE \E i \in FoundOf(r, w) : /\ w.type \in GroupTypes(r.groups[i])
                                  /\ \A j \in FoundOf(r, w) : r.groups[j].wins <=> j = i

\* What was cut off and what is left are the hand.
Accounts(r, w) ==
  /\ \A i \in FoundOf(r, w) : IsSound(r.groups[i]) /\ GroupTypes(r.groups[i]) \subseteq DOMAIN w.tiles
  /\ IF r.pair = NO_PAIR THEN ~ r.pair_wins ELSE r.pair \in DOMAIN w.tiles
  /\ \A t \in DOMAIN w.tiles :
       w.tiles[t] = r.tiles[t] + CountIn(r, FoundOf(r, w), t)
                      + (IF r.pair = NO_PAIR THEN 0 ELSE 2 * One(t = r.pair))
  /\ Placed(r, w)

\* e has the groups of d and one more.
HasOneMore(e, d, some, n, t) ==
  /\ \A i \in some : e.groups[i] = d.groups[i] /\ GroupCount(d.groups[i], t) \in Nat
  /\ GroupCount(e.groups[n + 1], t) \in Nat

LEMMA CountOneMore ==
  ASSUME NEW n \in 0 .. 3, NEW some \in SUBSET (1 .. n), NEW d, NEW e, NEW t,
         HasOneMore(e, d, some, n, t)
  PROVE  /\ CountIn(d, some, t) \in Nat
         /\ CountIn(e, some \cup {n + 1}, t) = CountIn(d, some, t) + GroupCount(e.groups[n + 1], t)
  <1> DEFINE f == [i \in 1 .. 4 |-> IF i \in some THEN GroupCount(d.groups[i], t) ELSE 0]
             g == [i \in 1 .. 4 |-> IF i \in some \cup {n + 1} THEN GroupCount(e.groups[i], t) ELSE 0]
             x == GroupCount(e.groups[n + 1], t)
  <1>0. /\ \A i \in some : e.groups[i] = d.groups[i] /\ GroupCount(d.groups[i], t) \in Nat
        /\ GroupCount(e.groups[n + 1], t) \in Nat
    BY DEF HasOneMore
  <1>1. CountIn(d, some, t) = SumFunction(f) /\ CountIn(e, some \cup {n + 1}, t) = SumFunction(g)
    BY DEF CountIn
  <1>2. n + 1 \in 1 .. 4 /\ n + 1 \notin some
    OBVIOUS
  <1>3. f \in [1 .. 4 -> Nat] /\ g \in [1 .. 4 -> Nat]
    BY <1>0
  <1>4. /\ f[n + 1] = 0 /\ g[n + 1] = x /\ x \in Nat
        /\ \A i \in 1 .. 4 : i # n + 1 => g[i] = f[i]
    BY <1>0, <1>2
  <1> HIDE DEF f, g, x
  <1>5. /\ SumFunction(f) = f[1] + f[2] + f[3] + f[4]
        /\ SumFunction(g) = g[1] + g[2] + g[3] + g[4]
    BY <1>3, SumOfFour
  <1>6. /\ f[1] \in Nat /\ f[2] \in Nat /\ f[3] \in Nat /\ f[4] \in Nat
    BY <1>3
  <1>7. CASE n = 0
    BY <1>1, <1>4, <1>5, <1>6, <1>7 DEF x
  <1>8. CASE n = 1
    BY <1>1, <1>4, <1>5, <1>6, <1>8 DEF x
  <1>9. CASE n = 2
    BY <1>1, <1>4, <1>5, <1>6, <1>9 DEF x
  <1>10. CASE n = 3
    BY <1>1, <1>4, <1>5, <1>6, <1>10 DEF x
  <1> QED
    BY <1>7, <1>8, <1>9, <1>10

LEMMA CountSame ==
  ASSUME NEW d, NEW e, NEW some, e.groups = d.groups
  PROVE  \A t : CountIn(e, some, t) = CountIn(d, some, t)
  BY DEF CountIn

\* What a group that was cut off is.
IsCutOff(r, type, q, g) ==
  /\ q.groups = Append(r.groups, g) /\ IsSound(g)
  /\ GroupTypes(g) \subseteq DOMAIN r.tiles
  /\ \A t \in DOMAIN r.tiles :
       /\ GroupCount(g, t) \in Nat
       /\ q.tiles[t] \in Int /\ r.tiles[t] = q.tiles[t] + GroupCount(g, t)
  /\ q.pair = r.pair /\ q.pair_wins = r.pair_wins
  /\ q.available = (r.available /\ ~ g.wins)
  /\ g.wins => r.available /\ type \in GroupTypes(g)

LEMMA CutOffGroup ==
  ASSUME NEW D \in SUBSET TileType, NEW r, r.tiles \in [D -> Nat], NEW i \in D, NEW type, NEW q,
         CutGroup(r, i, type, q)
  PROVE  \E g : IsCutOff(r, type, q, g)
  <1>1. PICK wins \in BOOLEAN, kind \in {"TRIPLET", "SEQUENCE"} :
          /\ \/ /\ kind = "TRIPLET" /\ r.tiles[i] >= 3 /\ q.tiles = Take(r.tiles, 3, {i})
                /\ MayTake(r, 3, {i}, type, wins)
             \/ /\ kind = "SEQUENCE" /\ HasSequence(r.tiles, i)
                /\ q.tiles = Take(r.tiles, 1, SequenceFrom(i))
                /\ MayTake(r, 1, SequenceFrom(i), type, wins)
          /\ q = [tiles |-> q.tiles, available |-> r.available /\ ~ wins,
                  groups |-> Append(r.groups, NewGroup(kind, i, wins)),
                  pair |-> r.pair, pair_wins |-> r.pair_wins]
    BY DEF CutGroup
  <1> DEFINE g == NewGroup(kind, i, wins)
  <1>2. /\ q.groups = Append(r.groups, g) /\ q.pair = r.pair /\ q.pair_wins = r.pair_wins
        /\ q.available = (r.available /\ ~ wins)
    BY <1>1
  <1>3. /\ g.kind = kind /\ g.base = i /\ g.open = FALSE /\ g.wins = wins
        /\ g \in Groups
    BY DEF NewGroup, Groups
  <1>4. DOMAIN r.tiles = D /\ \A t \in D : r.tiles[t] \in Nat
    OBVIOUS
  <1> HIDE DEF g
  <1>5. CASE kind = "TRIPLET"
    <2>1. /\ q.tiles = Take(r.tiles, 3, {i}) /\ MayTake(r, 3, {i}, type, wins)
      BY <1>1, <1>5
    <2>2. /\ GroupTypes(g) = {i} /\ IsSound(g)
          /\ \A t : GroupCount(g, t) = IF t = i THEN 3 ELSE 0
      BY <1>3, <1>5 DEF GroupTypes, GroupCount, IsSound, IsSequence
    <2>3. \A t \in D : q.tiles[t] = IF t = i THEN r.tiles[t] - 3 ELSE r.tiles[t]
      BY <1>4, <2>1 DEF Take
    <2>4. \A t \in D : /\ GroupCount(g, t) \in Nat /\ q.tiles[t] \in Int
                        /\ r.tiles[t] = q.tiles[t] + GroupCount(g, t)
      BY <1>4, <2>2, <2>3
    <2>5. wins => r.available /\ type \in GroupTypes(g)
      BY <2>1, <2>2 DEF MayTake
    <2> QED
      BY <1>2, <1>3, <1>4, <2>2, <2>4, <2>5 DEF IsCutOff
  <1>6. CASE kind = "SEQUENCE"
    <2>1. /\ q.tiles = Take(r.tiles, 1, SequenceFrom(i)) /\ MayTake(r, 1, SequenceFrom(i), type, wins)
          /\ StartsSequence(i) /\ SequenceFrom(i) \subseteq D
      BY <1>1, <1>4, <1>6 DEF HasSequence, Contains
    <2>2. /\ GroupTypes(g) = SequenceFrom(i) /\ IsSound(g)
          /\ \A t : GroupCount(g, t) = IF t \in SequenceFrom(i) THEN 1 ELSE 0
      BY <1>3, <1>6, <2>1 DEF GroupTypes, GroupCount, IsSound, IsSequence
    <2>3. \A t \in D : q.tiles[t] = IF t \in SequenceFrom(i) THEN r.tiles[t] - 1 ELSE r.tiles[t]
      BY <1>4, <2>1 DEF Take
    <2>4. \A t \in D : /\ GroupCount(g, t) \in Nat /\ q.tiles[t] \in Int
                        /\ r.tiles[t] = q.tiles[t] + GroupCount(g, t)
      BY <1>4, <2>2, <2>3
    <2>5. wins => r.available /\ type \in GroupTypes(g)
      BY <2>1, <2>2 DEF MayTake
    <2> QED
      BY <1>2, <1>3, <1>4, <2>1, <2>2, <2>4, <2>5 DEF IsCutOff
  <1> QED
    BY <1>5, <1>6

LEMMA UndividedAccounts ==
  ASSUME NEW w, IsWin(w), NEW c, c.win # NONE
  PROVE  Accounts(Undivided(w, c), w)
  <1> DEFINE r == Undivided(w, c)
             m == Len(w.melds)
  <1>1. /\ r.tiles = w.tiles /\ r.available = TRUE /\ r.pair = NO_PAIR /\ r.pair_wins = FALSE
        /\ r.groups = Melds(w)
    BY DEF Undivided
  <1>2. m \in 0 .. 4 /\ DOMAIN w.melds = 1 .. m /\ w.tiles \in [DOMAIN w.tiles -> Nat]
    BY WinTypes
  <1>3. Len(Melds(w)) = m
    BY <1>2 DEF Melds
  <1> HIDE DEF r, m
  <1>4. FoundOf(r, w) = {}
    BY <1>1, <1>2, <1>3 DEF FoundOf, m
  <1>5. \A t : CountIn(r, {}, t) = 0
    <2> TAKE t
    <2> DEFINE f == [i \in 1 .. 4 |-> IF i \in {} THEN GroupCount(r.groups[i], t) ELSE 0]
    <2>1. f \in [1 .. 4 -> Int] /\ f[1] = 0 /\ f[2] = 0 /\ f[3] = 0 /\ f[4] = 0
      OBVIOUS
    <2>2. CountIn(r, {}, t) = SumFunction(f)
      BY DEF CountIn
    <2> HIDE DEF f
    <2>3. SumFunction(f) = f[1] + f[2] + f[3] + f[4]
      BY <2>1, SumOfFour
    <2> QED
      BY <2>1, <2>2, <2>3
  <1>6. \A t \in DOMAIN w.tiles : w.tiles[t] = r.tiles[t] + CountIn(r, {}, t) + 0
    BY <1>1, <1>2, <1>5
  <1>7. Placed(r, w)
    BY <1>1, <1>4 DEF Placed
  <1> QED
    BY <1>1, <1>4, <1>6, <1>7 DEF Accounts, r

LEMMA PairAccounts ==
  ASSUME NEW w, IsWin(w), NEW r, r.tiles \in [DOMAIN w.tiles -> Nat], r.available \in BOOLEAN,
         Accounts(r, w), NEW i \in DOMAIN w.tiles, NEW q, CutPair(r, i, w.type, q)
  PROVE  Accounts(q, w)
  <1> DEFINE D == DOMAIN w.tiles
             F == FoundOf(r, w)
  <1>1. D \subseteq TileType /\ w.tiles \in [D -> Nat] /\ IsTypes(D)
    BY WinTypes
  <1>2. Paired(r.tiles, i, q.tiles) /\ r.pair = NO_PAIR
    BY DEF CutPair
  <1>3. PICK wins \in BOOLEAN :
          /\ MayTake(r, 2, {i}, w.type, wins)
          /\ q = [tiles |-> q.tiles, available |-> r.available /\ ~ wins,
                  groups |-> r.groups, pair |-> i, pair_wins |-> wins]
    BY DEF CutPair
  <1>4. /\ q.available = (r.available /\ ~ wins) /\ q.groups = r.groups /\ q.pair = i
        /\ q.pair_wins = wins
    BY <1>3
  <1>5. wins => r.available /\ w.type = i
    BY <1>3 DEF MayTake
  <1> HIDE <1>3
  <1>6. FoundOf(q, w) = F
    BY <1>4 DEF FoundOf
  <1>7. /\ \A j \in F : IsSound(r.groups[j]) /\ GroupTypes(r.groups[j]) \subseteq D
        /\ ~ r.pair_wins
        /\ \A t \in D : w.tiles[t] = r.tiles[t] + CountIn(r, F, t) + 0
        /\ Placed(r, w)
    BY <1>2 DEF Accounts
  <1> HIDE DEF D, F
  <1>8. i # NO_PAIR /\ i \in D
    BY <1>1 DEF D, TileType, NO_PAIR
  <1>9. \A t \in D : r.tiles[t] \in Nat /\ w.tiles[t] \in Nat
    BY <1>1 DEF D
  <1>10. \A t \in D : q.tiles[t] = IF t = i THEN r.tiles[t] - 2 ELSE r.tiles[t]
    <2>1. r.tiles \in [D -> Nat]
      BY DEF D
    <2> QED
      BY <1>1, <1>2, <1>8, <2>1, PairedType
  <1>11. ASSUME NEW t \in D
         PROVE  w.tiles[t] = q.tiles[t] + CountIn(q, F, t) + 2 * One(t = q.pair)
    <2>1. CountIn(q, F, t) = CountIn(r, F, t)
      BY <1>4, CountSame
    <2>2. CountIn(r, F, t) \in Int
      <3> DEFINE f == [j \in 1 .. 4 |-> IF j \in F THEN GroupCount(r.groups[j], t) ELSE 0]
      <3>1. \A j \in F : GroupCount(r.groups[j], t) \in Nat
        BY <1>7, GroupCountType DEF IsSound, Groups
      <3>2. f \in [1 .. 4 -> Int]
        BY <3>1
      <3>3. CountIn(r, F, t) = SumFunction(f)
        BY DEF CountIn
      <3> HIDE DEF f
      <3>4. SumFunction(f) = f[1] + f[2] + f[3] + f[4]
        BY <3>2, SumOfFour
      <3>5. f[1] \in Int /\ f[2] \in Int /\ f[3] \in Int /\ f[4] \in Int
        BY <3>2
      <3> QED
        BY <3>3, <3>4, <3>5
    <2>3. w.tiles[t] = r.tiles[t] + CountIn(r, F, t) + 0
      BY <1>7
    <2> DEFINE x == CountIn(r, F, t)
    <2> HIDE DEF x
    <2>4. CASE t = i
      <3>1. One(t = q.pair) = 1 /\ q.tiles[t] = r.tiles[t] - 2
        BY <1>4, <1>10, <2>4 DEF One
      <3> QED
        BY <1>9, <2>1, <2>2, <2>3, <3>1 DEF x
    <2>5. CASE t # i
      <3>1. One(t = q.pair) = 0 /\ q.tiles[t] = r.tiles[t]
        BY <1>4, <1>10, <2>5 DEF One
      <3> QED
        BY <1>9, <2>1, <2>2, <2>3, <3>1 DEF x
    <2> QED
      BY <2>4, <2>5
  <1>12. Placed(q, w)
    <2>1. CASE wins
      <3>1. \A j \in F : ~ r.groups[j].wins
        BY <1>5, <1>7, <2>1 DEF Placed, F
      <3>2. q.pair_wins /\ ~ q.available /\ w.type = q.pair
        BY <1>4, <1>5, <2>1
      <3> QED
        BY <1>4, <1>6, <3>1, <3>2 DEF Placed
    <2>2. CASE ~ wins
      <3>1. (q.available <=> r.available) /\ ~ q.pair_wins
        BY <1>4, <2>2
      <3> QED
        BY <1>4, <1>6, <1>7, <3>1 DEF Placed, F
    <2> QED
      BY <2>1, <2>2
  <1> QED
    BY <1>4, <1>6, <1>7, <1>8, <1>11, <1>12 DEF Accounts, D

LEMMA GroupAccounts ==
  ASSUME NEW w, IsWin(w), NEW k, NEW r, IsPartial(r, w, k), Accounts(r, w),
         NEW i \in DOMAIN w.tiles, NEW q, CutGroup(r, i, w.type, q)
  PROVE  Accounts(q, w)
  <1> DEFINE D == DOMAIN w.tiles
             F == FoundOf(r, w)
             n == Len(r.groups)
             m == Len(w.melds)
  <1>1. D \subseteq TileType /\ w.tiles \in [D -> Nat] /\ m \in 0 .. 4
    BY WinTypes
  <1>2. /\ r.tiles \in [D -> Nat] /\ r.groups \in Seq(Groups) /\ n \in Nat /\ m <= n
        /\ r.available \in BOOLEAN
    BY DEF IsPartial
  <1>3. n < 4
    BY DEF CutGroup, MAX_MELDS
  <1>4. PICK g : IsCutOff(r, w.type, q, g)
    BY <1>1, <1>2, CutOffGroup
  <1>5. /\ q.groups = Append(r.groups, g) /\ IsSound(g) /\ GroupTypes(g) \subseteq D
        /\ \A t \in D : /\ GroupCount(g, t) \in Nat /\ q.tiles[t] \in Int
                        /\ r.tiles[t] = q.tiles[t] + GroupCount(g, t)
        /\ q.pair = r.pair /\ q.pair_wins = r.pair_wins
        /\ q.available = (r.available /\ ~ g.wins)
        /\ g.wins => r.available /\ w.type \in GroupTypes(g)
    <2>1. DOMAIN r.tiles = D
      BY <1>2
    <2> QED
      BY <1>4, <2>1 DEF IsCutOff
  <1>6. /\ Len(q.groups) = n + 1 /\ q.groups[n + 1] = g
        /\ \A j \in 1 .. n : q.groups[j] = r.groups[j]
    <2>1. g \in Groups
      BY <1>5 DEF IsSound
    <2> QED
      BY <1>2, <1>5, <2>1, AppendGroup
  <1>7. /\ \A j \in F : IsSound(r.groups[j]) /\ GroupTypes(r.groups[j]) \subseteq D
        /\ IF r.pair = NO_PAIR THEN ~ r.pair_wins ELSE r.pair \in D
        /\ \A t \in D : w.tiles[t] = r.tiles[t] + CountIn(r, F, t)
                                       + (IF r.pair = NO_PAIR THEN 0 ELSE 2 * One(t = r.pair))
        /\ Placed(r, w)
    BY DEF Accounts
  <1> HIDE <1>4 DEF D, n, m
  <1>8. /\ F = (m + 1) .. n /\ FoundOf(q, w) = (m + 1) .. (n + 1)
    BY <1>6 DEF FoundOf, n, m
  <1>9. /\ FoundOf(q, w) = F \cup {n + 1} /\ F \in SUBSET (1 .. n) /\ n \in 0 .. 3 /\ n + 1 \notin F
    BY <1>1, <1>2, <1>3, <1>8
  <1> HIDE DEF F
  <1>10. \A j \in F : q.groups[j] = r.groups[j]
    BY <1>6, <1>9
  <1>11. \A j \in FoundOf(q, w) : IsSound(q.groups[j]) /\ GroupTypes(q.groups[j]) \subseteq D
    BY <1>5, <1>6, <1>7, <1>9, <1>10
  <1>12. ASSUME NEW t \in D
         PROVE  w.tiles[t] = q.tiles[t] + CountIn(q, FoundOf(q, w), t)
                               + (IF q.pair = NO_PAIR THEN 0 ELSE 2 * One(t = q.pair))
    <2> DEFINE x == CountIn(r, F, t)
               y == GroupCount(g, t)
               z == IF r.pair = NO_PAIR THEN 0 ELSE 2 * One(t = r.pair)
    <2>1. \A j \in F : q.groups[j] = r.groups[j] /\ GroupCount(r.groups[j], t) \in Nat
      BY <1>7, <1>10, GroupCountType DEF IsSound, Groups
    <2>2. GroupCount(q.groups[n + 1], t) \in Nat
      BY <1>5, <1>6
    <2>a. HasOneMore(q, r, F, n, t)
      BY <2>1, <2>2 DEF HasOneMore
    <2>3. x \in Nat /\ CountIn(q, FoundOf(q, w), t) = x + y
      <3>1. CountIn(r, F, t) \in Nat
        BY <1>9, <2>a, CountOneMore
      <3>2. CountIn(q, F \cup {n + 1}, t) = CountIn(r, F, t) + GroupCount(q.groups[n + 1], t)
        BY <1>9, <2>a, CountOneMore
      <3> QED
        BY <1>6, <1>9, <3>1, <3>2
    <2>4. w.tiles[t] = r.tiles[t] + x + z
      BY <1>7
    <2>5. r.tiles[t] = q.tiles[t] + y /\ y \in Nat /\ r.tiles[t] \in Nat
      BY <1>2, <1>5
    <2>6. z \in Int /\ z = IF q.pair = NO_PAIR THEN 0 ELSE 2 * One(t = q.pair)
      BY <1>5 DEF One
    <2> DEFINE u == q.tiles[t]
    <2>7. u \in Int
      BY <1>5
    <2> HIDE DEF x, y, z, u
    <2> QED
      BY <2>3, <2>4, <2>5, <2>6, <2>7 DEF u
  <1>13. Placed(q, w)
    <2>1. CASE g.wins
      <3>1. r.available /\ w.type \in GroupTypes(g) /\ ~ q.available
        BY <1>5, <2>1
      <3>2. ~ r.pair_wins /\ \A j \in F : ~ r.groups[j].wins
        BY <1>7, <3>1 DEF Placed, F
      <3>3. ~ q.pair_wins
        BY <1>5, <3>2
      <3>4. \A j \in FoundOf(q, w) : q.groups[j].wins <=> j = n + 1
        BY <1>6, <1>9, <1>10, <2>1, <3>2
      <3>5. n + 1 \in FoundOf(q, w) /\ w.type \in GroupTypes(q.groups[n + 1])
        BY <1>6, <1>9, <3>1
      <3> QED
        BY <3>1, <3>3, <3>4, <3>5 DEF Placed
    <2>2. CASE ~ g.wins
      <3>1. (q.available <=> r.available) /\ (q.pair_wins <=> r.pair_wins) /\ q.pair = r.pair
        BY <1>5, <2>2
      <3>2. CASE r.available \/ r.pair_wins
        <4>1. /\ \A j \in F : ~ r.groups[j].wins
              /\ r.pair_wins => ~ r.available /\ w.type = r.pair
          BY <1>7, <3>2 DEF Placed, F
        <4>2. \A j \in FoundOf(q, w) : ~ q.groups[j].wins
          BY <1>6, <1>9, <1>10, <2>2, <4>1
        <4> QED
          BY <3>1, <3>2, <4>1, <4>2 DEF Placed
      <3>3. CASE ~ (r.available \/ r.pair_wins)
        <4>1. PICK j \in F : /\ w.type \in GroupTypes(r.groups[j])
                             /\ \A l \in F : r.groups[l].wins <=> l = j
          BY <1>7, <3>3 DEF Placed, F
        <4>2. j \in FoundOf(q, w) /\ w.type \in GroupTypes(q.groups[j]) /\ j # n + 1
          BY <1>9, <1>10, <4>1
        <4>3. \A l \in FoundOf(q, w) : q.groups[l].wins <=> l = j
          BY <1>6, <1>9, <1>10, <2>2, <4>1, <4>2
        <4> QED
          BY <3>1, <3>3, <4>2, <4>3 DEF Placed
      <3> QED
        BY <3>2, <3>3
    <2> QED
      BY <2>1, <2>2
  <1>14. IF q.pair = NO_PAIR THEN ~ q.pair_wins ELSE q.pair \in D
    BY <1>5, <1>7
  <1> QED
    BY <1>11, <1>12, <1>13, <1>14 DEF Accounts, D

LEMMA AllAccounted ==
  ASSUME NEW w, IsWin(w), NEW c, c.win # NONE
  PROVE  \A k \in 0 .. 5 : \A r \in Partly(w, c)[k] : Accounts(r, w)
  <1> DEFINE T == {k \in 0 .. 5 : \A r \in Partly(w, c)[k] : Accounts(r, w)}
  <1>1. 0 \in T
    <2>1. \A r \in Partly(w, c)[0] : Accounts(r, w)
      BY PartlyRule, UndividedAccounts
    <2> QED
      BY <2>1
  <1>2. ASSUME NEW k \in 0 .. 4, k \in T
        PROVE  k + 1 \in T
    <2>1. ASSUME NEW q \in Partly(w, c)[k + 1]
          PROVE  Accounts(q, w)
      <3>1. q \in Further(Partly(w, c)[k], w.type)
        BY FurtherPartly
      <3>2. PICK r \in Partly(w, c)[k] : q \in Divided(r, w.type)
        BY <3>1 DEF Further
      <3>3. IsPartial(r, w, k) /\ Accounts(r, w)
        BY <1>2, AllPartial
      <3>4. r.tiles \in [DOMAIN w.tiles -> Nat] /\ r.available \in BOOLEAN
        BY <3>3 DEF IsPartial
      <3> DEFINE i == Min(Held(r.tiles))
      <3>5. Held(r.tiles) # {}
        BY <3>2 DEF Divided
      <3>6. CutPair(r, i, w.type, q) \/ CutGroup(r, i, w.type, q)
        BY <3>2, <3>5, DividedMeans
      <3>7. i \in DOMAIN w.tiles
        BY <3>4, <3>5, WinTypes, FirstTile
      <3> HIDE DEF i
      <3> QED
        BY <3>3, <3>4, <3>6, <3>7, PairAccounts, GroupAccounts
    <2>2. k + 1 \in 0 .. 5
      OBVIOUS
    <2> QED
      BY <2>1, <2>2
  <1>3. \A k \in 0 .. 5 : k \in T
    <2> HIDE DEF T
    <2> QED
      BY <1>1, <1>2, UpToFive
  <1> QED
    BY <1>3

\* Whatever the search finds is a way to read the hand.
LEMMA ReadingIsDivision ==
  ASSUME NEW w, IsWin(w), NEW c, c.win # NONE, NEW d \in ReadingsOf(w, c)
  PROVE  IsDivision(d, w)
  <1> DEFINE m == Len(w.melds)
             D == DOMAIN w.tiles
  <1>1. m \in 0 .. 4 /\ w.tiles \in [D -> Nat] /\ D \subseteq TileType
    BY WinTypes
  <1>2. 5 - m \in 0 .. 5 /\ MAX_MELDS + 1 - m = 5 - m
    <2> HIDE DEF m
    <2> QED
      BY <1>1 DEF MAX_MELDS
  <1>3. PICK r \in Partly(w, c)[5 - m] : IsWhole(r) /\ d = ReadingOf(r)
    BY <1>2, ReadingsArePartly
  <1>4. IsPartial(r, w, 5 - m) /\ Accounts(r, w)
    BY <1>2, <1>3, AllPartial, AllAccounted
  <1>5. /\ d.groups = r.groups /\ d.pair = r.pair /\ d.pair_wins = r.pair_wins
    BY <1>3 DEF ReadingOf
  <1>6. IsReading(d, w)
    BY ReadingsType
  <1>7. /\ Held(r.tiles) = {} /\ r.pair # NO_PAIR /\ Len(r.groups) = 4 /\ ~ r.available
        /\ r.tiles \in [D -> Nat]
    BY <1>3, <1>4 DEF IsWhole, IsPartial, MAX_MELDS
  <1>8. FoundOf(r, w) = Due(w) /\ Due(w) \in SUBSET (1 .. 4)
    BY <1>1, <1>7 DEF FoundOf, Due
  <1>9. /\ \A i \in Due(w) : IsSound(d.groups[i]) /\ GroupTypes(d.groups[i]) \subseteq D
        /\ d.pair \in D
        /\ \A t \in D : w.tiles[t] = r.tiles[t] + CountIn(r, Due(w), t) + 2 * One(t = d.pair)
    BY <1>4, <1>5, <1>7, <1>8 DEF Accounts
  <1>10. \A t \in D : r.tiles[t] = 0
    BY <1>7 DEF Held
  <1> HIDE DEF m, D
  <1>11. ASSUME NEW t \in TileType
         PROVE  HeldOf(w, t) = CountIn(d, Due(w), t) + 2 * One(t = d.pair)
    <2>1. /\ CountIn(d, Due(w), t) \in Nat /\ CountIn(r, Due(w), t) = CountIn(d, Due(w), t)
          /\ CountIn(d, Due(w), t) > 0 => \E j \in Due(w) : GroupCount(d.groups[j], t) > 0
      BY <1>5, <1>6, <1>8, CountFacts, CountSame
    <2>2. One(t = d.pair) \in Nat
      BY DEF One
    <2>3. CASE t \in D
      <3>1. w.tiles[t] = 0 + CountIn(d, Due(w), t) + 2 * One(t = d.pair)
        BY <1>9, <1>10, <2>1, <2>3
      <3>2. HeldOf(w, t) = w.tiles[t]
        BY <2>3 DEF HeldOf, D
      <3> QED
        BY <2>1, <2>2, <3>1, <3>2
    <2>4. CASE t \notin D
      <3>1. HeldOf(w, t) = 0 /\ One(t = d.pair) = 0
        BY <1>9, <2>4 DEF HeldOf, One, D
      <3>2. \A j \in Due(w) : GroupCount(d.groups[j], t) = 0
        BY <1>9, <2>4 DEF GroupCount
      <3>3. ~ (CountIn(d, Due(w), t) > 0)
        BY <2>1, <3>2
      <3> QED
        BY <2>1, <3>1, <3>3
    <2> QED
      BY <2>3, <2>4
  <1>12. \A i \in Due(w) : IsSequence(d.groups[i]) => StartsSequence(d.groups[i].base)
    BY <1>9 DEF IsSound
  <1>13. IF d.pair_wins
           THEN w.type = d.pair /\ \A i \in Due(w) : ~ d.groups[i].wins
           ELSE \E i \in Due(w) : /\ w.type \in GroupTypes(d.groups[i])
                                 /\ \A j \in Due(w) : d.groups[j].wins <=> j = i
    BY <1>4, <1>5, <1>7, <1>8 DEF Accounts, Placed
  <1> QED
    BY <1>6, <1>11, <1>12, <1>13 DEF IsDivision

-----------------------------------------------------------------------------
(* Twins are scored alike                                                   *)

\* A reading of a hand is found, turned, in its twin, and worth the same.
LEMMA ReadAlike ==
  ASSUME NEW s, NEW w, NEW v, AreTwins(s, w, v),
         NEW c, c = DeclaredContext(w), NEW b, b = DeclaredContext(v),
         NEW d \in ReadingsOf(w, c), NEW r
  PROVE  \E f \in ReadingsOf(v, b) :
           /\ DecompositionYaku(v, b, f) = DecompositionYaku(w, c, d)
           /\ \A yaku : Scored(v, r, b, f, yaku) = Scored(w, r, c, d, yaku)
  <1>1. /\ IsWin(w) /\ IsWin(v) /\ c.win # NONE /\ b.win # NONE
        /\ c.total = TotalCounts(w) /\ b.total = TotalCounts(v)
    BY ContextType DEF AreTwins, NONE
  <1>2. SameContext(s, c, b)
    BY TwinContext
  <1>3. IsDivision(d, w)
    BY <1>1, ReadingIsDivision
  <1> DEFINE e == TurnReading(s, d)
  <1>4. IsDivision(e, v) /\ AreTurned(s, w, v, d, e)
    BY <1>3, TurnedDivision
  <1> HIDE DEF e
  <1>5. SameShape(w, c, d, v, b, e)
    BY <1>2, <1>4, TurnedShape
  <1>6. DecompositionYaku(w, c, d) = DecompositionYaku(v, b, e)
    BY <1>5, SameYaku
  <1>7. PICK f \in ReadingsOf(v, b) : Rearranged(f, e)
    BY <1>1, <1>4, EveryDivisionIsFound
  <1>8. IsReading(f, v) /\ IsReading(e, v)
    BY <1>1, <1>4, <1>7, ReadingsType DEF IsDivision
  <1>9. DecompositionYaku(v, b, f) = DecompositionYaku(v, b, e)
    BY <1>7, <1>8, RearrangedYaku
  <1>10. ASSUME NEW yaku
         PROVE  Scored(v, r, b, f, yaku) = Scored(w, r, c, d, yaku)
    <2>1. b.win = c.win
      BY <1>2 DEF SameContext
    <2>2. Fu(v, b, e, yaku) = Fu(w, c, d, yaku)
      BY <1>4, <2>1, TurnedFuSame
    <2>3. Scored(v, r, b, e, yaku) = Scored(w, r, c, d, yaku)
      BY <1>1, <2>1, <2>2, TwinScored
    <2> QED
      BY <1>7, <1>8, <2>3, RearrangedScore
  <1> QED
    BY <1>6, <1>7, <1>9, <1>10

LEMMA TwinComplete ==
  ASSUME NEW s, NEW w, NEW v, AreTwins(s, w, v), IsComplete(w.tiles, Len(w.melds))
  PROVE  IsComplete(v.tiles, Len(v.melds))
  <1> DEFINE m == Len(w.melds)
             c == DeclaredContext(w)
             b == DeclaredContext(v)
  <1>1. IsWin(w) /\ IsWin(v) /\ Len(v.melds) = m
    BY TwinShape DEF AreTwins
  <1>2. Total(v.tiles) = 3 * (MAX_MELDS - m) + 2
    BY <1>1 DEF IsWin
  <1>3. /\ m = 0 <=> w.melds = <<>>
    <2>1. w.melds \in Seq([kind : MeldKinds, base : TileType])
      BY <1>1 DEF IsWin
    <2> QED
      BY <2>1
  <1> HIDE DEF m, c, b
  <1>4. \/ m = 0 /\ (CheckKokushi(w.tiles) \/ CheckSevenPairs(w.tiles))
        \/ CheckStandard(w.tiles, MAX_MELDS - m)
    BY DEF IsComplete, m
  <1>5. CASE m = 0 /\ (CheckKokushi(w.tiles) \/ CheckSevenPairs(w.tiles))
    <2>1. IsKokushi(w) \/ IsChiitoi(w)
      BY <1>3, <1>5 DEF IsKokushi, IsChiitoi
    <2>2. IsKokushi(v) \/ IsChiitoi(v)
      BY <2>1, TwinKokushi, TwinChiitoi
    <2> QED
      BY <1>1, <1>2, <1>5, <2>2 DEF IsComplete, IsKokushi, IsChiitoi
  <1>6. CASE CheckStandard(w.tiles, MAX_MELDS - m)
    <2>1. PICK d \in ReadingsOf(w, c) : TRUE
      BY <1>1, <1>6, ReadingExists DEF m
    <2>2. \E f \in ReadingsOf(v, b) : TRUE
      <3>1. \A r : \E f \in ReadingsOf(v, b) : TRUE
        BY <2>1, ReadAlike DEF c, b
      <3> QED
        BY <3>1
    <2>3. CheckStandard(v.tiles, MAX_MELDS - Len(v.melds))
      BY <1>1, <2>2, ReadingShowsStandard
    <2> QED
      BY <1>1, <1>2, <2>3 DEF IsComplete
  <1> QED
    BY <1>4, <1>5, <1>6

LEMMA CandidateMeans ==
  ASSUME NEW w, NEW r, NEW c, NEW k
  PROVE  k \in Candidates(w, r, c) <=>
           \/ /\ {"CHIITOI", "KOKUSHI"} \cap CountBasedYaku(w, r, c) # {}
              /\ k = [yaku |-> CountBasedYaku(w, r, c), reading |-> NO_READING]
           \/ /\ "KOKUSHI" \notin CountBasedYaku(w, r, c)
              /\ \E d \in ReadingsOf(w, c) :
                   k = [yaku |-> (CountBasedYaku(w, r, c) \ {"CHIITOI"})
                                   \cup DecompositionYaku(w, c, d),
                        reading |-> d]
  BY DEF Candidates, When

LEMMA TwinScores ==
  ASSUME NEW s, NEW w, NEW v, AreTwins(s, w, v), IsGreen(v) <=> IsGreen(w), NEW r
  PROVE  Scores(w, r, DeclaredContext(w)) \subseteq Scores(v, r, DeclaredContext(v))
  <1> DEFINE c == DeclaredContext(w)
             b == DeclaredContext(v)
             base == CountBasedYaku(w, r, c)
  <1> SUFFICES ASSUME NEW x \in Scores(w, r, c)
               PROVE  x \in Scores(v, r, b)
    OBVIOUS
  <1>1. /\ IsWin(w) /\ IsWin(v)
        /\ c.total = TotalCounts(w) /\ b.total = TotalCounts(v)
    BY ContextType DEF AreTwins
  <1>2. b.win = c.win
    BY TwinContext DEF SameContext
  <1>3. CountBasedYaku(v, r, b) = base
    BY TwinsWinAlike, SameBase
  <1> HIDE DEF c, b
  <1>4. PICK k \in Candidates(w, r, c) : k.yaku # {} /\ x = Scored(w, r, c, k.reading, k.yaku)
    BY DEF Scores
  <1> SUFFICES \E l \in Candidates(v, r, b) :
                 l.yaku = k.yaku /\ Scored(v, r, b, l.reading, l.yaku) = x
    BY <1>4 DEF Scores
  <1>5. CASE /\ {"CHIITOI", "KOKUSHI"} \cap base # {}
             /\ k = [yaku |-> base, reading |-> NO_READING]
    <2>1. k \in Candidates(v, r, b)
      BY <1>3, <1>5, CandidateMeans
    <2>2. Fu(v, b, NO_READING, k.yaku) = Fu(w, c, NO_READING, k.yaku)
      BY <1>2, NoReadingFuSame
    <2>3. Scored(v, r, b, NO_READING, k.yaku) = Scored(w, r, c, NO_READING, k.yaku)
      BY <1>1, <1>2, <2>2, TwinScored
    <2>4. k.reading = NO_READING
      BY <1>5
    <2> QED
      BY <1>4, <2>1, <2>3, <2>4
  <1>6. CASE /\ "KOKUSHI" \notin base
             /\ \E d \in ReadingsOf(w, c) :
                  k = [yaku |-> (base \ {"CHIITOI"}) \cup DecompositionYaku(w, c, d), reading |-> d]
    <2>1. PICK d \in ReadingsOf(w, c) :
            k = [yaku |-> (base \ {"CHIITOI"}) \cup DecompositionYaku(w, c, d), reading |-> d]
      BY <1>6
    <2>2. PICK f \in ReadingsOf(v, b) :
            /\ DecompositionYaku(v, b, f) = DecompositionYaku(w, c, d)
            /\ \A yaku : Scored(v, r, b, f, yaku) = Scored(w, r, c, d, yaku)
      BY ReadAlike DEF c, b
    <2> DEFINE l == [yaku |-> (base \ {"CHIITOI"}) \cup DecompositionYaku(v, b, f), reading |-> f]
    <2>3. l \in Candidates(v, r, b)
      BY <1>3, <1>6, CandidateMeans
    <2>4. l.yaku = k.yaku /\ l.reading = f /\ k.reading = d
      BY <2>1, <2>2
    <2> HIDE DEF l
    <2>5. Scored(v, r, b, l.reading, l.yaku) = x
      BY <1>4, <2>2, <2>4
    <2> QED
      BY <2>3, <2>4, <2>5
  <1> QED
    BY <1>5, <1>6, CandidateMeans

\* A hand and its twin are worth the same.
LEMMA TwinsScoreAlike ==
  ASSUME NEW s, NEW w, NEW v, AreTwins(s, w, v), IsGreen(v) <=> IsGreen(w), NEW r
  PROVE  BestResult(v, r, DeclaredContext(v)) = BestResult(w, r, DeclaredContext(w))
  <1>1. AreTwins(Back(s), v, w)
    BY TwinsBack
  <1>2. Scores(v, r, DeclaredContext(v)) = Scores(w, r, DeclaredContext(w))
    BY <1>1, TwinScores
  <1>3. IsComplete(v.tiles, Len(v.melds)) <=> IsComplete(w.tiles, Len(w.melds))
    BY <1>1, TwinComplete
  <1> QED
    BY <1>2, <1>3 DEF BestResult, Scores

\* No suit and no end of a suit is favoured: turned into the next suit, and
\* counted from nine down to one, a declared win is worth the same, unless the
\* one or the other is all green (state_yaku.c:905).
THEOREM SuitsAlikeHolds == Spec => []SuitsAlike
  <1>1. ScoreInv => SuitsAlike
    <2> SUFFICES ASSUME ScoreInv, IsOver, ~ IsGreen(win), ~ IsGreen(Twin(win))
                 PROVE  BestResult(Twin(win), rules, DeclaredContext(Twin(win))) = declared
      BY DEF SuitsAlike
    <2>1. win \in Wins /\ IsWin(win)
      BY WinsAssumption DEF ScoreInv
    <2>2. declared = BestResult(win, rules, DeclaredContext(win))
      <3>1. state # LiveState(win)
        BY <2>1 DEF IsOver, LiveState, IsWin, LivePhases
      <3> QED
        BY <3>1 DEF ScoreInv
    <2>3. AreTwins(1, win, Twin(win))
      BY <2>1, TwinIsTwin
    <2> QED
      BY <2>2, <2>3, TwinsScoreAlike
  <1> QED
    BY <1>1, ScoreInvHolds, PTL
==============================================================================
