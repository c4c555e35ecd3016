------------------------------ MODULE Brackets ------------------------------
(***************************************************************************)
(* The tables of a kyorugi competition: the draw of a group                *)
(* (competitions/services/draw_service.py), the numbering of the bouts on  *)
(* the mats (competitions/services/numbering_service.py), both started     *)
(* from pages of the administration (competitions/admin.py), and the       *)
(* publication that lets users see them (competitions/views.py).           *)
(*                                                                         *)
(* A group is a belt group and a weight of the one competition modelled.   *)
(* A service call is a transaction and one step; the draw page counts the  *)
(* participants before it opens that transaction, so a draw is two steps.  *)
(* is_locked of a draw is never set by the program, and is left out.       *)
(* A draw seats enrollments, of which a player may have two                *)
(* (Registration!NeverTwice): the places, the byes and the clubs go by the *)
(* enrollment, the history and the count that numbering asks for by the    *)
(* player.                                                                 *)
(***************************************************************************)
EXTENDS Naturals, FiniteSets

CONSTANTS
  Entries,     \* Enrollment rows
  Players,     \* UserProfile rows
  PlayerOf,    \* the player of an enrollment
  Groups,      \* belt group and weight
  GroupOf,     \* the group of an enrollment
  ClubOf,      \* the club of an enrollment, or None
  WeightOf,    \* the weight of a group, a number: min_weight orders them
  Mats,        \* mat numbers
  Sizes,       \* table sizes an administrator may type in
  Thresholds,  \* club thresholds an administrator may type in
  Past,        \* who met in earlier competitions, and in which group
  Assignments, \* sets of mats a weight may be assigned to
  MaxDraws,    \* bound: draws made
  MaxEdits,    \* bound: enrollments deleted, mats moved, numbers cleared,
               \* publications taken back
  None

Weights == {WeightOf[g] : g \in Groups}

\* Pairs of enrollments of one group.
GroupPairs == {pair \in {{p, q} : p, q \in Entries} :
                 /\ Cardinality(pair) = 2
                 /\ \A p, q \in pair : GroupOf[p] = GroupOf[q]}

\* FirstRoundPairHistory rows: the players of a pair, who may be one, in a group.
Meetings == {<<g, {p, q}>> : g \in Groups, p, q \in Players}

Meeting(g, pair) == <<g, {PlayerOf[e] : e \in pair}>>

ASSUME BracketsAssumption ==
  /\ None \notin Entries /\ IsFiniteSet(Entries) /\ IsFiniteSet(Groups)
  /\ \A e \in Entries : PlayerOf[e] \in Players
  /\ GroupOf \in [Entries -> Groups]
  /\ WeightOf \in [Groups -> Nat]
  /\ DOMAIN ClubOf = Entries
  /\ Mats \subseteq Nat \ {0}
  /\ Assignments \subseteq SUBSET Mats
  /\ Thresholds \subseteq Nat \ {0}
  /\ Sizes \subseteq Nat
  /\ Past \subseteq Meetings
  /\ MaxDraws \in Nat /\ MaxEdits \in Nat

VARIABLES
  eligible,   \* enrollments with one of ELIGIBLE_STATUSES
  history,    \* FirstRoundPairHistory rows
  draw,       \* the Draw row of each group with its matches, or None
  mats,       \* the mats each weight is assigned to
  published,  \* bracket_published_at is set
  request,    \* what the draw page has read, or None
  made,       \* draws made so far: the ids of the Draw rows
  edits

vars == <<eligible, history, draw, mats, published, request, made, edits>>

-----------------------------------------------------------------------------
(* Tables *)

Half(n) == n \div 2

\* _next_pow2, and the loop of the draw page that starts from 1.
PowersOfTwo == {1, 2, 4, 8, 16, 32, 64, 128}

\* A table has at least two places.
TableSizes == PowersOfTwo \ {1}

\* The places of a table of n rounds.
Places == <<2, 4, 8, 16, 32, 64, 128>>

NextPow2(n) == CHOOSE s \in PowersOfTwo :
                 s >= n /\ \A t \in PowersOfTwo : t >= n => s <= t

\* BYE_ORDER_MAP, and the order _bye_slots makes for the other sizes.
ByeOrder(size) ==
  CASE size = 4  -> <<4, 1, 3, 2>>
    [] size = 8  -> <<8, 1, 5, 4, 6, 3, 7, 2>>
    [] size = 16 -> <<16, 1, 9, 8, 13, 5, 12, 6, 14, 3, 11, 7, 10, 2, 15, 4>>
    [] size = 32 -> <<32, 1, 17, 16, 25, 8, 24, 9, 29, 4, 20, 13, 28, 5, 21,
                      12, 31, 2, 18, 15, 26, 7, 23, 10, 30, 3, 19, 14, 27, 6,
                      22, 11>>
    [] size = 64 -> <<64, 1, 33, 32, 49, 16, 48, 17, 57, 8, 40, 25, 56, 9, 41,
                      24, 61, 4, 36, 29, 52, 13, 45, 20, 60, 5, 37, 28, 53, 12,
                      44, 21, 63, 2, 34, 31, 50, 15, 47, 18, 58, 7, 39, 26, 55,
                      10, 42, 23, 62, 3, 35, 30, 51, 14, 46, 19, 59, 6, 38, 27,
                      54, 11, 43, 22>>
    [] OTHER -> [i \in 1..size |-> IF i % 2 = 1 THEN size - Half(i)
                                                ELSE Half(i)]

\* _bye_slots: none when there are more players than places.
ByeSlots(size, count) ==
  {ByeOrder(size)[i] : i \in {j \in 1..size : j + count <= size}}

\* The size create_draw_for_group settles on for the size it is given.
TableSize(given, count) ==
  LET needed == IF count <= 4 THEN 4 ELSE 2
  IN  IF given < needed THEN needed ELSE given

\* Mutant: one bye too many.
SeatingShort(order, size, count) ==
  LET byes == ByeSlots(size, count - 1)
      Rank(s) == Cardinality({t \in 1..s : t \notin byes})
  IN  [s \in 1..size |-> IF s \in byes THEN None ELSE order[Rank(s)]]

\* Mutant: the byes all at the end.
SeatingPacked(order, size, count) ==
  [s \in 1..size |-> IF s > count THEN None ELSE order[s]]

\* The i-th enrollment of the order sits on the i-th slot that is no bye.
Seating(order, size, count) ==
  LET byes == ByeSlots(size, count)
      Rank(s) == Cardinality({t \in 1..s : t \notin byes})
  IN  [s \in 1..size |-> IF s \in byes THEN None ELSE order[Rank(s)]]

Orders(pool) ==
  {o \in [1..Cardinality(pool) -> pool] : {o[i] : i \in DOMAIN o} = pool}

\* Mutant: bouts against a bye are taken for pairs.
PairsWithByes(seats, size) ==
  {{seats[2 * k - 1], seats[2 * k]} : k \in 1..Half(size)}

\* First-round bouts without a bye.
Pairs(seats, size) ==
  {{seats[2 * k - 1], seats[2 * k]} :
     k \in {b \in 1..Half(size) : None \notin {seats[2 * b - 1], seats[2 * b]}}}

SameClub(pair) == \E p \in pair :
  ClubOf[p] # None /\ \A q \in pair : ClubOf[q] = ClubOf[p]

\* Mutant: only clubs are kept apart.
CostOfClubs(pairs, guarded) ==
  IF guarded THEN Cardinality({p \in pairs : SameClub(p)}) ELSE 0

\* The pairs whose players have met in the group.
Remembered == {pair \in GroupPairs : \E e \in pair : Meeting(GroupOf[e], pair) \in history}

\* _order_cost_for_slots: a repeated pair weighs a hundred times a pair of
\* one club, which counts only above the threshold.
Cost(pairs, guarded) ==
  100 * Cardinality(pairs \cap Remembered)
    + (IF guarded THEN Cardinality({p \in pairs : SameClub(p)}) ELSE 0)

\* _best_order_by_penalty_on_slots.  The 200 shuffles are taken to meet every
\* pairing, of which the small tables modelled have at most ten.
BestSeatings(pool, size, guarded) ==
  LET count == Cardinality(pool)
      seatings == {Seating(o, size, count) : o \in Orders(pool)}
      cost == [s \in seatings |-> Cost(Pairs(s, size), guarded)]
  IN  {s \in seatings : \A t \in seatings : cost[s] <= cost[t]}

Rounds(size) == CHOOSE n \in 1..7 : Places[n] = size

\* Bout <<r, k>> is the k-th of round r; _ensure_rounds_exist makes those
\* after the first round.
Bouts(size) ==
  UNION {{<<r, k>> : k \in 1..(size \div Places[r])} : r \in 1..Rounds(size)}

Seated(d) == {d.seats[s] : s \in 1..d.size} \ {None}

\* _real_players_count: a player who is enrolled twice counts once.
Several(d) == Cardinality({PlayerOf[e] : e \in Seated(d)}) >= 2

IsBye(d, b) ==
  b[1] = 1 /\ None \in {d.seats[2 * b[2] - 1], d.seats[2 * b[2]]}

IsFinal(d, b) == b[1] = Rounds(d.size)

Numbered(d) == {b \in Bouts(d.size) : d.number[b] # 0}

-----------------------------------------------------------------------------
Init ==
  /\ eligible = {}
  /\ history \in {{}, Past}
  /\ draw = [g \in Groups |-> None]
  /\ mats \in [Weights -> Assignments]
  /\ published = FALSE
  /\ request = None
  /\ made = 0 /\ edits = 0

\* A payment makes an enrollment eligible (Payments, Ranking).
Enroll(e) ==
  /\ e \notin eligible
  /\ eligible' = eligible \cup {e}
  /\ UNCHANGED <<history, draw, mats, published, request, made, edits>>

\* Administrators delete enrollments; tables already drawn keep the player.
Withdraw(e) ==
  /\ edits < MaxEdits /\ edits' = edits + 1
  /\ e \in eligible
  /\ eligible' = eligible \ {e}
  /\ UNCHANGED <<history, draw, mats, published, request, made>>

-----------------------------------------------------------------------------
(* The draw *)

Pool(g) == {e \in eligible : GroupOf[e] = g}

\* The weights on the forms of the two pages: those with a mat.
Selectable == {w \in Weights : mats[w] # {}}

\* The size DrawStartForm and its page propose.
AutoSize(count) == NextPow2(count)

\* The page counts the participants and settles size and threshold: what the
\* administrator typed in, or else what the count gives.
DrawPage(g) ==
  LET count == Cardinality(Pool(g)) IN
  /\ request = None /\ made < MaxDraws
  /\ WeightOf[g] \in Selectable
  /\ count >= 1
  /\ \E size \in Sizes \cup {AutoSize(count)},
        threshold \in Thresholds \cup {IF count >= 8 THEN 8 ELSE 9999} :
       /\ size \in PowersOfTwo
       /\ request' = [group |-> g, size |-> size, threshold |-> threshold]
  /\ UNCHANGED <<eligible, history, draw, mats, published, made, edits>>

\* create_draw_for_group: the group's draw and its matches are replaced, the
\* pairs of the first round are added to the history, and on New Year's day
\* the whole history is deleted (cleanup_pair_history).
CreateDraw ==
  /\ request # None /\ Pool(request.group) # {}
  /\ LET g == request.group
         pool == Pool(g)
         count == Cardinality(pool)
         size == TableSize(request.size, count)
     IN  \E seats \in BestSeatings(pool, size, count > request.threshold),
            newYear \in BOOLEAN :
           /\ draw' = [draw EXCEPT ![g] =
                [id |-> made + 1, size |-> size, seats |-> seats,
                 number |-> [b \in Bouts(size) |-> 0],
                 mat |-> [b \in Bouts(size) |-> 0], later |-> FALSE]]
           /\ history' = IF newYear THEN {}
                         ELSE history \cup {Meeting(g, pair) : pair \in Pairs(seats, size)}
  /\ made' = made + 1
  /\ request' = None
  /\ UNCHANGED <<eligible, mats, published, edits>>

\* create_draw_for_group finds nobody: those the page counted were deleted.
CreateDrawFails ==
  /\ request # None /\ Pool(request.group) = {}
  /\ request' = None
  /\ UNCHANGED <<eligible, history, draw, mats, published, made, edits>>

-----------------------------------------------------------------------------
(* Numbers *)

\* save_formset: an administrator assigns a weight to mats.
AssignMats(w, ms) ==
  /\ edits < MaxEdits /\ edits' = edits + 1
  /\ mats' = [mats EXCEPT ![w] = ms]
  /\ UNCHANGED <<eligible, history, draw, published, request, made>>

\* _weight_to_mat_map: the lowest of the weight's mats.
MatOf(g) == CHOOSE t \in mats[WeightOf[g]] :
              \A u \in mats[WeightOf[g]] : t <= u

Chosen(ws) == {g \in Groups : draw[g] # None /\ WeightOf[g] \in ws}

\* Mutant: byes get a number as well.
BoutsOnMatWithByes(ws, t) ==
  {x \in UNION {{g} \X Bouts(draw[g].size) : g \in Chosen(ws)} :
     MatOf(x[1]) = t /\ Several(draw[x[1]])}

\* The bouts a call numbers on mat t: no byes of the first round, and no
\* draw with fewer than two players.
BoutsOnMat(ws, t) ==
  {x \in UNION {{g} \X Bouts(draw[g].size) : g \in Chosen(ws)} :
     /\ MatOf(x[1]) = t
     /\ Several(draw[x[1]])
     /\ ~IsBye(draw[x[1]], x[2])}

\* Mutant: the finals first.
PlaceFinalsFirst(x) ==
  LET d == draw[x[1]] IN
  <<IF IsFinal(d, x[2]) THEN 0 ELSE 1, x[2][1], WeightOf[x[1]], d.id, x[2][2]>>

\* The order of the two phases: finals last, then by round, then the draws by
\* weight and id, then by place in the round.
Place(x) ==
  LET d == draw[x[1]] IN
  <<IF IsFinal(d, x[2]) THEN 1 ELSE 0,
    IF IsFinal(d, x[2]) THEN 0 ELSE x[2][1],
    WeightOf[x[1]], d.id, x[2][2]>>

Precedes(x, y) ==
  \E i \in 1..5 : /\ Place(x)[i] < Place(y)[i]
                  /\ \A j \in 1..(i - 1) : Place(x)[j] = Place(y)[j]

\* Mutant: every draw counts from 1.
NumberMatchesPerDraw(ws, reset) ==
  /\ Chosen(ws) # {}
  /\ \A w \in ws : mats[w] # {}
  /\ draw' = [g \in Groups |->
       IF g \notin Chosen(ws) THEN draw[g]
       ELSE LET here == {x \in BoutsOnMat(ws, MatOf(g)) : x[1] = g}
                Mine(b) == <<g, b>> \in here
            IN  [draw[g] EXCEPT
                   !.later = TRUE,
                   !.number = [b \in DOMAIN @ |->
                     IF Mine(b) THEN Cardinality({y \in here : ~Precedes(<<g, b>>, y)})
                     ELSE @[b]],
                   !.mat = [b \in DOMAIN @ |->
                     IF Mine(b) /\ @[b] = 0 THEN MatOf(g) ELSE @[b]]]]
  /\ UNCHANGED <<eligible, history, mats, published, request, made, edits>>

\* number_matches_for_competition: each mat counts its bouts from 1.  A bout
\* keeps the mat it was first given.
NumberMatches(ws, reset) ==
  /\ Chosen(ws) # {}
  /\ \A w \in ws : mats[w] # {}
  /\ draw' = [g \in Groups |->
       IF g \notin Chosen(ws) THEN draw[g]
       ELSE LET here == BoutsOnMat(ws, MatOf(g))
                Mine(b) == <<g, b>> \in here
            IN  [draw[g] EXCEPT
                   !.later = TRUE,
                   !.number = [b \in DOMAIN @ |->
                     CASE Mine(b) -> Cardinality({y \in here :
                                       ~Precedes(<<g, b>>, y)})
                       [] ~Mine(b) /\ reset -> 0
                       [] OTHER -> @[b]],
                   !.mat = [b \in DOMAIN @ |->
                     IF Mine(b) /\ @[b] = 0 THEN MatOf(g) ELSE @[b]]]]
  /\ UNCHANGED <<eligible, history, mats, published, request, made, edits>>

\* clear_match_numbers_for_competition.
ClearNumbers(ws) ==
  /\ edits < MaxEdits /\ edits' = edits + 1
  /\ draw' = [g \in Groups |->
       IF g \notin Chosen(ws) THEN draw[g]
       ELSE [draw[g] EXCEPT !.number = [b \in DOMAIN @ |-> 0]]]
  /\ UNCHANGED <<eligible, history, mats, published, request, made>>

\* numbering_view: numbers are made, or only the old ones cleared.
NumberingView(ws, reset, apply) ==
  /\ ws # {} /\ ws \subseteq Selectable
  /\ \/ apply /\ NumberMatches(ws, reset)
     \/ ~apply /\ reset /\ ClearNumbers(ws)

-----------------------------------------------------------------------------
(* Publication *)

\* Matches with a row: those after the first round exist once numbered.
Rows(d) == {b \in Bouts(d.size) : b[1] = 1 \/ d.later}

\* numbering_publish_view refuses while a match of two players has no number.
Publish ==
  /\ \A g \in Chosen(Weights) : \A b \in Rows(draw[g]) :
       b[1] = 1 /\ ~IsBye(draw[g], b) => draw[g].number[b] # 0
  /\ published' = TRUE
  /\ UNCHANGED <<eligible, history, draw, mats, request, made, edits>>

Unpublish ==
  /\ edits < MaxEdits /\ edits' = edits + 1
  /\ published /\ published' = FALSE
  /\ UNCHANGED <<eligible, history, draw, mats, request, made>>

\* KyorugiBracketView: the draws without a match that has no number.
Shown ==
  {g \in Chosen(Weights) :
     published /\ \A b \in Rows(draw[g]) :
                    IsBye(draw[g], b) \/ draw[g].number[b] # 0}

Next ==
  \/ \E e \in Entries : Enroll(e) \/ Withdraw(e)
  \/ \E g \in Groups : DrawPage(g)
  \/ CreateDraw
  \/ CreateDrawFails
  \/ \E w \in Weights, ms \in Assignments : AssignMats(w, ms)
  \/ \E ws \in SUBSET Weights, reset, apply \in BOOLEAN :
       NumberingView(ws, reset, apply)
  \/ Publish
  \/ Unpublish

Spec == Init /\ [][Next]_vars

-----------------------------------------------------------------------------
(* Properties *)

\* What the draw page hands over, and the Draw rows of a size with their
\* matches.
Requests == [group : Groups, size : PowersOfTwo, threshold : Nat]

DrawRows(n) ==
  [id : Nat, size : {n}, seats : [1..n -> Entries \cup {None}],
   number : [Bouts(n) -> Nat], mat : [Bouts(n) -> Mats \cup {0}],
   later : BOOLEAN]

ASSUME NoneIsNoDraw == \A n \in TableSizes : None \notin DrawRows(n)

TypeOK ==
  /\ eligible \subseteq Entries
  /\ history \subseteq Meetings
  /\ mats \in [Weights -> SUBSET Mats]
  /\ published \in BOOLEAN
  /\ made \in 0..MaxDraws /\ edits \in 0..MaxEdits
  /\ request # None => request \in Requests
  /\ DOMAIN draw = Groups
  /\ \A g \in Chosen(Weights) :
       /\ draw[g].size \in TableSizes
       /\ draw[g] \in DrawRows(draw[g].size)
       /\ draw[g].id \in 1..made

\* Every enrollment eligible when a group is drawn gets exactly one slot, unless
\* the table is smaller than the group: byes and enrollments share out the slots
\* exactly (_bye_slots, create_draw_for_group).
RoomForAll ==
  [][\A g \in Groups :
       LET d == draw'[g] IN
       made' # made /\ g = request.group /\ Cardinality(Pool(g)) <= d.size =>
         \A p \in Pool(g) :
           Cardinality({s \in 1..d.size : d.seats[s] = p}) = 1]_vars

\* Everybody eligible when a group is drawn is in its table.  Does not hold:
\* a size that is typed in, or counted before a late payment, is not raised
\* to what the group needs.
EveryoneDrawn ==
  [][made' # made =>
       Seated(draw'[request.group]) = Pool(request.group)]_vars

\* In a table of four somebody meets an earlier first-round opponent only when
\* every pairing would repeat a meeting, which takes three pairs of the group whose
\* players have met, whatever clubs they come from and also when a player is
\* enrolled twice (_pair_cost, REPEAT_PAIR_PENALTY).
RepeatsOnlyWhenForced ==
  [][made' # made =>
       LET d == draw'[request.group]
           met == {pair \in Remembered : \A p \in pair : GroupOf[p] = request.group}
       IN  d.size = 4 /\ Pairs(d.seats, 4) \cap Remembered # {}
             => Cardinality(met) >= 3]_vars

\* Byes of a table of the given size and number of players leave a player in
\* every first-round bout.
Spread(size, count) ==
  LET byes == ByeSlots(size, count)
  IN  /\ Cardinality(byes) = size - count
      /\ \A k \in 1..Half(size) : ~({2 * k - 1, 2 * k} \subseteq byes)

\* A table of the size the draw page proposes for its players has a player in
\* every first-round bout, also when one of them paid after the page was
\* served, up to 64 places (BYE_ORDER_MAP, create_draw_for_group).
NoEmptyBout ==
  \A g \in Chosen(Weights) :
    LET d == draw[g]
        count == Cardinality(Seated(d))
    IN  count >= 2 /\ d.size <= 64 /\ d.size = TableSize(NextPow2(count), count) =>
          \A k \in 1..Half(d.size) :
            {d.seats[2 * k - 1], d.seats[2 * k]} # {None}

\* A bout is numbered after the bouts its players come from, through every
\* redraw, clearing, renumbering and change of mats
\* (number_matches_for_competition).
FeedersFirst ==
  \A g \in Chosen(Weights) : \A b, c \in Numbered(draw[g]) :
    b[1] < c[1] => draw[g].number[b] < draw[g].number[c]

\* A draw has no numbers at all or one for each of its bouts, and its bouts are
\* never on two mats, through every call that numbers it again after its weight was
\* moved: the public table never shows a half-numbered or a divided draw.
AllOrNone ==
  \A g \in Chosen(Weights) :
    LET d == draw[g]
        real == {b \in Bouts(d.size) : ~IsBye(d, b)}
    IN  /\ Numbered(d) \in {{}, real}
        /\ \A b, c \in real : d.mat[b] = d.mat[c]

\* by_mat of KyorugiBracketSerializer: the bouts listed for a mat, by the mat they
\* were first given.
ListedOn(t) ==
  {x \in UNION {{g} \X Bouts(draw[g].size) : g \in Chosen(Weights)} :
     draw[x[1]].mat[x[2]] = t}

\* The draws listed on a mat that have been there before are those assigned to it
\* now: none was moved to it or away from it.
Settled(t) ==
  \A g \in Chosen(Weights) : \A b \in Bouts(draw[g].size) :
    draw[g].mat[b] # 0 => (draw[g].mat[b] = t <=> MatOf(g) = t)

\* One call over all drawn weights leaves every mat that is settled with a list
\* that counts from 1 on without a gap or a repetition, the finals last, whatever
\* calls, redraws and moves came before (number_matches_for_competition,
\* KyorugiBracketSerializer).
MatListInOrder ==
  [][draw' # draw /\ made' = made =>
     \A ws \in SUBSET Weights :
       NumberMatches(ws, TRUE) /\ Chosen(ws) = Chosen(Weights) =>
         \A t \in {u \in Mats : Settled(u)} :
           LET here == ListedOn(t)'
               No(x) == draw'[x[1]].number[x[2]]
           IN  /\ {No(x) : x \in here} = 1..Cardinality(here)
               /\ \A x, y \in here :
                    ~IsFinal(draw[x[1]], x[2]) /\ IsFinal(draw[y[1]], y[2])
                      => No(x) < No(y)]_vars

\* The bouts listed on a mat are numbered from 1 on without a gap or a repetition.
\* Does not hold: each call counts from 1 again, for the weights it is given, and a
\* bout stays on the list of the mat it was first given when its weight is moved
\* and numbered with another.
MatsContiguous ==
  \A t \in Mats :
    LET here == {x \in ListedOn(t) : draw[x[1]].number[x[2]] # 0}
    IN  {draw[x[1]].number[x[2]] : x \in here} = 1..Cardinality(here)

\* What the public page shows is fully numbered.  Does not hold: a table of
\* two players has only byes until its final is made by the numbering.
ShownFullyNumbered ==
  \A g \in Shown : \A b \in Bouts(draw[g].size) :
    IsBye(draw[g], b) \/ draw[g].number[b] # 0

-----------------------------------------------------------------------------
(* What the proofs add to make the properties inductive *)

\* Two draws never have the same id, which makes the order of bouts strict.
DistinctIds ==
  \A g, h \in Chosen(Weights) : draw[g].id = draw[h].id => g = h

\* The empty places of a table are the byes for the number of its players.
SeatsInv ==
  \A g \in Chosen(Weights) :
    LET d == draw[g]
        count == Cardinality(Seated(d))
    IN  /\ count \in 0..d.size
        /\ {s \in 1..d.size : d.seats[s] = None} = ByeSlots(d.size, count)

\* The bouts of a draw that was numbered are on one mat, the byes on none.
OneMat(d) ==
  \E t \in Mats \cup {0} : \A b \in Bouts(d.size) :
    d.mat[b] = IF Several(d) /\ ~IsBye(d, b) THEN t ELSE 0

MatsInv == \A g \in Chosen(Weights) : OneMat(draw[g])

=============================================================================
