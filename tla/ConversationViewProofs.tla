----------------------- MODULE ConversationViewProofs -----------------------
(***************************************************************************)
(* Proofs about the open conversation: the rows of the messages area       *)
(* (ConversationView) follow the array drawn last and stay deleted, and    *)
(* the message box (Composer) keeps what is typed and sends it once.  And  *)
(* about the calls placed from it (VoiceCalls): whoever has the microphone *)
(* on is in a call that was accepted.                                      *)
(***************************************************************************)
EXTENDS ConversationView, Composer, VoiceCalls, LeastElement, FiniteSetTheorems, SequenceTheorems, TLAPS

(* A bounded set of numbers has a greatest element, and Max picks it.       *)
LEMMA MaxIsMember ==
    ASSUME NEW n \in Nat, NEW S \in SUBSET (0 .. n), S # {}
    PROVE  Max(S) \in S /\ \A x \in S : x <= Max(S)
<1> DEFINE T == {n - x : x \in S}
<1>1. T \in SUBSET Nat /\ T # {}
  <2>1. \A x \in S : x \in Nat /\ x <= n
    OBVIOUS
  <2>2. \A x \in S : n - x \in Nat
    BY <2>1
  <2>3. T \in SUBSET Nat
    BY <2>2, Zenon
  <2>4. PICK x \in S : TRUE
    OBVIOUS
  <2>5. n - x \in T
    BY <2>4
  <2> QED
    BY <2>3, <2>5
<1> HIDE DEF T
<1>2. PICK t \in T : \A u \in T : t =< u
  BY <1>1, LeastExists
<1>3. PICK x \in S : t = n - x
  BY DEF T
<1>4. \A y \in S : x >= y
  <2> SUFFICES ASSUME NEW y \in S PROVE x >= y
    OBVIOUS
  <2>1. n - y \in T
    BY DEF T
  <2> QED  BY <1>2, <1>3, <2>1
<1>5. \E z \in S : \A y \in S : z >= y
  BY <1>4
<1>6. Max(S) \in S /\ \A y \in S : Max(S) >= y
  BY <1>5, Zenon DEF Max
<1> QED  BY <1>6

(* f lists the set S, from the least to the greatest.                       *)
Enumerates(f, S) ==
    /\ f \in [1 .. Cardinality(S) -> S]
    /\ \A i, k \in 1 .. Cardinality(S) : i < k => f[i] < f[k]

(* Every finite set of numbers can be listed from the least to the greatest: *)
(* of the subsets that cannot, take a smallest, and remove its greatest.    *)
LEMMA InOrderExists ==
    ASSUME NEW n \in Nat, NEW S \in SUBSET (0 .. n)
    PROVE  \E f : Enumerates(f, S)
<1> DEFINE Bad == {T \in SUBSET (0 .. n) : ~\E f : Enumerates(f, T)}
           Sizes == {Cardinality(T) : T \in Bad}
<1>1. ASSUME NEW T \in SUBSET (0 .. n) PROVE IsFiniteSet(T) /\ Cardinality(T) \in Nat
  <2>1. IsFiniteSet(0 .. n)
    BY FS_Interval
  <2>2. IsFiniteSet(T)
    BY <2>1, FS_Subset
  <2> QED  BY <2>2, FS_CardinalityType
<1>2. SUFFICES Bad = {}
  OBVIOUS
<1>3. SUFFICES ASSUME Bad # {} PROVE FALSE
  OBVIOUS
<1>4. Sizes \in SUBSET Nat /\ Sizes # {}
  BY <1>1, <1>3
<1> HIDE DEF Sizes
<1>5. PICK s \in Sizes : \A u \in Sizes : s =< u
  BY <1>4, LeastExists
<1>6. PICK T \in Bad : s = Cardinality(T)
  BY DEF Sizes
<1>7. T # {}
  <2>1. ASSUME T = {} PROVE Enumerates(<<>>, T)
    <3>1. Cardinality(T) = 0
      BY <2>1, FS_EmptySet
    <3>2. 1 .. Cardinality(T) = {} /\ <<>> \in [{} -> T]
      BY <3>1
    <3> QED  BY <3>2 DEF Enumerates
  <2> QED  BY <2>1
<1> DEFINE m == Max(T)
           R == T \ {m}
<1>8. m \in T /\ \A x \in T : x <= m
  BY <1>7, MaxIsMember
<1> HIDE DEF m
<1>9. R \in SUBSET (0 .. n) /\ Cardinality(R) = Cardinality(T) - 1
  BY <1>1, <1>8, FS_RemoveElement
<1>10. R \notin Bad
  <2>1. ASSUME R \in Bad PROVE Cardinality(R) \in Sizes
    BY <2>1 DEF Sizes
  <2> QED  BY <2>1, <1>1, <1>5, <1>6, <1>9
<1>11. PICK g : Enumerates(g, R)
  BY <1>9, <1>10
<1> DEFINE k == Cardinality(R)
           f == [i \in 1 .. k + 1 |-> IF i = k + 1 THEN m ELSE g[i]]
<1>12. k \in Nat /\ Cardinality(T) = k + 1
  BY <1>1, <1>9
<1>13. g \in [1 .. k -> R] /\ \A i, j \in 1 .. k : i < j => g[i] < g[j]
  BY <1>11 DEF Enumerates
<1> HIDE DEF k
<1>14. f \in [1 .. k + 1 -> T]
  BY <1>8, <1>12, <1>13
<1>15. ASSUME NEW i \in 1 .. k + 1, NEW j \in 1 .. k + 1, i < j PROVE f[i] < f[j]
  <2>1. CASE j = k + 1
    <3>1. i \in 1 .. k
      BY <2>1, <1>15, <1>12
    <3>2. f[i] = g[i] /\ f[j] = m /\ g[i] \in R
      BY <3>1, <2>1, <1>12, <1>13
    <3>3. g[i] <= m /\ g[i] # m /\ g[i] \in Nat /\ m \in Nat
      <4>1. g[i] \in T /\ g[i] # m
        BY <3>2
      <4>2. T \subseteq Nat
        BY DEF Bad
      <4> QED  BY <4>1, <4>2, <1>8
    <3> QED  BY <3>2, <3>3
  <2>2. CASE j # k + 1
    <3>1. i \in 1 .. k /\ j \in 1 .. k
      BY <2>2, <1>15, <1>12
    <3>2. f[i] = g[i] /\ f[j] = g[j]
      BY <3>1, <1>12
    <3> QED  BY <3>1, <3>2, <1>13, <1>15
  <2> QED  BY <2>1, <2>2
<1> HIDE DEF f
<1>16. Enumerates(f, T)
  BY <1>12, <1>14, <1>15 DEF Enumerates
<1> QED  BY <1>16

(* So InOrder is one to one into its set, and as long as the set is large.  *)
LEMMA InOrderIsOneToOne ==
    ASSUME NEW n \in Nat, NEW S \in SUBSET (0 .. n)
    PROVE  /\ Cardinality(S) \in Nat
           /\ InOrder(S) \in [1 .. Cardinality(S) -> S]
           /\ \A i, k \in 1 .. Cardinality(S) : i < k => InOrder(S)[i] < InOrder(S)[k]
           /\ \A i, k \in 1 .. Cardinality(S) : i # k => InOrder(S)[i] # InOrder(S)[k]
<1>1. Cardinality(S) \in Nat
  <2>1. IsFiniteSet(0 .. n)
    BY FS_Interval
  <2>2. IsFiniteSet(S)
    BY <2>1, FS_Subset
  <2> QED  BY <2>2, FS_CardinalityType
<1>2. \E f \in [1 .. Cardinality(S) -> S] :
         \A i, k \in 1 .. Cardinality(S) : i < k => f[i] < f[k]
  BY InOrderExists DEF Enumerates
<1>3. /\ InOrder(S) \in [1 .. Cardinality(S) -> S]
      /\ \A i, k \in 1 .. Cardinality(S) : i < k => InOrder(S)[i] < InOrder(S)[k]
  BY <1>2, Zenon DEF InOrder
<1> DEFINE f == InOrder(S)
<1>4. f \in [1 .. Cardinality(S) -> S] /\ \A i, k \in 1 .. Cardinality(S) : i < k => f[i] < f[k]
  BY <1>3
<1> HIDE DEF f
<1>5. ASSUME NEW i \in 1 .. Cardinality(S), NEW k \in 1 .. Cardinality(S), i # k
      PROVE  f[i] # f[k]
  <2>1. f[i] \in Nat /\ f[k] \in Nat
    <3>1. f[i] \in S /\ f[k] \in S
      BY <1>4
    <3>2. S \subseteq Nat
      OBVIOUS
    <3> QED  BY <3>1, <3>2
  <2>2. i < k \/ k < i
    BY <1>1, <1>5
  <2>3. f[i] < f[k] \/ f[k] < f[i]
    BY <2>2, <1>4
  <2> QED  BY <2>1, <2>3
<1>6. \A i, k \in 1 .. Cardinality(S) : i # k => InOrder(S)[i] # InOrder(S)[k]
  BY <1>5 DEF f
<1> QED  BY <1>1, <1>3, <1>6

(* In order, 1 .. n is itself: a number out of its place would push all the *)
(* later ones past n, or all the earlier ones below 1.                      *)
LEMMA InOrderOfInterval ==
    ASSUME NEW n \in Nat
    PROVE  InOrder(1 .. n) \in [1 .. n -> 1 .. n] /\ \A i \in 1 .. n : InOrder(1 .. n)[i] = i
<1> DEFINE f == InOrder(1 .. n)
<1>1. Cardinality(1 .. n) = n
  BY FS_Interval
<1>2. f \in [1 .. n -> 1 .. n] /\ \A i, k \in 1 .. n : i < k => f[i] < f[k]
  <2>1. 1 .. n \in SUBSET (0 .. n)
    OBVIOUS
  <2> QED  BY <1>1, <2>1, InOrderIsOneToOne
<1> HIDE DEF f
<1>3. ~\E i \in 1 .. n : f[i] < i
  <2> DEFINE Low == {i \in 1 .. n : f[i] < i}
  <2>1. SUFFICES ASSUME Low # {} PROVE FALSE
    OBVIOUS
  <2>2. Low \in SUBSET Nat
    OBVIOUS
  <2> HIDE DEF Low
  <2>3. PICK i \in Low : \A x \in Low : i =< x
    BY <2>1, <2>2, LeastExists
  <2>4. i \in 1 .. n /\ f[i] < i /\ f[i] \in 1 .. n
    BY <1>2 DEF Low
  <2>5. i - 1 \in 1 .. n /\ i - 1 < i
    BY <2>4
  <2>6. f[i - 1] < f[i] /\ f[i - 1] \in 1 .. n
    BY <1>2, <2>4, <2>5
  <2>7. f[i - 1] < i - 1
    BY <2>4, <2>5, <2>6
  <2>8. i - 1 \in Low
    BY <2>5, <2>7 DEF Low
  <2> QED  BY <2>3, <2>4, <2>8
<1>4. ~\E i \in 1 .. n : i < f[i]
  <2> DEFINE High == {i \in 1 .. n : i < f[i]}
             T == {n - i : i \in High}
  <2>1. SUFFICES ASSUME High # {} PROVE FALSE
    OBVIOUS
  <2>2. T \in SUBSET Nat /\ T # {}
    BY <2>1
  <2> HIDE DEF T
  <2>3. PICK t \in T : \A u \in T : t =< u
    BY <2>2, LeastExists
  <2>4. PICK i \in High : t = n - i
    BY DEF T
  <2>5. i \in 1 .. n /\ i < f[i] /\ f[i] \in 1 .. n
    BY <1>2
  <2>6. i + 1 \in 1 .. n /\ i < i + 1
    BY <2>5
  <2>7. f[i] < f[i + 1] /\ f[i + 1] \in 1 .. n
    BY <1>2, <2>5, <2>6
  <2>8. i + 1 \in High
    BY <2>5, <2>6, <2>7
  <2>9. n - (i + 1) \in T
    BY <2>8 DEF T
  <2>10. n - i =< n - (i + 1)
    BY <2>3, <2>4, <2>9
  <2> QED  BY <2>5, <2>10
<1>5. \A i \in 1 .. n : f[i] = i
  <2> SUFFICES ASSUME NEW i \in 1 .. n PROVE f[i] = i
    OBVIOUS
  <2>1. f[i] \in 1 .. n /\ ~(f[i] < i) /\ ~(i < f[i])
    BY <1>2, <1>3, <1>4
  <2> QED  BY <2>1
<1> QED  BY <1>2, <1>5 DEF f

(* What an array of state.messages holds, and a row of #messages-area.      *)
ListItem == [m : Messages, form : {"plain", "cipher", "spoilt"}, deleted : BOOLEAN]

Row == [no : Numbers, m : Messages, bubble : {"text", "media", "deleted", "input"},
        face : {"content", "waiting", "failed"},
        tags : [Reactors -> Glyphs \cup {None}], chips : [Glyphs -> Int]]

(* No number twice; a deletion leaves no reaction.                          *)
RowsAreApart ==
    /\ \A i, k \in DOMAIN area : area[i].no = area[k].no => i = k
    /\ \A i \in DOMAIN area :
           area[i].bubble = "deleted" => area[i].tags = NoTags /\ area[i].chips = NoChips

(* The node that existingNodes keeps for an id is a row with that id.       *)
LEMMA NodeOf ==
    ASSUME area \in Seq(Row), NEW m, Node(area, m) # {}
    PROVE  \E j \in DOMAIN area : area[j].m = m /\ Node(area, m) = {area[j]}
<1> DEFINE is == {i \in DOMAIN area : area[i].m = m}
<1>1. is # {} /\ Node(area, m) = {area[Max(is)]}
  BY DEF Node
<1>2. Len(area) \in Nat /\ is \in SUBSET (0 .. Len(area))
  OBVIOUS
<1> HIDE DEF is
<1>3. Max(is) \in is
  BY <1>1, <1>2, MaxIsMember
<1>4. Max(is) \in DOMAIN area /\ area[Max(is)].m = m
  BY <1>3 DEF is
<1> QED  BY <1>1, <1>4

(* The row of an item that has one is that row, perhaps marked deleted:     *)
(* renderMessages reuses it.                                                *)
LEMMA KnownRow ==
    ASSUME area \in Seq(Row), NEW items, NEW i \in DOMAIN items, i \notin Unknown(items)
    PROVE  \E j \in DOMAIN area : /\ area[j].m = items[i].m
                                  /\ Node(area, area[j].m) = {area[j]}
                                  /\ RowOf(items, i) \in {area[j], Deleted(area[j])}
<1>1. Node(area, items[i].m) # {}
  BY DEF Unknown
<1>2. PICK j \in DOMAIN area : area[j].m = items[i].m /\ Node(area, items[i].m) = {area[j]}
  BY <1>1, NodeOf
<1>3. (CHOOSE r \in {area[j]} : TRUE) = area[j]
  OBVIOUS
<1>4. RowOf(items, i) \in {area[j], Deleted(area[j])}
  BY <1>2, <1>3 DEF RowOf
<1> QED  BY <1>2, <1>4

(* Marking a row deleted changes what it shows, not which row it is.        *)
LEMMA DeletedRow ==
    ASSUME NEW r \in Row
    PROVE  /\ Deleted(r) \in Row /\ Deleted(r).no = r.no /\ Deleted(r).m = r.m
           /\ Deleted(r).bubble = "deleted" /\ Deleted(r).tags = NoTags /\ Deleted(r).chips = NoChips
<1>1. NoTags \in [Reactors -> Glyphs \cup {None}] /\ NoChips \in [Glyphs -> Int]
  BY DEF NoTags, NoChips
<1> QED  BY <1>1 DEF Row, Deleted

(* A new row is a row of its item, without reactions.                       *)
LEMMA NewRowType ==
    ASSUME NEW item \in ListItem, NEW no \in Numbers
    PROVE  /\ NewRow(no, item) \in Row /\ NewRow(no, item).no = no /\ NewRow(no, item).m = item.m
           /\ NewRow(no, item).tags = NoTags /\ NewRow(no, item).chips = NoChips
<1>1. NoTags \in [Reactors -> Glyphs \cup {None}] /\ NoChips \in [Glyphs -> Int]
  BY DEF NoTags, NoChips
<1>2. item.m \in Messages
  BY DEF ListItem
<1> QED  BY <1>1, <1>2 DEF Row, NewRow

(* New rows get numbers that are free, no number twice.                     *)
LEMMA NewNumbers ==
    ASSUME NEW items \in Seq(ListItem), Cardinality(Unknown(items)) <= Cardinality(Free)
    PROVE  /\ \A i \in Unknown(items) : NumberOf(items, i) \in Free
           /\ \A i, k \in Unknown(items) : NumberOf(items, i) = NumberOf(items, k) => i = k
<1> DEFINE U == Unknown(items)
           upTo(i) == {k \in U : k <= i}
<1>1. U \in SUBSET (0 .. Len(items)) /\ Len(items) \in Nat
  BY DEF Unknown
<1> HIDE DEF U
<1>2. IsFiniteSet(U) /\ Cardinality(U) \in Nat
  <2>1. IsFiniteSet(0 .. Len(items))
    BY <1>1, FS_Interval
  <2>2. IsFiniteSet(U)
    BY <1>1, <2>1, FS_Subset
  <2> QED  BY <2>2, FS_CardinalityType
<1>3. \A i : upTo(i) \subseteq U /\ IsFiniteSet(upTo(i))
             /\ Cardinality(upTo(i)) \in Nat /\ Cardinality(upTo(i)) <= Cardinality(U)
  <2> SUFFICES ASSUME NEW i PROVE /\ upTo(i) \in SUBSET U /\ IsFiniteSet(upTo(i))
                                  /\ Cardinality(upTo(i)) \in Nat
                                  /\ Cardinality(upTo(i)) <= Cardinality(U)
    OBVIOUS
  <2>1. upTo(i) \in SUBSET U
    OBVIOUS
  <2>2. IsFiniteSet(upTo(i)) /\ Cardinality(upTo(i)) <= Cardinality(U)
    BY <1>2, <2>1, FS_Subset
  <2> QED  BY <2>1, <2>2, FS_CardinalityType
<1>8. \A i : NumberOf(items, i) = InOrder(Free)[Cardinality(upTo(i))]
  BY DEF NumberOf, U
<1>u. \A i, k \in U : k \in upTo(i) <=> k <= i
  OBVIOUS
<1> HIDE DEF upTo
<1>4. ASSUME NEW i \in U PROVE Cardinality(upTo(i)) \in 1 .. Cardinality(U)
  <2>1. i \in upTo(i)
    BY <1>1, <1>u
  <2>2. Cardinality(upTo(i)) # 0
    BY <1>3, <2>1, FS_EmptySet
  <2> QED  BY <1>2, <1>3, <2>2
<1>5. ASSUME NEW i \in U, NEW k \in U, i < k
      PROVE  Cardinality(upTo(i)) < Cardinality(upTo(k))
  <2>1. upTo(i) \cup {k} \in SUBSET upTo(k) /\ k \notin upTo(i)
    <3>1. U \subseteq Nat
      BY <1>1
    <3>2. k \in upTo(k) /\ k \notin upTo(i)
      BY <1>5, <1>u, <3>1
    <3>3. ASSUME NEW x \in upTo(i) PROVE x \in upTo(k)
      <4>1. x \in U /\ x <= i
        BY <1>3, <1>u
      <4>2. x <= k
        BY <4>1, <3>1, <1>5
      <4> QED  BY <4>1, <4>2, <1>u
    <3> QED  BY <3>2, <3>3
  <2>2. Cardinality(upTo(i) \cup {k}) = Cardinality(upTo(i)) + 1
    BY <1>3, <2>1, FS_AddElement
  <2>3. IsFiniteSet(upTo(k))
    BY <1>3
  <2>4. Cardinality(upTo(i) \cup {k}) <= Cardinality(upTo(k))
    BY <2>1, <2>3, FS_Subset
  <2>5. Cardinality(upTo(i)) \in Nat /\ Cardinality(upTo(k)) \in Nat
    BY <1>3
  <2> QED  BY <2>2, <2>4, <2>5
<1>6. Free \in SUBSET (0 .. MaxRows)
  BY ViewAssumption DEF Free, Numbers
<1>7. /\ Cardinality(Free) \in Nat /\ InOrder(Free) \in [1 .. Cardinality(Free) -> Free]
      /\ \A i, k \in 1 .. Cardinality(Free) : i # k => InOrder(Free)[i] # InOrder(Free)[k]
  BY <1>6, ViewAssumption, InOrderIsOneToOne
<1>9. ASSUME NEW i \in U PROVE Cardinality(upTo(i)) \in 1 .. Cardinality(Free)
  BY <1>2, <1>4, <1>7 DEF U
<1>10. \A i \in U : NumberOf(items, i) \in Free
  BY <1>7, <1>8, <1>9
<1>11. ASSUME NEW i \in U, NEW k \in U, i # k PROVE NumberOf(items, i) # NumberOf(items, k)
  <2>1. i < k \/ k < i
    BY <1>1, <1>11
  <2>2. Cardinality(upTo(i)) # Cardinality(upTo(k))
    BY <2>1, <1>3, <1>5
  <2> QED  BY <2>2, <1>7, <1>8, <1>9
<1>12. \A i, k \in U : NumberOf(items, i) = NumberOf(items, k) => i = k
  BY <1>11
<1> QED  BY <1>10, <1>12 DEF U

(* What renderMessages leaves on the page.                                  *)
LEMMA Drawn ==
    ASSUME area \in Seq(Row), RowsAreApart, NEW items \in Seq(ListItem), NEW c, NEW number,
           active # None, RenderMessages(c, number, items)
    PROVE  /\ area' \in Seq(Row) /\ RowsAreApart'
           /\ \A k \in DOMAIN area' :
                 \/ area'[k].no \in Free
                 \/ \E j \in DOMAIN area : area'[k] \in {area[j], Deleted(area[j])}
           /\ (\A i, k \in DOMAIN items : items[i].m = items[k].m => i = k) =>
                 /\ Len(area') >= Len(items)
                 /\ \A i \in DOMAIN items : area'[i].m = items[i].m
<1> DEFINE P == {i \in DOMAIN items :
                    i \in Unknown(items) \/ \A k \in DOMAIN items : items[k].m = items[i].m => k <= i}
           R == {i \in DOMAIN area : area[i] \notin Node(area, area[i].m)}
           A == [n \in DOMAIN Places(items) |-> RowOf(items, Places(items)[n])]
           at == InOrder(R)
           B == [n \in DOMAIN at |-> area[at[n]]]
           p == Cardinality(P)
           q == Cardinality(R)
<1>1. area' = A \o B
  BY DEF RenderMessages, Leftover
<1>2. Cardinality(Unknown(items)) <= Cardinality(Free)
  BY DEF RenderMessages
<1>3. P \in SUBSET (0 .. Len(items)) /\ R \in SUBSET (0 .. Len(area))
      /\ Len(items) \in Nat /\ Len(area) \in Nat
  OBVIOUS
<1>4. Places(items) = InOrder(P)
  BY DEF Places
<1> DEFINE f == InOrder(P)
<1> HIDE DEF P, R
<1>5. /\ p \in Nat /\ f \in [1 .. p -> P]
      /\ \A i, k \in 1 .. p : i # k => f[i] # f[k]
  BY <1>3, InOrderIsOneToOne
<1>6. /\ q \in Nat /\ at \in [1 .. q -> R]
      /\ \A i, k \in 1 .. q : i # k => at[i] # at[k]
  BY <1>3, InOrderIsOneToOne
<1>7. A = [n \in 1 .. p |-> RowOf(items, f[n])] /\ B = [n \in 1 .. q |-> area[at[n]]]
  BY <1>4, <1>5, <1>6
<1> HIDE DEF f, at, p, q, A, B
<1>8. ASSUME NEW i \in P
      PROVE  \/ i \in Unknown(items) /\ RowOf(items, i) = NewRow(NumberOf(items, i), items[i])
                /\ NumberOf(items, i) \in Free
             \/ /\ i \notin Unknown(items)
                /\ \E j \in DOMAIN area : /\ area[j].m = items[i].m
                                          /\ Node(area, area[j].m) = {area[j]}
                                          /\ RowOf(items, i) \in {area[j], Deleted(area[j])}
  <2>1. i \in DOMAIN items
    BY DEF P
  <2>2. CASE i \in Unknown(items)
    BY <2>2, <1>2, NewNumbers DEF RowOf
  <2>3. CASE i \notin Unknown(items)
    BY <2>1, <2>3, KnownRow
  <2> QED  BY <2>2, <2>3
<1>9. Free \subseteq Numbers /\ \A j \in DOMAIN area : area[j].no \notin Free
  BY DEF Free, Range
<1>10. \A j \in DOMAIN area : area[j] \in Row
  OBVIOUS
<1>11. \A i \in P : items[i] \in ListItem
  BY DEF P
<1>12. ASSUME NEW i \in P
       PROVE  /\ RowOf(items, i) \in Row /\ RowOf(items, i).m = items[i].m
              /\ RowOf(items, i).bubble = "deleted" =>
                    RowOf(items, i).tags = NoTags /\ RowOf(items, i).chips = NoChips
  <2>1. CASE i \in Unknown(items)
    BY <2>1, <1>8, <1>9, <1>11, NewRowType
  <2>2. CASE i \notin Unknown(items)
    <3>1. PICK j \in DOMAIN area : /\ area[j].m = items[i].m
                                   /\ RowOf(items, i) \in {area[j], Deleted(area[j])}
      BY <2>2, <1>8
    <3> QED  BY <3>1, <1>10, DeletedRow DEF RowsAreApart
  <2> QED  BY <2>1, <2>2
<1>13. A \in Seq(Row) /\ Len(A) = p
  BY <1>5, <1>7, <1>12
<1>14. \A n \in 1 .. q : B[n] = area[at[n]] /\ at[n] \in R /\ at[n] \in DOMAIN area
  BY <1>6, <1>7 DEF R
<1>15. B \in Seq(Row) /\ Len(B) = q
  BY <1>6, <1>7, <1>10, <1>14
<1>16. /\ area' \in Seq(Row) /\ DOMAIN area' = 1 .. p + q /\ Len(area') = p + q
       /\ \A n \in 1 .. p : area'[n] = RowOf(items, f[n]) /\ f[n] \in P
       /\ \A n \in p + 1 .. p + q : area'[n] = area[at[n - p]] /\ n - p \in 1 .. q
                                    /\ at[n - p] \in R /\ at[n - p] \in DOMAIN area
  <2>1. area' \in Seq(Row) /\ Len(area') = p + q
    <3>1. A \o B \in Seq(Row) /\ Len(A \o B) = Len(A) + Len(B)
      BY <1>13, <1>15, ConcatProperties
    <3> QED  BY <3>1, <1>1, <1>13, <1>15
  <2>2. DOMAIN area' = 1 .. p + q
    BY <2>1
  <2>3. \A n \in 1 .. p : area'[n] = A[n]
    BY <1>1, <1>5, <1>6, <1>13, <1>15
  <2>4. \A n \in 1 .. p : A[n] = RowOf(items, f[n]) /\ f[n] \in P
    BY <1>5, <1>7
  <2>5. ASSUME NEW n \in p + 1 .. p + q PROVE area'[n] = B[n - p] /\ n - p \in 1 .. q
    <3>1. n - p \in 1 .. q /\ n \in Nat /\ n > p /\ n <= p + q
      BY <1>5, <1>6
    <3>2. n \in Len(A) + 1 .. Len(A) + Len(B)
      BY <1>13, <1>15
    <3>3. (A \o B)[n] = B[n - Len(A)]
      BY <3>2, <1>13, <1>15, <1>5, <1>6
    <3> QED  BY <3>1, <3>3, <1>1, <1>13
  <2> QED  BY <2>1, <2>2, <2>3, <2>4, <2>5, <1>14
<1>17. \A k \in DOMAIN area' :
          \/ area'[k].no \in Free
          \/ \E j \in DOMAIN area : area'[k] \in {area[j], Deleted(area[j])}
  <2> SUFFICES ASSUME NEW k \in DOMAIN area'
               PROVE  \/ area'[k].no \in Free
                      \/ \E j \in DOMAIN area : area'[k] \in {area[j], Deleted(area[j])}
    OBVIOUS
  <2>1. CASE k \in 1 .. p
    <3>1. area'[k] = RowOf(items, f[k]) /\ f[k] \in P
      BY <2>1, <1>16
    <3>2. CASE f[k] \in Unknown(items)
      BY <3>1, <3>2, <1>8, <1>9, <1>11, NewRowType
    <3>3. CASE f[k] \notin Unknown(items)
      BY <3>1, <3>3, <1>8
    <3> QED  BY <3>2, <3>3
  <2>2. CASE k \in p + 1 .. p + q
    BY <2>2, <1>16
  <2> QED  BY <2>1, <2>2, <1>5, <1>6, <1>16

<1>18. ASSUME NEW n \in 1 .. p, f[n] \in Unknown(items)
       PROVE  area'[n].no = NumberOf(items, f[n]) /\ area'[n].no \in Free
  BY <1>8, <1>9, <1>11, <1>16, <1>18, NewRowType
<1>19. ASSUME NEW n \in 1 .. p, f[n] \notin Unknown(items)
       PROVE  \E j \in DOMAIN area : /\ area[j].m = items[f[n]].m
                                     /\ Node(area, area[j].m) = {area[j]}
                                     /\ area'[n].no = area[j].no
  <2>1. PICK j \in DOMAIN area : /\ area[j].m = items[f[n]].m
                                 /\ Node(area, area[j].m) = {area[j]}
                                 /\ RowOf(items, f[n]) \in {area[j], Deleted(area[j])}
    BY <1>8, <1>16, <1>19
  <2>2. area'[n].no = area[j].no
    BY <2>1, <1>10, <1>16, DeletedRow
  <2> QED  BY <2>1, <2>2
<1>20. ASSUME NEW i \in DOMAIN area', NEW k \in DOMAIN area', area'[i].no = area'[k].no
       PROVE  i = k
  <2>1. ASSUME NEW x \in 1 .. p, NEW y \in 1 .. p, area'[x].no = area'[y].no PROVE x = y
    <3>1. f[x] \in P /\ f[y] \in P /\ (f[x] = f[y] => x = y)
      BY <1>5
    <3>2. CASE f[x] \in Unknown(items)
      <4>1. f[y] \in Unknown(items)
        BY <2>1, <3>2, <1>9, <1>18, <1>19
      <4> QED  BY <2>1, <3>1, <3>2, <4>1, <1>2, <1>18, NewNumbers
    <3>3. CASE f[y] \in Unknown(items)
      <4>1. f[x] \in Unknown(items)
        BY <2>1, <3>3, <1>9, <1>18, <1>19
      <4> QED  BY <3>2, <4>1
    <3>4. CASE f[x] \notin Unknown(items) /\ f[y] \notin Unknown(items)
      <4>1. PICK j \in DOMAIN area : area[j].m = items[f[x]].m /\ area'[x].no = area[j].no
        BY <3>4, <1>19
      <4>2. PICK l \in DOMAIN area : area[l].m = items[f[y]].m /\ area'[y].no = area[l].no
        BY <3>4, <1>19
      <4>3. j = l
        BY <4>1, <4>2, <2>1 DEF RowsAreApart
      <4>4. items[f[x]].m = items[f[y]].m
        BY <4>1, <4>2, <4>3
      <4>5. f[x] <= f[y] /\ f[y] <= f[x] /\ f[x] \in Nat /\ f[y] \in Nat
        BY <3>1, <3>4, <4>4 DEF P
      <4>6. f[x] = f[y]
        BY <4>5
      <4> QED  BY <3>1, <4>6
    <3> QED  BY <3>2, <3>3, <3>4
  <2>2. ASSUME NEW x \in 1 .. p, NEW y \in p + 1 .. p + q PROVE area'[x].no # area'[y].no
    <3>1. area'[y] = area[at[y - p]] /\ at[y - p] \in R /\ at[y - p] \in DOMAIN area
      BY <1>16
    <3>2. CASE f[x] \in Unknown(items)
      BY <3>1, <3>2, <1>9, <1>18
    <3>3. CASE f[x] \notin Unknown(items)
      <4>1. PICK j \in DOMAIN area : Node(area, area[j].m) = {area[j]} /\ area'[x].no = area[j].no
        BY <3>3, <1>19
      <4>2. j \notin R
        BY <4>1 DEF R
      <4> QED  BY <3>1, <4>1, <4>2 DEF RowsAreApart
    <3> QED  BY <3>2, <3>3
  <2>3. ASSUME NEW x \in p + 1 .. p + q, NEW y \in p + 1 .. p + q, area'[x].no = area'[y].no
        PROVE  x = y
    <3>1. at[x - p] = at[y - p]
      BY <2>3, <1>16 DEF RowsAreApart
    <3>2. x - p = y - p
      BY <3>1, <1>6, <1>16
    <3> QED  BY <3>2, <1>5, <1>6
  <2>4. i \in 1 .. p \/ i \in p + 1 .. p + q
    BY <1>5, <1>6, <1>16
  <2>5. k \in 1 .. p \/ k \in p + 1 .. p + q
    BY <1>5, <1>6, <1>16
  <2> QED  BY <1>20, <2>1, <2>2, <2>3, <2>4, <2>5
<1>21. ASSUME NEW k \in DOMAIN area', area'[k].bubble = "deleted"
       PROVE  area'[k].tags = NoTags /\ area'[k].chips = NoChips
  <2>1. CASE k \in 1 .. p
    BY <1>12, <1>16, <1>21, <2>1
  <2>2. CASE k \in p + 1 .. p + q
    BY <1>16, <1>21, <2>2 DEF RowsAreApart
  <2> QED  BY <2>1, <2>2, <1>5, <1>6, <1>16
<1>22. ASSUME \A i, k \in DOMAIN items : items[i].m = items[k].m => i = k
       PROVE  Len(area') >= Len(items) /\ \A i \in DOMAIN items : area'[i].m = items[i].m
  <2>1. P = 1 .. Len(items)
    <3>1. \A i \in DOMAIN items : \A k \in DOMAIN items : items[k].m = items[i].m => k <= i
      BY <1>22, <1>3
    <3>2. P = DOMAIN items
      BY <3>1 DEF P
    <3> QED  BY <3>2, <1>3
  <2>2. p = Len(items)
    <3>1. Cardinality(1 .. Len(items)) = Len(items)
      <4>1. \A n \in Nat : Cardinality(1 .. n) = n
        BY FS_Interval
      <4> QED  BY <4>1, <1>3
    <3> QED  BY <2>1, <3>1 DEF p
  <2>3. \A i \in 1 .. Len(items) : f[i] = i
    BY <2>1, <1>3, InOrderOfInterval DEF f
  <2>4. \A i \in 1 .. Len(items) : area'[i].m = items[i].m
    BY <2>1, <2>2, <2>3, <1>12, <1>16
  <2> QED  BY <2>2, <2>4, <1>3, <1>6, <1>16
<1>23. RowsAreApart'
  BY <1>20, <1>21 DEF RowsAreApart, NoTags, NoChips
<1> QED  BY <1>16, <1>17, <1>22, <1>23

(* A request of loadMessages.                                               *)
Load == [chat : Chats \cup {None}, step : {"idle", "asked", "answered"}, answer : Seq(ListItem)]

(* The types, and that every number of an array that is kept somewhere is   *)
(* one of an array that exists.                                             *)
ViewTypeOK ==
    /\ sent \in [Chats -> Seq(Messages)]
    /\ active \in Chats \cup {None}
    /\ arrays \in [Chats -> Seq(Seq(ListItem))]
    /\ current \in [Chats -> Nat] /\ \A c \in Chats : current[c] <= Len(arrays[c])
    /\ area \in Seq(Row)
    /\ drawn # NoArray => drawn.chat \in Chats /\ drawn.number \in 1 .. Len(arrays[drawn.chat])
    /\ \A h \in handlers : /\ h.m \in Messages /\ h.number \in 0 .. Len(arrays[ChatOf[h.m]])
                           /\ h.kind = "edit" => h.number # 0
    /\ loads \in [Loads -> Load] /\ \A l \in Loads : loads[l].step # "idle" => loads[l].chat \in Chats
    /\ deleting \subseteq Messages

(* What is on the page follows from the array drawn last, and nothing is    *)
(* drawn without a pane.                                                    *)
ListIsDrawn == (active = None => drawn = NoArray) /\ RowsFollowTheList

ViewInv == ViewTypeOK /\ RowsAreApart /\ ListIsDrawn

(* The step that DeletedStaysDeleted asks of each action.                   *)
StaysDeleted ==
    \A i \in DOMAIN area, k \in DOMAIN area' :
        area[i].no = area'[k].no /\ area[i].m = area'[k].m /\ area[i].bubble = "deleted"
            => area'[k] = area[i]

(* The rows are left alone.                                                 *)
LEMMA RowsKept ==
    ASSUME ViewInv, UNCHANGED <<arrays, active, area, drawn>>
    PROVE  RowsAreApart' /\ ListIsDrawn' /\ StaysDeleted
BY DEF ViewInv, RowsAreApart, ListIsDrawn, RowsFollowTheList, StaysDeleted, NoTags, NoChips, NoArray

(* Rows change, in their places, but none that says deleted.                *)
LEMMA RowsWritten ==
    ASSUME ViewInv, UNCHANGED <<arrays, active, drawn>>, area' \in Seq(Row), Len(area') = Len(area),
           \A i \in DOMAIN area :
               /\ area'[i].no = area[i].no /\ area'[i].m = area[i].m
               /\ area[i].bubble = "deleted" \/ area'[i].bubble = "deleted" => area'[i] = area[i]
    PROVE  RowsAreApart' /\ ListIsDrawn' /\ StaysDeleted
<1>1. DOMAIN area' = DOMAIN area
  BY DEF ViewInv, ViewTypeOK
<1>2. RowsAreApart'
  BY <1>1 DEF ViewInv, RowsAreApart, NoTags, NoChips
<1>3. StaysDeleted
  BY <1>1 DEF ViewInv, RowsAreApart, StaysDeleted
<1>4. ListIsDrawn'
  <2>1. CASE drawn = NoArray
    BY <2>1 DEF ViewInv, ListIsDrawn, RowsFollowTheList, NoArray
  <2>2. CASE drawn # NoArray
    <3> DEFINE items == arrays[drawn.chat][drawn.number]
    <3>1. items \in Seq(ListItem)
      BY <2>2 DEF ViewInv, ViewTypeOK
    <3>2. \/ \E i, k \in DOMAIN items : i # k /\ items[i].m = items[k].m
          \/ /\ Len(area) >= Len(items)
             /\ \A i \in DOMAIN items : area[i].m = items[i].m
      BY <2>2 DEF ViewInv, ListIsDrawn, RowsFollowTheList
    <3> HIDE DEF items
    <3>3. \/ \E i, k \in DOMAIN items : i # k /\ items[i].m = items[k].m
          \/ /\ Len(area') >= Len(items)
             /\ \A i \in DOMAIN items : area'[i].m = items[i].m
      <4>1. Len(items) \in Nat /\ Len(area) \in Nat /\ DOMAIN items = 1 .. Len(items)
            /\ DOMAIN area = 1 .. Len(area)
        BY <3>1 DEF ViewInv, ViewTypeOK
      <4> QED  BY <3>2, <4>1
    <3>4. arrays'[drawn'.chat][drawn'.number] = items
      BY DEF items
    <3>5. RowsFollowTheList'
      BY <3>3, <3>4 DEF RowsFollowTheList
    <3> QED  BY <3>5, <2>2 DEF ViewInv, ListIsDrawn
  <2> QED  BY <2>1, <2>2
<1> QED  BY <1>2, <1>3, <1>4

(* An array changes, and is drawn if there is an area to draw it in.        *)
LEMMA RedrawStep ==
    ASSUME ViewInv, NEW c \in Chats, NEW number \in 1 .. Len(arrays[c]) + 1,
           NEW items \in Seq(ListItem), NEW becomes \in BOOLEAN,
           Redraw(c, number, items, becomes), active' = active
    PROVE  /\ arrays' \in [Chats -> Seq(Seq(ListItem))]
           /\ \A x \in Chats : Len(arrays'[x]) >= Len(arrays[x])
           /\ current' \in [Chats -> Nat] /\ \A x \in Chats : current'[x] <= Len(arrays'[x])
           /\ area' \in Seq(Row)
           /\ drawn' # NoArray => drawn'.chat \in Chats /\ drawn'.number \in 1 .. Len(arrays'[drawn'.chat])
           /\ RowsAreApart' /\ ListIsDrawn' /\ StaysDeleted
<1> USE ViewAssumption
<1>1. arrays[c] \in Seq(Seq(ListItem)) /\ Len(arrays[c]) \in Nat
  BY DEF ViewInv, ViewTypeOK
<1>2. PICK mine : mine = IF number > Len(arrays[c]) THEN Append(arrays[c], items)
                         ELSE [arrays[c] EXCEPT ![number] = items]
  OBVIOUS
<1>3. /\ mine \in Seq(Seq(ListItem)) /\ mine[number] = items
      /\ Len(mine) >= Len(arrays[c]) /\ number \in 1 .. Len(mine)
  <2>1. CASE number > Len(arrays[c])
    <3>1. number = Len(arrays[c]) + 1 /\ mine = Append(arrays[c], items)
      BY <2>1, <1>1, <1>2
    <3> QED  BY <3>1, <1>1
  <2>2. CASE ~(number > Len(arrays[c]))
    <3>1. number \in 1 .. Len(arrays[c]) /\ mine = [arrays[c] EXCEPT ![number] = items]
      BY <2>2, <1>1, <1>2
    <3> QED  BY <3>1, <1>1
  <2> QED  BY <2>1, <2>2
<1>4. arrays' = [arrays EXCEPT ![c] = mine]
  BY <1>2 DEF Redraw
<1>5. arrays' \in [Chats -> Seq(Seq(ListItem))] /\ arrays'[c] = mine
      /\ \A x \in Chats : x # c => arrays'[x] = arrays[x]
  BY <1>3, <1>4 DEF ViewInv, ViewTypeOK
<1>6. \A x \in Chats : Len(arrays'[x]) \in Nat /\ Len(arrays[x]) \in Nat /\ Len(arrays'[x]) >= Len(arrays[x])
  <2> SUFFICES ASSUME NEW x \in Chats
               PROVE Len(arrays'[x]) \in Nat /\ Len(arrays[x]) \in Nat /\ Len(arrays'[x]) >= Len(arrays[x])
    OBVIOUS
  <2>1. arrays[x] \in Seq(Seq(ListItem)) /\ arrays'[x] \in Seq(Seq(ListItem))
    BY <1>5 DEF ViewInv, ViewTypeOK
  <2>2. CASE x = c
    BY <2>1, <2>2, <1>3, <1>5
  <2>3. CASE x # c
    BY <2>1, <2>3, <1>5
  <2> QED  BY <2>2, <2>3
<1>7. current' \in [Chats -> Nat] /\ \A x \in Chats : current'[x] <= Len(arrays'[x])
  <2>1. current \in [Chats -> Nat] /\ \A x \in Chats : current[x] <= Len(arrays[x])
    BY DEF ViewInv, ViewTypeOK
  <2>2. number \in Nat /\ number <= Len(arrays'[c])
    BY <1>3, <1>5
  <2>3. current' = current \/ current' = [current EXCEPT ![c] = number]
    BY DEF Redraw
  <2>4. current' \in [Chats -> Nat]
    BY <2>1, <2>2, <2>3
  <2>5. ASSUME NEW x \in Chats PROVE current'[x] <= Len(arrays'[x])
    <3>1. CASE current'[x] = current[x]
      <4>1. current[x] \in Nat /\ current[x] <= Len(arrays[x])
        BY <2>1
      <4> QED  BY <3>1, <4>1, <1>6
    <3>2. CASE current'[x] # current[x]
      <4>1. x = c /\ current'[x] = number
        BY <2>1, <2>3, <3>2
      <4> QED  BY <4>1, <2>2
    <3> QED  BY <3>1, <3>2
  <2> QED  BY <2>4, <2>5
<1>8. CASE active = None
  <2>1. UNCHANGED <<area, drawn, active>> /\ drawn = NoArray
    BY <1>8 DEF Redraw, RenderMessages, ViewInv, ListIsDrawn
  <2>2. RowsAreApart' /\ StaysDeleted
    BY <2>1 DEF ViewInv, RowsAreApart, StaysDeleted, NoTags, NoChips
  <2>3. drawn' = NoArray' /\ NoArray' = NoArray
    BY <2>1 DEF NoArray
  <2>4. ListIsDrawn'
    BY <2>3 DEF ListIsDrawn, RowsFollowTheList
  <2> QED  BY <2>1, <2>2, <2>3, <2>4, <1>5, <1>6, <1>7 DEF ViewInv, ViewTypeOK
<1>9. CASE active # None
  <2>1. RenderMessages(c, number, items)
    BY DEF Redraw
  <2>2. /\ area' \in Seq(Row) /\ RowsAreApart'
        /\ \A k \in DOMAIN area' :
                 \/ area'[k].no \in Free
                 \/ \E j \in DOMAIN area : area'[k] \in {area[j], Deleted(area[j])}
        /\ (\A i, k \in DOMAIN items : items[i].m = items[k].m => i = k) =>
                 /\ Len(area') >= Len(items)
                 /\ \A i \in DOMAIN items : area'[i].m = items[i].m
    BY <1>9, <2>1, Drawn DEF ViewInv, ViewTypeOK
  <2>3. drawn' = [chat |-> c, number |-> number]
    BY <1>9, <2>1 DEF RenderMessages
  <2>4. drawn'.chat = c /\ drawn'.number = number
    BY <2>3
  <2>5. arrays'[drawn'.chat][drawn'.number] = items
    BY <2>4, <1>3, <1>5
  <2>6. ListIsDrawn'
    BY <2>2, <2>5, <1>9 DEF ListIsDrawn, RowsFollowTheList
  <2>7. StaysDeleted
    <3> SUFFICES ASSUME NEW i \in DOMAIN area, NEW k \in DOMAIN area',
                        area[i].no = area'[k].no, area[i].bubble = "deleted"
                 PROVE  area'[k] = area[i]
      BY DEF StaysDeleted
    <3>1. area[i] \in Row /\ \A j \in DOMAIN area : area[j] \in Row
      BY DEF ViewInv, ViewTypeOK
    <3>2. area'[k].no \notin Free
      BY DEF Free, Range
    <3>3. PICK j \in DOMAIN area : area'[k] \in {area[j], Deleted(area[j])}
      BY <2>2, <3>2
    <3>4. j = i
      BY <3>1, <3>3, DeletedRow DEF ViewInv, RowsAreApart
    <3>5. area[i].tags = NoTags /\ area[i].chips = NoChips
      BY DEF ViewInv, RowsAreApart
    <3>6. Deleted(area[i]) = area[i]
      BY <3>1, <3>5 DEF Deleted, Row
    <3> QED  BY <3>3, <3>4, <3>6
  <2> QED  BY <2>2, <2>4, <2>6, <2>7, <1>3, <1>5, <1>6, <1>7
<1> QED  BY <1>8, <1>9

(* Writing one item of a list keeps it one.                                 *)
LEMMA ItemWritten ==
    ASSUME NEW items \in Seq(ListItem), NEW i
    PROVE  /\ [items EXCEPT ![i].deleted = TRUE] \in Seq(ListItem)
           /\ [items EXCEPT ![i].form = IF @ = "plain" THEN "plain" ELSE "spoilt"] \in Seq(ListItem)
<1>1. CASE i \in DOMAIN items
  <2>1. items[i] \in ListItem
    BY <1>1
  <2>2. /\ [items[i] EXCEPT !.deleted = TRUE] \in ListItem
        /\ [items[i] EXCEPT !.form = IF @ = "plain" THEN "plain" ELSE "spoilt"] \in ListItem
    BY <2>1 DEF ListItem
  <2> QED  BY <1>1, <2>2
<1>2. CASE i \notin DOMAIN items
  <2>1. \A e : [items EXCEPT ![i] = e] = items
    BY <1>2
  <2> QED  BY <2>1
<1> QED  BY <1>1, <1>2

(* A message that is heard or sent is listed at the end.                    *)
LEMMA ItemListed ==
    ASSUME NEW items \in Seq(ListItem), NEW m \in Messages
    PROVE  Append(items, Item(m, "plain")) \in Seq(ListItem)
<1>1. Item(m, "plain") \in ListItem
  BY DEF Item, ListItem
<1> QED  BY <1>1

(* Redraw keeps the invariant, whatever requests and events are done with.  *)
LEMMA RedrawInv ==
    ASSUME ViewInv, NEW c \in Chats, NEW number \in 1 .. Len(arrays[c]) + 1,
           NEW items \in Seq(ListItem), NEW becomes \in BOOLEAN,
           Redraw(c, number, items, becomes), UNCHANGED <<active, sent>>,
           handlers' \subseteq handlers, deleting' \subseteq deleting,
           loads' \in [Loads -> Load],
           \A l \in Loads : loads'[l].step # "idle" => loads'[l].chat \in Chats
    PROVE  ViewInv' /\ StaysDeleted
<1>1. /\ arrays' \in [Chats -> Seq(Seq(ListItem))]
      /\ \A x \in Chats : Len(arrays'[x]) >= Len(arrays[x])
      /\ current' \in [Chats -> Nat] /\ \A x \in Chats : current'[x] <= Len(arrays'[x])
      /\ area' \in Seq(Row)
      /\ drawn' # NoArray => drawn'.chat \in Chats /\ drawn'.number \in 1 .. Len(arrays'[drawn'.chat])
      /\ RowsAreApart' /\ ListIsDrawn' /\ StaysDeleted
  BY RedrawStep
<1>2. ASSUME NEW h \in handlers'
      PROVE  /\ h.m \in Messages /\ h.number \in 0 .. Len(arrays'[ChatOf[h.m]])
             /\ h.kind = "edit" => h.number # 0
  <2>1. /\ h.m \in Messages /\ h.number \in 0 .. Len(arrays[ChatOf[h.m]])
        /\ h.kind = "edit" => h.number # 0
    BY DEF ViewInv, ViewTypeOK
  <2>2. ChatOf[h.m] \in Chats
    BY <2>1, ViewAssumption
  <2>3. Len(arrays[ChatOf[h.m]]) \in Nat /\ Len(arrays'[ChatOf[h.m]]) \in Nat
        /\ Len(arrays'[ChatOf[h.m]]) >= Len(arrays[ChatOf[h.m]])
    <3>1. arrays[ChatOf[h.m]] \in Seq(Seq(ListItem)) /\ arrays'[ChatOf[h.m]] \in Seq(Seq(ListItem))
      BY <1>1, <2>2 DEF ViewInv, ViewTypeOK
    <3> QED  BY <3>1, <2>2, <1>1
  <2> QED  BY <2>1, <2>3
<1>3. NoArray' = NoArray
  BY DEF NoArray
<1>4. /\ sent' \in [Chats -> Seq(Messages)] /\ active' \in Chats \cup {None}
      /\ deleting' \subseteq Messages
  BY DEF ViewInv, ViewTypeOK
<1>5. ViewTypeOK'
  BY <1>1, <1>2, <1>3, <1>4 DEF ViewTypeOK
<1> QED  BY <1>1, <1>5 DEF ViewInv

(* So does message_delete, for a message that is listed or not.             *)
LEMMA MarkDeletedInv ==
    ASSUME ViewInv, NEW m \in Messages, MarkDeleted(m), UNCHANGED <<active, sent, handlers, loads>>,
           deleting' \subseteq deleting
    PROVE  ViewInv' /\ StaysDeleted
<1>1. ChatOf[m] \in Chats
  BY ViewAssumption
<1>2. CASE Listed(m)
  <2> DEFINE c == ChatOf[m]
             items == arrays[c][current[c]]
  <2>1. current[c] \in 1 .. Len(arrays[c]) /\ current[c] \in 1 .. Len(arrays[c]) + 1
        /\ arrays[c] \in Seq(Seq(ListItem))
    <3>1. current[c] \in Nat /\ current[c] # 0 /\ current[c] <= Len(arrays[c])
          /\ arrays[c] \in Seq(Seq(ListItem))
      BY <1>1, <1>2 DEF Listed, ViewInv, ViewTypeOK
    <3> QED  BY <3>1
  <2>2. items \in Seq(ListItem)
    BY <2>1
  <2>3. [items EXCEPT ![Find(items, m)].deleted = TRUE] \in Seq(ListItem)
    BY <2>2, ItemWritten
  <2>4. Redraw(c, current[c], [items EXCEPT ![Find(items, m)].deleted = TRUE], FALSE)
    BY <1>2 DEF MarkDeleted
  <2>5. loads' \in [Loads -> Load] /\ \A l \in Loads : loads'[l].step # "idle" => loads'[l].chat \in Chats
    BY DEF ViewInv, ViewTypeOK
  <2> HIDE DEF items, c
  <2>6. c \in Chats
    BY <1>1 DEF c
  <2> QED  BY <2>1, <2>3, <2>4, <2>5, <2>6, RedrawInv
<1>3. CASE ~Listed(m)
  <2>1. UNCHANGED <<arrays, current, area, drawn>>
    BY <1>3 DEF MarkDeleted
  <2>2. RowsAreApart' /\ ListIsDrawn' /\ StaysDeleted
    BY <2>1, RowsKept
  <2>3. ViewTypeOK'
    BY <2>1 DEF ViewInv, ViewTypeOK, NoArray
  <2> QED  BY <2>2, <2>3 DEF ViewInv
<1> QED  BY <1>2, <1>3

(* A reaction changes a row's tags and chips only (updateReactionUI).       *)
LEMMA TaggedRow ==
    ASSUME NEW r \in Row, NEW u \in Reactors, NEW g \in Glyphs \cup {None}
    PROVE  /\ Tagged(r, u, g) \in Row /\ Tagged(r, u, g).no = r.no
           /\ Tagged(r, u, g).m = r.m /\ Tagged(r, u, g).bubble = r.bubble
<1>1. Untagged(r, u) \in Row /\ Untagged(r, u).no = r.no /\ Untagged(r, u).m = r.m
      /\ Untagged(r, u).bubble = r.bubble
  <2>1. CASE r.tags[u] = None
    BY <2>1 DEF Untagged
  <2>2. CASE r.tags[u] # None
    <3>1. r.tags[u] \in Glyphs /\ r.chips[r.tags[u]] \in Int
      BY <2>2 DEF Row
    <3>2. Untagged(r, u) = [r EXCEPT !.tags[u] = None, !.chips[r.tags[u]] = @ - 1]
      BY <2>2 DEF Untagged
    <3>3. [r.tags EXCEPT ![u] = None] \in [Reactors -> Glyphs \cup {None}]
          /\ [r.chips EXCEPT ![r.tags[u]] = @ - 1] \in [Glyphs -> Int]
      BY <3>1 DEF Row
    <3> QED  BY <3>2, <3>3 DEF Row
  <2> QED  BY <2>1, <2>2
<1>2. CASE g = None
  BY <1>1, <1>2 DEF Tagged
<1>3. CASE g # None
  <2>1. Tagged(r, u, g) = [Untagged(r, u) EXCEPT !.tags[u] = g, !.chips[g] = @ + 1]
    BY <1>3 DEF Tagged
  <2>2. PICK q \in Row : q = Untagged(r, u)
    BY <1>1
  <2>3. [q.tags EXCEPT ![u] = g] \in [Reactors -> Glyphs \cup {None}]
        /\ [q.chips EXCEPT ![g] = @ + 1] \in [Glyphs -> Int]
    BY <1>3 DEF Row
  <2>4. Tagged(r, u, g) = [q EXCEPT !.tags[u] = g, !.chips[g] = @ + 1]
    BY <2>1, <2>2
  <2>5. q.no = r.no /\ q.m = r.m /\ q.bubble = r.bubble
    BY <1>1, <2>2
  <2> QED  BY <2>3, <2>4, <2>5 DEF Row
<1> QED  BY <1>2, <1>3

(* The type of what is not on the page, when the lists are left alone.      *)
LEMMA TypeKept ==
    ASSUME ViewInv, UNCHANGED <<arrays, current, active, drawn>>, area' \in Seq(Row),
           sent' \in [Chats -> Seq(Messages)],
           \A h \in handlers' \ handlers :
               /\ h.m \in Messages /\ h.number = current[ChatOf[h.m]]
               /\ h.kind = "edit" => h.number # 0,
           loads' \in [Loads -> Load],
           \A l \in Loads : loads'[l].step # "idle" => loads'[l].chat \in Chats,
           deleting' \subseteq Messages
    PROVE  ViewTypeOK'
<1>1. ASSUME NEW h \in handlers'
      PROVE  /\ h.m \in Messages /\ h.number \in 0 .. Len(arrays[ChatOf[h.m]])
             /\ h.kind = "edit" => h.number # 0
  <2>1. CASE h \in handlers
    BY <2>1 DEF ViewInv, ViewTypeOK
  <2>2. CASE h \notin handlers
    <3>1. h.m \in Messages /\ h.number = current[ChatOf[h.m]] /\ (h.kind = "edit" => h.number # 0)
          /\ ChatOf[h.m] \in Chats
      BY <2>2, ViewAssumption
    <3>2. current[ChatOf[h.m]] \in Nat /\ current[ChatOf[h.m]] <= Len(arrays[ChatOf[h.m]])
          /\ arrays[ChatOf[h.m]] \in Seq(Seq(ListItem))
      BY <3>1 DEF ViewInv, ViewTypeOK
    <3>3. Len(arrays[ChatOf[h.m]]) \in Nat
      BY <3>2
    <3> QED  BY <3>1, <3>2, <3>3
  <2> QED  BY <2>1, <2>2
<1> QED  BY <1>1 DEF ViewInv, ViewTypeOK, NoArray

(* The menu of a message, its edits and reactions keep the invariant and    *)
(* write into no deleted row.                                               *)
LEMMA MenuStep ==
    ASSUME ViewInv, Menu
    PROVE  ViewInv' /\ StaysDeleted
<1>a. /\ area \in Seq(Row) /\ \A i \in DOMAIN area : area[i] \in Row
      /\ sent \in [Chats -> Seq(Messages)] /\ deleting \subseteq Messages
      /\ loads \in [Loads -> Load] /\ \A l \in Loads : loads[l].step # "idle" => loads[l].chat \in Chats
      /\ Len(area) \in Nat /\ DOMAIN area = 1 .. Len(area)
  BY DEF ViewInv, ViewTypeOK
<1>b. ASSUME UNCHANGED <<sent, active, arrays, current, drawn, handlers, loads>>,
             area' = area, deleting' \subseteq Messages
      PROVE  ViewInv' /\ StaysDeleted
  <2>1. ViewTypeOK'
    BY <1>a, <1>b, TypeKept
  <2> QED  BY <1>b, <2>1, RowsKept DEF ViewInv
<1>c. ASSUME UNCHANGED <<sent, active, arrays, current, drawn, handlers, loads, deleting>>,
             area' \in Seq(Row), Len(area') = Len(area),
             \A i \in DOMAIN area :
                 /\ area'[i].no = area[i].no /\ area'[i].m = area[i].m
                 /\ area[i].bubble = "deleted" \/ area'[i].bubble = "deleted" => area'[i] = area[i]
      PROVE  ViewInv' /\ StaysDeleted
  <2>1. ViewTypeOK'
    BY <1>a, <1>c, TypeKept
  <2> QED  BY <1>c, <2>1, RowsWritten DEF ViewInv
<1>d. ASSUME NEW i \in DOMAIN area, NEW b \in {"text", "input"}, area[i].bubble # "deleted",
             area' = [area EXCEPT ![i].bubble = b],
             UNCHANGED <<sent, active, arrays, current, drawn, handlers, loads, deleting>>
      PROVE  ViewInv' /\ StaysDeleted
  <2>1. PICK r : r = [area[i] EXCEPT !.bubble = b]
    OBVIOUS
  <2>2. r \in Row /\ r.no = area[i].no /\ r.m = area[i].m /\ r.bubble = b
    BY <1>a, <2>1 DEF Row
  <2>3. area' = [area EXCEPT ![i] = r]
    BY <1>d, <2>1
  <2>4. area' \in Seq(Row) /\ Len(area') = Len(area)
        /\ \A k \in DOMAIN area : area'[k] = IF k = i THEN r ELSE area[k]
    BY <1>a, <2>2, <2>3
  <2> QED  BY <1>c, <1>d, <2>2, <2>4
<1>1. ASSUME NEW i \in DOMAIN area, MenuDelete(area[i]) PROVE ViewInv' /\ StaysDeleted
  <2>1. area[i].m \in Messages
    BY <1>a DEF Row
  <2> QED  BY <1>1, <1>a, <1>b, <2>1 DEF MenuDelete, server
<1>2. ASSUME NEW i \in DOMAIN area, CancelEdit(i) PROVE ViewInv' /\ StaysDeleted
  BY <1>2, <1>d DEF CancelEdit, background, server
<1>3. ASSUME NEW i \in DOMAIN area, SaveEdit(i) PROVE ViewInv' /\ StaysDeleted
  BY <1>3, <1>a, <1>b DEF SaveEdit, server
<1>4. ASSUME NEW m \in Messages, StartEdit(m) PROVE ViewInv' /\ StaysDeleted
  <2>1. PICK i \in First(m) : area[i].bubble = "text" /\ area' = [area EXCEPT ![i].bubble = "input"]
    BY <1>4 DEF StartEdit
  <2>2. i \in DOMAIN area
    BY DEF First
  <2> QED  BY <1>4, <1>d, <2>1, <2>2 DEF StartEdit, background, server
<1>5. ASSUME NEW m \in Messages, DeleteAnswered(m) PROVE ViewInv' /\ StaysDeleted
  BY <1>5, MarkDeletedInv DEF DeleteAnswered, server
<1>6. ASSUME NEW no \in saves, NEW ok \in BOOLEAN, EditSaved(no, ok) PROVE ViewInv' /\ StaysDeleted
  <2> DEFINE new(i) == IF i \in RowNo(no) /\ area[i].bubble \in {"input", "text"}
                       THEN [area[i] EXCEPT !.bubble = "text", !.face = IF ok THEN "content" ELSE @]
                       ELSE area[i]
  <2>1. area' = [i \in DOMAIN area |-> new(i)]
    BY <1>6 DEF EditSaved
  <2>2. \A i \in DOMAIN area :
            /\ new(i) \in Row /\ new(i).no = area[i].no /\ new(i).m = area[i].m
            /\ area[i].bubble = "deleted" \/ new(i).bubble = "deleted" => new(i) = area[i]
    BY <1>a DEF Row
  <2> HIDE DEF new
  <2>3. area' \in Seq(Row) /\ Len(area') = Len(area) /\ \A i \in DOMAIN area : area'[i] = new(i)
    BY <1>a, <2>1, <2>2
  <2> QED  BY <1>6, <1>c, <2>2, <2>3 DEF EditSaved, server
<1>7. ASSUME NEW m \in Messages, NEW u \in Reactors, NEW g \in Glyphs \cup {None}, UpdateReactionUI(m, u, g)
      PROVE  ViewInv' /\ StaysDeleted
  <2>1. PICK i \in First(m) : /\ area[i].bubble # "deleted"
                              /\ area' = [area EXCEPT ![i] = Tagged(area[i], u, g)]
    BY <1>7 DEF UpdateReactionUI
  <2>2. i \in DOMAIN area
    BY DEF First
  <2>3. PICK r : r = Tagged(area[i], u, g)
    OBVIOUS
  <2>4. r \in Row /\ r.no = area[i].no /\ r.m = area[i].m /\ r.bubble = area[i].bubble
    BY <1>a, <2>2, <2>3, TaggedRow
  <2>5. area' \in Seq(Row) /\ Len(area') = Len(area)
        /\ \A k \in DOMAIN area : area'[k] = IF k = i THEN r ELSE area[k]
    BY <1>a, <2>1, <2>2, <2>3, <2>4
  <2> QED  BY <1>7, <1>c, <2>1, <2>4, <2>5 DEF UpdateReactionUI, background, server
<1> QED  BY <1>1, <1>2, <1>3, <1>4, <1>5, <1>6, <1>7 DEF Menu

(* So do the socket's events, handled late or not.                          *)
LEMMA SocketStep ==
    ASSUME ViewInv, Socket
    PROVE  ViewInv' /\ StaysDeleted
<1>a. /\ area \in Seq(Row) /\ sent \in [Chats -> Seq(Messages)] /\ deleting \subseteq Messages
      /\ arrays \in [Chats -> Seq(Seq(ListItem))]
      /\ loads \in [Loads -> Load] /\ \A l \in Loads : loads[l].step # "idle" => loads[l].chat \in Chats
  BY DEF ViewInv, ViewTypeOK
<1>b. ASSUME UNCHANGED <<active, arrays, current, area, drawn, loads, deleting>>,
             sent' \in [Chats -> Seq(Messages)],
             \A h \in handlers' \ handlers :
               /\ h.m \in Messages /\ h.number = current[ChatOf[h.m]]
               /\ h.kind = "edit" => h.number # 0
      PROVE  ViewInv' /\ StaysDeleted
  <2>1. ViewTypeOK'
    BY <1>a, <1>b, TypeKept
  <2> QED  BY <1>b, <2>1, RowsKept DEF ViewInv
<1>1. ASSUME NEW m \in Messages, Store(m) PROVE ViewInv' /\ StaysDeleted
  <2>1. ChatOf[m] \in Chats /\ sent' = [sent EXCEPT ![ChatOf[m]] = Append(sent[ChatOf[m]], m)]
    BY <1>1, ViewAssumption DEF Store
  <2>2. sent[ChatOf[m]] \in Seq(Messages)
    BY <1>a, <2>1
  <2>3. Append(sent[ChatOf[m]], m) \in Seq(Messages)
    BY <2>2
  <2>4. sent' \in [Chats -> Seq(Messages)]
    BY <1>a, <2>1, <2>3
  <2> QED  BY <1>1, <1>b, <2>4 DEF Store, background
<1>2. ASSUME NEW m \in Messages, Unheard(m) PROVE ViewInv' /\ StaysDeleted
  BY <1>2, <1>a, <1>b DEF Unheard, background
<1>3. ASSUME NEW m \in Messages, HearMessage(m) PROVE ViewInv' /\ StaysDeleted
  <2>1. handlers' = handlers \cup {[m |-> m, kind |-> "message", number |-> current[ChatOf[m]]]}
    BY <1>3 DEF HearMessage
  <2>2. \A h \in handlers' \ handlers : h.m = m /\ h.kind = "message" /\ h.number = current[ChatOf[m]]
    BY <2>1
  <2> QED  BY <1>3, <1>a, <1>b, <2>2 DEF HearMessage
<1>4. ASSUME NEW m \in Messages, HearEdit(m) PROVE ViewInv' /\ StaysDeleted
  <2>1. handlers' = handlers \cup {[m |-> m, kind |-> "edit", number |-> current[ChatOf[m]]]}
        /\ current[ChatOf[m]] # 0
    BY <1>4 DEF HearEdit, Listed
  <2>2. \A h \in handlers' \ handlers : h.m = m /\ h.number = current[ChatOf[m]]
    BY <2>1
  <2> QED  BY <1>4, <1>a, <1>b, <2>1, <2>2 DEF HearEdit, server
<1>5. ASSUME NEW m \in Messages, Erase(m) PROVE ViewInv' /\ StaysDeleted
  <2>1. CASE MarkDeleted(m)
    BY <1>5, <2>1, MarkDeletedInv DEF Erase
  <2>2. CASE UNCHANGED <<arrays, current, area, drawn, jobs>>
    BY <1>5, <2>2, <1>a, <1>b DEF Erase
  <2> QED  BY <1>5, <2>1, <2>2 DEF Erase
<1>6. ASSUME NEW h \in handlers, ShowMessage(h) PROVE ViewInv' /\ StaysDeleted
  <2> DEFINE c == ChatOf[h.m]
             number == IF h.number = 0 THEN Len(arrays[c]) + 1 ELSE h.number
             items == IF h.number = 0 THEN <<>> ELSE arrays[c][number]
  <2>1. h.m \in Messages /\ c \in Chats /\ h.number \in 0 .. Len(arrays[c])
    BY ViewAssumption DEF ViewInv, ViewTypeOK
  <2>2. arrays[c] \in Seq(Seq(ListItem)) /\ Len(arrays[c]) \in Nat
    BY <1>a, <2>1
  <2>3. number \in 1 .. Len(arrays[c]) + 1
    BY <2>1, <2>2
  <2>4. items \in Seq(ListItem)
    BY <2>1, <2>2
  <2>5. Append(items, Item(h.m, "plain")) \in Seq(ListItem)
    BY <2>1, <2>4, ItemListed
  <2>6. Redraw(c, number, Append(items, Item(h.m, "plain")), TRUE) /\ handlers' \subseteq handlers
        /\ UNCHANGED <<sent, active, loads, deleting>>
    BY <1>6 DEF ShowMessage, server
  <2> HIDE DEF c, number, items
  <2> QED  BY <1>a, <2>1, <2>3, <2>5, <2>6, RedrawInv
<1>7. ASSUME NEW h \in handlers, ShowEdit(h) PROVE ViewInv' /\ StaysDeleted
  <2> DEFINE c == ChatOf[h.m]
             items == arrays[c][h.number]
             i == Find(items, h.m)
             edited == [items EXCEPT ![i].form = IF @ = "plain" THEN "plain" ELSE "spoilt"]
  <2>1. h.kind = "edit"
    BY <1>7 DEF ShowEdit
  <2>2. c \in Chats /\ h.number \in 1 .. Len(arrays[c])
    BY <2>1, ViewAssumption DEF ViewInv, ViewTypeOK
  <2>3. items \in Seq(ListItem) /\ h.number \in 1 .. Len(arrays[c]) + 1
    BY <1>a, <2>2
  <2> HIDE DEF items
  <2>4. edited \in Seq(ListItem)
    BY <2>3, ItemWritten
  <2>5. Redraw(c, h.number, edited, FALSE) /\ handlers' \subseteq handlers
        /\ UNCHANGED <<sent, active, loads, deleting>>
    BY <1>7 DEF ShowEdit, server, items
  <2> HIDE DEF c, edited
  <2> QED  BY <1>a, <2>2, <2>3, <2>4, <2>5, RedrawInv
<1> QED  BY <1>1, <1>2, <1>3, <1>4, <1>5, <1>6, <1>7 DEF Socket

(* A history is a list of items (getMessages).                              *)
LEMMA HistoryType ==
    ASSUME sent \in [Chats -> Seq(Messages)], NEW c \in Chats
    PROVE  History(c) \in Seq(ListItem)
<1> DEFINE entry(i) == [m |-> Reverse(sent[c])[i],
                        form |-> IF Reverse(sent[c])[i] \in erased THEN "plain" ELSE "cipher",
                        deleted |-> Reverse(sent[c])[i] \in erased]
<1>1. sent[c] \in Seq(Messages) /\ Len(sent[c]) \in Nat /\ DOMAIN sent[c] = 1 .. Len(sent[c])
  OBVIOUS
<1>2. ASSUME NEW i \in 1 .. Len(sent[c]) PROVE Reverse(sent[c])[i] \in Messages
  <2>1. Len(sent[c]) - i + 1 \in 1 .. Len(sent[c])
    BY <1>1
  <2>2. Reverse(sent[c])[i] = sent[c][Len(sent[c]) - i + 1]
    BY <1>1 DEF Reverse
  <2> QED  BY <1>1, <2>1, <2>2
<1>3. \A i \in 1 .. Len(sent[c]) : entry(i) \in ListItem
  BY <1>2 DEF ListItem
<1>4. History(c) = [i \in 1 .. Len(sent[c]) |-> entry(i)]
  BY <1>1 DEF History
<1> HIDE DEF entry
<1> QED  BY <1>1, <1>3, <1>4

(* applyDecryptedContent leaves a deleted row alone, and makes none.        *)
LEMMA DecryptedRow ==
    ASSUME NEW r \in Row, NEW face \in {"content", "failed"}
    PROVE  /\ ApplyDecryptedContent(r, face) \in Row
           /\ ApplyDecryptedContent(r, face).no = r.no /\ ApplyDecryptedContent(r, face).m = r.m
           /\ r.bubble = "deleted" \/ ApplyDecryptedContent(r, face).bubble = "deleted"
                 => ApplyDecryptedContent(r, face) = r
BY DEF ApplyDecryptedContent, Row

(* So do opening, loading, sending and decrypting.                          *)
LEMMA PaneStep ==
    ASSUME ViewInv, Pane
    PROVE  ViewInv' /\ StaysDeleted
<1>a. /\ area \in Seq(Row) /\ \A i \in DOMAIN area : area[i] \in Row
      /\ sent \in [Chats -> Seq(Messages)] /\ deleting \subseteq Messages
      /\ arrays \in [Chats -> Seq(Seq(ListItem))]
      /\ loads \in [Loads -> Load] /\ \A l \in Loads : loads[l].step # "idle" => loads[l].chat \in Chats
      /\ Len(area) \in Nat /\ DOMAIN area = 1 .. Len(area)
  BY DEF ViewInv, ViewTypeOK
<1>b. NoLoad \in Load /\ NoLoad.step = "idle"
  BY DEF NoLoad, Load
<1>c. ASSUME area' = <<>>, drawn' = NoArray, active' \in Chats \cup {None},
             UNCHANGED <<sent, arrays, current, handlers, deleting>>, loads' \in [Loads -> Load],
             \A l \in Loads : loads'[l].step # "idle" => loads'[l].chat \in Chats
      PROVE  ViewInv' /\ StaysDeleted
  <2>1. <<>> \in Seq(Row) /\ DOMAIN <<>> = {}
    OBVIOUS
  <2>2. drawn' = NoArray'
    BY <1>c DEF NoArray
  <2>3. ViewTypeOK'
    BY <1>c, <2>1, <2>2 DEF ViewInv, ViewTypeOK
  <2>4. RowsAreApart' /\ StaysDeleted
    BY <1>c, <2>1 DEF RowsAreApart, StaysDeleted
  <2>5. ListIsDrawn'
    BY <2>2 DEF ListIsDrawn, RowsFollowTheList
  <2> QED  BY <2>3, <2>4, <2>5 DEF ViewInv
<1>d. ASSUME UNCHANGED <<sent, active, arrays, current, area, drawn, handlers, deleting>>,
             loads' \in [Loads -> Load],
             \A l \in Loads : loads'[l].step # "idle" => loads'[l].chat \in Chats
      PROVE  ViewInv' /\ StaysDeleted
  <2>1. ViewTypeOK'
    BY <1>a, <1>d, TypeKept
  <2> QED  BY <1>d, <2>1, RowsKept DEF ViewInv
<1>1. ASSUME NEW c \in Chats, NEW l \in Loads, OpenConversation(c, l) PROVE ViewInv' /\ StaysDeleted
  <2>1. PICK load : load = [chat |-> c, step |-> "asked", answer |-> <<>>]
    OBVIOUS
  <2>2. load \in Load /\ load.chat = c
    <3>1. <<>> \in Seq(ListItem)
      OBVIOUS
    <3> QED  BY <2>1, <3>1 DEF Load
  <2>3. loads' = [loads EXCEPT ![l] = load]
    BY <1>1, <2>1 DEF OpenConversation
  <2>4. loads' \in [Loads -> Load] /\ \A x \in Loads : loads'[x].step # "idle" => loads'[x].chat \in Chats
    BY <1>a, <2>2, <2>3
  <2> QED  BY <1>1, <1>c, <2>4 DEF OpenConversation, server
<1>2. ASSUME NEW l \in Loads, Answer(l) PROVE ViewInv' /\ StaysDeleted
  <2>1. PICK load : load = [loads[l] EXCEPT !.step = "answered", !.answer = History(loads[l].chat)]
    OBVIOUS
  <2>2. loads[l] \in Load /\ loads[l].chat \in Chats
    BY <1>2, <1>a DEF Answer
  <2>3. History(loads[l].chat) \in Seq(ListItem)
    BY <1>a, <2>2, HistoryType
  <2>4. load \in Load /\ load.chat \in Chats
    BY <2>1, <2>2, <2>3 DEF Load
  <2>5. loads' = [loads EXCEPT ![l] = load]
    BY <1>2, <1>a, <2>1 DEF Answer
  <2>6. loads' \in [Loads -> Load] /\ \A x \in Loads : loads'[x].step # "idle" => loads'[x].chat \in Chats
    BY <1>a, <2>4, <2>5
  <2> QED  BY <1>2, <1>d, <2>6 DEF Answer, server
<1>3. ASSUME NEW l \in Loads, LoadMessages(l) PROVE ViewInv' /\ StaysDeleted
  <2> DEFINE c == loads[l].chat
             items == loads[l].answer
             number == Len(arrays[c]) + 1
  <2>1. c \in Chats /\ items \in Seq(ListItem)
    BY <1>3, <1>a DEF LoadMessages, Load
  <2>2. number \in 1 .. Len(arrays[c]) + 1
    BY <1>a, <2>1
  <2>3. loads' \in [Loads -> Load] /\ \A x \in Loads : loads'[x].step # "idle" => loads'[x].chat \in Chats
    BY <1>3, <1>a, <1>b DEF LoadMessages
  <2>4. Redraw(c, number, items, TRUE) /\ UNCHANGED <<active, sent, handlers, deleting>>
    BY <1>3 DEF LoadMessages, server
  <2> HIDE DEF c, items, number
  <2> QED  BY <2>1, <2>2, <2>3, <2>4, RedrawInv
<1>4. ASSUME NEW l \in Loads, LoadFails(l) PROVE ViewInv' /\ StaysDeleted
  <2>1. loads' \in [Loads -> Load] /\ \A x \in Loads : loads'[x].step # "idle" => loads'[x].chat \in Chats
    BY <1>4, <1>a, <1>b DEF LoadFails
  <2> QED  BY <1>4, <1>d, <2>1 DEF LoadFails, server
<1>5. ASSUME NEW m \in Messages, SendMessage(m) PROVE ViewInv' /\ StaysDeleted
  <2> DEFINE c == ChatOf[m]
             n == current[c]
             number == IF n = 0 THEN Len(arrays[c]) + 1 ELSE n
             items == IF n = 0 THEN <<>> ELSE arrays[c][n]
  <2>1. c \in Chats
    BY ViewAssumption
  <2>2. arrays[c] \in Seq(Seq(ListItem)) /\ Len(arrays[c]) \in Nat
    BY <1>a, <2>1
  <2>3. n \in Nat /\ n <= Len(arrays[c])
    BY <2>1 DEF ViewInv, ViewTypeOK
  <2> HIDE DEF n
  <2>4. number \in 1 .. Len(arrays[c]) + 1
    BY <2>2, <2>3
  <2>5. items \in Seq(ListItem)
    BY <2>2, <2>3
  <2>6. Append(items, Item(m, "plain")) \in Seq(ListItem)
    BY <2>5, ItemListed
  <2>7. Redraw(c, number, Append(items, Item(m, "plain")), TRUE)
        /\ UNCHANGED <<active, sent, handlers, deleting, loads>>
    BY <1>5 DEF SendMessage, server, n
  <2> HIDE DEF c, number, items
  <2> QED  BY <1>a, <2>1, <2>4, <2>6, <2>7, RedrawInv
<1>6. ASSUME NEW c \in Chats, NEW ok \in BOOLEAN, Decrypt(c, ok) PROVE ViewInv' /\ StaysDeleted
  <2> DEFINE face == IF ok THEN "content" ELSE "failed"
             new(i) == IF i \in RowNo(Head(jobs[c]).no) THEN ApplyDecryptedContent(area[i], face)
                       ELSE area[i]
  <2>1. area' = [i \in DOMAIN area |-> new(i)]
    BY <1>6 DEF Decrypt
  <2>2. face \in {"content", "failed"}
    OBVIOUS
  <2> HIDE DEF face
  <2>3. \A i \in DOMAIN area :
            /\ new(i) \in Row /\ new(i).no = area[i].no /\ new(i).m = area[i].m
            /\ area[i].bubble = "deleted" \/ new(i).bubble = "deleted" => new(i) = area[i]
    BY <1>a, <2>2, DecryptedRow
  <2> HIDE DEF new
  <2>4. area' \in Seq(Row) /\ Len(area') = Len(area) /\ \A i \in DOMAIN area : area'[i] = new(i)
    BY <1>a, <2>1, <2>3
  <2>5. UNCHANGED <<sent, active, arrays, current, drawn, handlers, loads, deleting>>
    BY <1>6 DEF Decrypt, server
  <2>6. ViewTypeOK'
    BY <1>a, <2>4, <2>5, TypeKept
  <2>7. RowsAreApart' /\ ListIsDrawn' /\ StaysDeleted
    BY <2>3, <2>4, <2>5, RowsWritten
  <2> QED  BY <2>6, <2>7 DEF ViewInv
<1>7. CASE Back
  BY <1>7, <1>a, <1>c DEF Back, server, background
<1> QED  BY <1>1, <1>2, <1>3, <1>4, <1>5, <1>6, <1>7 DEF Pane

(* Every step keeps the invariant and leaves deleted rows as they are.      *)
LEMMA ViewStep == ViewInv /\ [ViewNext]_viewVars => ViewInv' /\ StaysDeleted
<1> SUFFICES ASSUME ViewInv, [ViewNext]_viewVars PROVE ViewInv' /\ StaysDeleted
  OBVIOUS
<1>1. CASE UNCHANGED viewVars
  <2>1. UNCHANGED <<sent, active, arrays, current, area, drawn, handlers, loads, deleting>>
    BY <1>1 DEF viewVars, server, background
  <2>2. ViewTypeOK'
    BY <2>1, TypeKept DEF ViewInv, ViewTypeOK
  <2> QED  BY <2>1, <2>2, RowsKept DEF ViewInv
<1> QED  BY <1>1, MenuStep, SocketStep, PaneStep DEF ViewNext

(* The invariant of the messages area: types, rows apart, list drawn.       *)
THEOREM ViewInvariant == ViewSpec => []ViewInv
<1>1. ViewInit => ViewInv
  <2> SUFFICES ASSUME ViewInit PROVE ViewInv
    OBVIOUS
  <2>1. <<>> \in Seq(Messages) /\ <<>> \in Seq(Seq(ListItem)) /\ <<>> \in Seq(Row)
        /\ <<>> \in Seq(ListItem) /\ DOMAIN <<>> = {}
    OBVIOUS
  <2>2. NoLoad \in Load /\ NoLoad.step = "idle"
    BY <2>1 DEF NoLoad, Load
  <2>3. ViewTypeOK
    BY <2>1, <2>2 DEF ViewInit, ViewTypeOK
  <2>4. RowsAreApart /\ ListIsDrawn
    BY <2>1 DEF ViewInit, RowsAreApart, ListIsDrawn, RowsFollowTheList
  <2> QED  BY <2>3, <2>4 DEF ViewInv
<1> QED  BY <1>1, ViewStep, PTL DEF ViewSpec

(* Whatever is loaded, heard, edited and drawn over, for any number of      *)
(* chats, messages and rows, the first rows are those of the array drawn    *)
(* last (renderMessages).                                                   *)
THEOREM RowsFollowTheListHolds == ViewSpec => []RowsFollowTheList
<1>1. ViewInv => RowsFollowTheList
  BY DEF ViewInv, ListIsDrawn
<1> QED  BY <1>1, ViewInvariant, PTL

(* A row that says its message was deleted is never written into again      *)
(* (applyDecryptedContent, saveEdit, updateReactionUI, renderMessages).     *)
THEOREM DeletedStaysDeletedHolds == ViewSpec => DeletedStaysDeleted
<1>1. ViewInv /\ [ViewNext]_viewVars => [StaysDeleted]_viewVars
  BY ViewStep
<1>2. ViewSpec => [][StaysDeleted]_viewVars
  BY <1>1, ViewInvariant, PTL DEF ViewSpec
<1> QED  BY <1>2 DEF DeletedStaysDeleted, StaysDeleted

-----------------------------------------------------------------------------
(* The message box.                                                         *)

(* The texts typed so far, and the empty one.                               *)
Text == 0 .. Len(typedIn)

(* openConversation and putSecretString under way, an encryption or a       *)
(* request of one message, a message on the server.                         *)
Opening == [chat : Talks, of : Nat, box : Nat, found : Nat]
Save == [chat : Talks, text : Nat]
Sending == [text : Nat, to : Talks, box : Nat]
Post == [text : Nat, to : Talks, under : Talks \cup {NoChat}]

(* The types; the schedule dialog is only open over a box that is bound and *)
(* has a text.                                                              *)
ComposerTypeOK ==
    /\ shown \in Talks \cup {NoChat} /\ written \in Text
    /\ ready \in BOOLEAN /\ dialog \in BOOLEAN
    /\ typedIn \in Seq(Talks) /\ bound \in Seq(SUBSET Talks) /\ posts \in Seq(Post)
    /\ openings \subseteq Opening
    /\ \A o \in openings : o.box \in 0 .. Box /\ o.found \in Text
    /\ drafts \in [Talks -> Text] /\ latest \in [Talks -> Text]
    /\ saving \subseteq Save
    /\ \A w \in saving : w.text \in Text
    /\ leaving \subseteq Sending
    /\ \A s \in leaving \cup scheduling :
           s.text \in Text \ {0} /\ s.to \in Talks /\ s.box \in 1 .. Box
    /\ shown # NoChat => Box > 0
    /\ shown = NoChat => ~ready /\ written = 0
    /\ dialog => ready /\ written # 0

(* Every step keeps the types.                                              *)
LEMMA TypeStep ==
    ASSUME ComposerTypeOK, [ComposerNext]_composerVars
    PROVE  ComposerTypeOK'
<1> USE ComposerAssumption
<1>a. typedIn \in Seq(Talks) /\ bound \in Seq(SUBSET Talks) /\ posts \in Seq(Post)
  BY DEF ComposerTypeOK
<1>b. Len(typedIn) \in Nat /\ Box \in Nat
  BY <1>a DEF Box
<1>1. ASSUME NEW c \in Talks, OpenChat(c) PROVE ComposerTypeOK'
  <2>1. bound' = Append(bound, {}) /\ bound' \in Seq(SUBSET Talks) /\ Box' = Box + 1
    BY <1>1, <1>a DEF OpenChat, Box
  <2>2. Text' = Text
    BY <1>1 DEF OpenChat, textVars, Text
  <2>3. [chat |-> c, of |-> Box + 1, box |-> 0, found |-> 0] \in Opening
    BY <1>b DEF Opening
  <2>4. openings' \subseteq Opening /\ \A o \in openings' : o.box \in 0 .. Box' /\ o.found \in Text
    BY <1>1, <1>b, <2>1, <2>3 DEF OpenChat, ComposerTypeOK, Text
  <2>5. UNCHANGED <<sendVars, textVars, drafts, saving>> /\ shown' = c /\ written' = 0 /\ ready' = FALSE /\ ~dialog
    BY <1>1 DEF OpenChat
  <2>6. shown' # NoChat /\ Box' > 0
    BY <2>1, <2>5, <1>b
  <2>7. \A s \in leaving' \cup scheduling' :
           s.text \in Text \ {0} /\ s.to \in Talks /\ s.box \in 1 .. Box'
    BY <2>1, <2>5, <1>b DEF ComposerTypeOK, sendVars
  <2>8. drafts' \in [Talks -> Text'] /\ latest' \in [Talks -> Text'] /\ saving' \subseteq Save
        /\ (\A w \in saving' : w.text \in Text') /\ leaving' \subseteq Sending
    BY <2>2, <2>5 DEF ComposerTypeOK, sendVars, textVars
  <2>9. typedIn' \in Seq(Talks) /\ posts' \in Seq(Post) /\ dialog' = dialog /\ dialog' \in BOOLEAN
    BY <2>5 DEF ComposerTypeOK, sendVars, textVars
  <2>10. shown' \in Talks \cup {NoChat} /\ written' \in Text' /\ ready' \in BOOLEAN
    <3>1. 0 \in Text
      BY <1>b DEF Text
    <3>2. written' \in Text'
      BY <2>2, <2>5, <3>1
    <3> QED  BY <2>5, <3>2
  <2> QED  BY <2>1, <2>2, <2>4, <2>5, <2>6, <2>7, <2>8, <2>9, <2>10 DEF ComposerTypeOK
<1>2. ASSUME NEW o \in openings, BindBox(o) PROVE ComposerTypeOK'
  <2>1. UNCHANGED <<sendVars, textVars, shown, written, ready, drafts, saving>>
    BY <1>2 DEF BindBox
  <2>2. bound' \in Seq(SUBSET Talks) /\ Len(bound') = Len(bound)
    <3>1. CASE shown = NoChat
      BY <3>1, <1>2, <1>a DEF BindBox
    <3>2. CASE shown # NoChat
      <4>1. Box \in DOMAIN bound /\ bound[Box] \in SUBSET Talks /\ o.chat \in Talks
        BY <3>2, <1>a DEF Box, ComposerTypeOK, Opening
      <4>2. bound[Box] \cup {o.chat} \in SUBSET Talks
        BY <4>1
      <4>3. bound' = [bound EXCEPT ![Box] = bound[Box] \cup {o.chat}]
        BY <3>2, <1>2 DEF BindBox
      <4> QED  BY <4>1, <4>2, <4>3, <1>a
    <3> QED  BY <3>1, <3>2
  <2>3. Box' = Box
    BY <2>2 DEF Box
  <2>4. o \in Opening /\ drafts[o.chat] \in Text
    BY DEF ComposerTypeOK, Opening
  <2>5. [o EXCEPT !.box = Box, !.found = drafts[o.chat]] \in Opening
    <3>1. drafts[o.chat] \in Nat
      BY <2>4, <1>b DEF Text
    <3> QED  BY <2>4, <3>1, <1>b DEF Opening
  <2>6. [o EXCEPT !.box = Box, !.found = drafts[o.chat]].box = Box
        /\ [o EXCEPT !.box = Box, !.found = drafts[o.chat]].found = drafts[o.chat]
    BY <2>4 DEF Opening
  <2>7. openings' \subseteq Opening /\ \A p \in openings' : p.box \in 0 .. Box /\ p.found \in Text
    <3> DEFINE q == [o EXCEPT !.box = Box, !.found = drafts[o.chat]]
    <3>1. openings' \subseteq openings \cup {q}
      BY <1>2 DEF BindBox
    <3>2. q \in Opening /\ q.box \in 0 .. Box /\ q.found \in Text
      BY <2>4, <2>5, <2>6, <1>b
    <3> HIDE DEF q
    <3> QED  BY <3>1, <3>2 DEF ComposerTypeOK
  <2> QED  BY <2>1, <2>2, <2>3, <2>7 DEF ComposerTypeOK, sendVars, textVars, Text
<1>3. ASSUME NEW o \in openings, RestoreDraft(o) PROVE ComposerTypeOK'
  BY <1>3 DEF RestoreDraft, ComposerTypeOK, sendVars, textVars, Text, Box
<1>4. CASE BackToList
  <2>1. Text' = Text /\ Box' = Box /\ 0 \in Text
    BY <1>4, <1>b DEF BackToList, textVars, Text, Box
  <2>2. shown' = NoChat /\ written' = 0 /\ ready' = FALSE /\ ~dialog'
    BY <1>4 DEF BackToList, sendVars
  <2> QED  BY <1>4, <2>1, <2>2 DEF BackToList, ComposerTypeOK, sendVars, textVars
<1>5. CASE TypeText
  <2>1. typedIn' \in Seq(Talks) /\ Len(typedIn') = Len(typedIn) + 1
    BY <1>5, <1>a DEF TypeText, ComposerTypeOK
  <2>2. Text \subseteq Text' /\ Len(typedIn') \in Text' /\ Len(typedIn') # 0
    BY <1>b, <2>1 DEF Text
  <2>3. bound[Box] \subseteq Talks
    BY <1>5, <1>a DEF TypeText, Box, ComposerTypeOK
  <2>4. saving' \subseteq Save /\ \A w \in saving' : w.text \in Text'
    BY <1>5, <2>1, <2>2, <2>3, <1>b DEF TypeText, ComposerTypeOK, Save
  <2>5. latest' \in [Talks -> Text'] /\ drafts' \in [Talks -> Text']
    BY <1>5, <2>2 DEF TypeText, ComposerTypeOK
  <2>6. \A s \in leaving' \cup scheduling' :
           s.text \in Text' \ {0} /\ s.to \in Talks /\ s.box \in 1 .. Box'
    BY <1>5, <2>2 DEF TypeText, ComposerTypeOK, sendVars, Box
  <2> QED  BY <1>5, <2>1, <2>2, <2>4, <2>5, <2>6 DEF TypeText, ComposerTypeOK, sendVars, Box
<1>6. CASE ClearBox
  BY <1>6, <1>b DEF ClearBox, ComposerTypeOK, sendVars, textVars, Text, Box, Without
<1>7. ASSUME NEW w \in saving, DraftSaved(w) PROVE ComposerTypeOK'
  BY <1>7 DEF DraftSaved, ComposerTypeOK, boxVars, sendVars, textVars, Text, Box
<1>8. CASE SendText
  <2>1. shown \in Talks /\ Box > 0 /\ written \in Text \ {0}
    BY <1>8 DEF SendText, ComposerTypeOK
  <2>2. [text |-> written, to |-> shown, box |-> Box] \in Sending
    BY <2>1, <1>b DEF Sending, Text
  <2>3. leaving' \subseteq Sending
    BY <1>8, <2>2 DEF SendText, ComposerTypeOK
  <2>4. Text' = Text /\ Box' = Box /\ UNCHANGED scheduling
    BY <1>8 DEF SendText, Text, Box
  <2>5. \A s \in leaving' \cup scheduling' :
           s.text \in Text \ {0} /\ s.to \in Talks /\ s.box \in 1 .. Box
    BY <1>8, <2>1, <2>4, <1>b DEF SendText, ComposerTypeOK
  <2>6. drafts' \in [Talks -> Text] /\ latest' \in [Talks -> Text]
    BY <1>8, <1>b DEF SendText, ComposerTypeOK, Without, DealtWith, Text
  <2>7. written' = 0 /\ 0 \in Text /\ ~dialog' /\ shown' = shown /\ ready' = ready /\ ready
    BY <1>8, <1>b DEF SendText, Text
  <2>8. UNCHANGED <<typedIn, bound, posts, openings, saving, dialog>>
    BY <1>8 DEF SendText
  <2> QED  BY <2>1, <2>3, <2>4, <2>5, <2>6, <2>7, <2>8 DEF ComposerTypeOK
<1>9. ASSUME NEW s \in leaving, TextEncrypted(s) PROVE ComposerTypeOK'
  <2>1. [text |-> s.text, to |-> s.to, under |-> shown] \in Post
    BY DEF ComposerTypeOK, Sending, Post
  <2>2. posts' \in Seq(Post)
    BY <1>9, <1>a, <2>1 DEF TextEncrypted
  <2> QED  BY <1>9, <2>2 DEF TextEncrypted, ComposerTypeOK, boxVars, textVars, Text, Box
<1>10. ASSUME NEW s \in leaving, NotEncrypted(s) PROVE ComposerTypeOK'
  BY <1>10 DEF NotEncrypted, ComposerTypeOK, textVars, Text, Box
<1>11. CASE OpenDialog
  BY <1>11 DEF OpenDialog, ComposerTypeOK, boxVars, textVars, Text, Box
<1>12. CASE CloseDialog
  BY <1>12 DEF CloseDialog, ComposerTypeOK, boxVars, textVars, Text, Box
<1>13. CASE ConfirmSchedule
  <2>1. shown \in Talks /\ Box > 0 /\ written \in Text \ {0}
    BY <1>13 DEF ConfirmSchedule, ComposerTypeOK
  <2>2. \A r \in leaving' \cup scheduling' :
           r.text \in Text \ {0} /\ r.to \in Talks /\ r.box \in 1 .. Box
    BY <1>13, <1>b, <2>1 DEF ConfirmSchedule, ComposerTypeOK
  <2> QED  BY <1>13, <2>2 DEF ConfirmSchedule, ComposerTypeOK, boxVars, textVars, Text, Box
<1>14. ASSUME NEW r \in scheduling, TextScheduled(r) PROVE ComposerTypeOK'
  <2>1. [text |-> r.text, to |-> r.to, under |-> r.to] \in Post
    BY <1>b DEF ComposerTypeOK, Post, Text
  <2>2. posts' \in Seq(Post)
    BY <1>14, <1>a, <2>1 DEF TextScheduled
  <2>3. Text' = Text /\ Box' = Box /\ 0 \in Text /\ UNCHANGED <<shown, bound, ready, openings, saving, leaving, typedIn>>
    BY <1>14, <1>b DEF TextScheduled, Text, Box
  <2>4. drafts' \in [Talks -> Text] /\ latest' \in [Talks -> Text]
    BY <1>14, <2>3 DEF TextScheduled, ComposerTypeOK, Without, DealtWith
  <2>5. written' \in {0, written} /\ scheduling' \subseteq scheduling /\ dialog' = FALSE
    BY <1>14 DEF TextScheduled
  <2>6. written' \in Text' /\ (shown' = NoChat => ~ready' /\ written' = 0)
    BY <2>3, <2>5 DEF ComposerTypeOK
  <2>7. \A s \in leaving' \cup scheduling' :
           s.text \in Text' \ {0} /\ s.to \in Talks /\ s.box \in 1 .. Box'
    BY <2>3, <2>5 DEF ComposerTypeOK
  <2>8. openings' \subseteq Opening /\ (\A o \in openings' : o.box \in 0 .. Box' /\ o.found \in Text')
        /\ saving' \subseteq Save /\ \A w \in saving' : w.text \in Text'
    BY <2>3 DEF ComposerTypeOK
  <2>9. shown' \in Talks \cup {NoChat} /\ ready' \in BOOLEAN /\ dialog' \in BOOLEAN
        /\ typedIn' \in Seq(Talks) /\ bound' \in Seq(SUBSET Talks) /\ leaving' \subseteq Sending
        /\ (shown' # NoChat => Box' > 0)
    BY <2>3, <2>5 DEF ComposerTypeOK
  <2> QED  BY <2>2, <2>3, <2>4, <2>5, <2>6, <2>7, <2>8, <2>9 DEF ComposerTypeOK
<1>15. ASSUME NEW r \in scheduling, NotScheduled(r) PROVE ComposerTypeOK'
  BY <1>15 DEF NotScheduled, ComposerTypeOK, boxVars, textVars, Text, Box
<1>16. CASE ReloadPage
  <2>1. ASSUME NEW r \in scheduling PROVE [text |-> r.text, to |-> r.to, under |-> r.to] \in Post
    BY <1>b DEF ComposerTypeOK, Post, Text
  <2>2. posts' \in Seq(Post)
    <3>1. CASE UNCHANGED posts
      BY <3>1, <1>a
    <3>2. ASSUME NEW r \in scheduling,
                 posts' = Append(posts, [text |-> r.text, to |-> r.to, under |-> r.to])
          PROVE  posts' \in Seq(Post)
      BY <3>2, <2>1, <1>a
    <3> QED  BY <3>1, <3>2, <1>16 DEF ReloadPage
  <2>3. Text' = Text /\ Box' = Box /\ 0 \in Text /\ UNCHANGED <<bound, drafts, typedIn, latest>>
    BY <1>16, <1>b DEF ReloadPage, textVars, Text, Box
  <2>4. shown' = NoChat /\ written' = 0 /\ ready' = FALSE /\ dialog' = FALSE
        /\ openings' = {} /\ saving' = {} /\ leaving' = {} /\ scheduling' = {}
    BY <1>16 DEF ReloadPage
  <2> QED  BY <2>2, <2>3, <2>4 DEF ComposerTypeOK
<1>17. CASE PruneOldDrafts
  BY <1>17, <1>b DEF PruneOldDrafts, ComposerTypeOK, boxVars, sendVars, textVars, Text, Box, Without
<1>18. CASE MonthPasses
  BY <1>18 DEF MonthPasses, ComposerTypeOK, boxVars, sendVars, textVars, Text, Box
<1>19. CASE UNCHANGED composerVars
  BY <1>19 DEF composerVars, ComposerTypeOK, boxVars, sendVars, textVars, Text, Box
<1> QED
  BY <1>1, <1>2, <1>3, <1>4, <1>5, <1>6, <1>7, <1>8, <1>9, <1>10, <1>11, <1>12, <1>13, <1>14,
     <1>15, <1>16, <1>17, <1>18, <1>19 DEF ComposerNext

(* What has overlapped is not forgotten, so that a property which supposes  *)
(* that nothing did may suppose it of the state before, too.                *)
LEMMA SlipsStay == [ComposerNext]_composerVars => slips \subseteq slips'
BY DEF ComposerNext, composerVars, Slipped, OpenChat, BindBox, RestoreDraft, BackToList, TypeText,
       ClearBox, DraftSaved, SendText, TextEncrypted, NotEncrypted, OpenDialog, CloseDialog,
       ConfirmSchedule, TextScheduled, NotScheduled, ReloadPage, PruneOldDrafts, MonthPasses

(* Unless two conversations opened at once: at most one is opening, for the *)
(* box on the page, which saves no drafts before its history came and those *)
(* of its conversation after that, and is ready when its draft was          *)
(* restored.                                                                *)
OpenBox ==
    /\ \A o, p \in openings : o = p
    /\ \A o \in openings : o.box \in {0, Box} /\ (shown # NoChat => o.chat = shown)
    /\ shown # NoChat =>
          /\ bound[Box] = IF \E o \in openings : o.box = 0 THEN {} ELSE {shown}
          /\ ready <=> openings = {}

OneOpens == "crossed" \notin slips => OpenBox

(* Every step keeps that (openConversation, the input listener).            *)
LEMMA OneOpensStep ==
    ASSUME ComposerTypeOK, OneOpens, [ComposerNext]_composerVars
    PROVE  OneOpens'
<1> SUFFICES ASSUME "crossed" \notin slips' PROVE OpenBox'
  BY DEF OneOpens
<1> USE ComposerAssumption
<1>a. OpenBox
  BY SlipsStay DEF OneOpens
<1>b. bound \in Seq(SUBSET Talks) /\ Box \in Nat /\ (shown # NoChat => Box \in DOMAIN bound)
  BY DEF ComposerTypeOK, Box
<1>1. ASSUME NEW c \in Talks, OpenChat(c) PROVE OpenBox'
  <2>1. openings = {}
    BY <1>1 DEF OpenChat, Slipped, When
  <2>2. bound' = Append(bound, {}) /\ Box' = Box + 1 /\ bound'[Box'] = {}
    BY <1>1, <1>b DEF OpenChat, Box
  <2> DEFINE q == [chat |-> c, of |-> Box + 1, box |-> 0, found |-> 0]
  <2>3. openings' = {q} /\ q.box = 0 /\ q.chat = c
    BY <1>1, <2>1 DEF OpenChat
  <2> HIDE DEF q
  <2>4. shown' = c /\ ready' = FALSE
    BY <1>1 DEF OpenChat
  <2> QED  BY <2>2, <2>3, <2>4 DEF OpenBox
<1>2. ASSUME NEW o \in openings, BindBox(o) PROVE OpenBox'
  <2>1. CASE shown = NoChat
    BY <2>1, <1>2, <1>a DEF BindBox, OpenBox, Box
  <2>2. CASE shown # NoChat
    <3> DEFINE q == [o EXCEPT !.box = Box, !.found = drafts[o.chat]]
    <3>1. o \in Opening
      BY DEF ComposerTypeOK
    <3>2. q.box = Box /\ q.chat = o.chat
      BY <3>1 DEF Opening
    <3>3. openings' = {q}
      BY <2>2, <1>2, <1>a DEF BindBox, OpenBox
    <3>4. bound[Box] = {} /\ o.chat = shown
      BY <2>2, <1>2, <1>a DEF BindBox, OpenBox
    <3>5. bound' = [bound EXCEPT ![Box] = bound[Box] \cup {o.chat}]
      BY <2>2, <1>2 DEF BindBox
    <3>6. bound'[Box] = {shown} /\ Len(bound') = Len(bound)
      BY <3>4, <3>5, <1>b, <2>2
    <3>7. Box' = Box /\ Box # 0
      BY <3>6, <2>2 DEF Box, ComposerTypeOK
    <3>8. UNCHANGED <<shown, ready>>
      BY <1>2 DEF BindBox
    <3>9. ready <=> openings = {}
      BY <1>a, <2>2 DEF OpenBox
    <3> HIDE DEF q
    <3> QED  BY <3>2, <3>3, <3>4, <3>6, <3>7, <3>8, <3>9 DEF OpenBox
  <2> QED  BY <2>1, <2>2
<1>3. ASSUME NEW o \in openings, RestoreDraft(o) PROVE OpenBox'
  BY <1>3, <1>a DEF RestoreDraft, OpenBox, Box
<1>4. CASE BackToList
  BY <1>4, <1>a DEF BackToList, OpenBox, Box
<1>5. CASE TypeText
  BY <1>5, <1>a DEF TypeText, OpenBox, Box
<1>6. CASE ClearBox
  BY <1>6, <1>a DEF ClearBox, OpenBox, Box
<1>7. ASSUME NEW w \in saving, DraftSaved(w) PROVE OpenBox'
  BY <1>7, <1>a DEF DraftSaved, OpenBox, boxVars, Box
<1>8. CASE SendText
  BY <1>8, <1>a DEF SendText, OpenBox, Box
<1>9. ASSUME NEW s \in leaving, TextEncrypted(s) \/ NotEncrypted(s) PROVE OpenBox'
  <2>1. UNCHANGED <<shown, bound, ready, openings>>
    BY <1>9 DEF TextEncrypted, NotEncrypted, boxVars
  <2> QED  BY <2>1, <1>a DEF OpenBox, Box
<1>10. CASE OpenDialog \/ CloseDialog \/ ConfirmSchedule
  <2>1. UNCHANGED <<shown, bound, ready, openings>>
    BY <1>10 DEF OpenDialog, CloseDialog, ConfirmSchedule, boxVars
  <2> QED  BY <2>1, <1>a DEF OpenBox, Box
<1>11. ASSUME NEW r \in scheduling, TextScheduled(r) \/ NotScheduled(r) PROVE OpenBox'
  <2>1. UNCHANGED <<shown, bound, ready, openings>>
    BY <1>11 DEF TextScheduled, NotScheduled, boxVars
  <2> QED  BY <2>1, <1>a DEF OpenBox, Box
<1>12. CASE ReloadPage
  BY <1>12, <1>a DEF ReloadPage, OpenBox, Box
<1>13. CASE PruneOldDrafts \/ MonthPasses
  <2>1. UNCHANGED <<shown, bound, ready, openings>>
    BY <1>13 DEF PruneOldDrafts, MonthPasses, boxVars
  <2> QED  BY <2>1, <1>a DEF OpenBox, Box
<1>14. CASE UNCHANGED composerVars
  BY <1>14, <1>a DEF composerVars, OpenBox, boxVars, Box
<1> QED
  BY <1>1, <1>2, <1>3, <1>4, <1>5, <1>6, <1>7, <1>8, <1>9, <1>10, <1>11, <1>12, <1>13, <1>14
     DEF ComposerNext

(* The overlaps that TypedIsKept supposes away.                             *)
Losses == {"crossed", "early", "unread", "late", "lost", "overwritten", "erased", "pruned"}

(* What keeps a text: it is stored, or a save of it is under way that no    *)
(* older save can undo; and a box that is ready, or a draft that is about   *)
(* to be restored, holds the same text.                                     *)
Kept ==
    \A c \in Talks : latest[c] # 0 =>
        /\ drafts[c] = latest[c] \/ [chat |-> c, text |-> latest[c]] \in saving
        /\ ready /\ shown = c => written = latest[c]
        /\ \A o \in openings : o.chat = c /\ o.box # 0 => o.found = latest[c]
        /\ \A w \in saving : w.chat = c => w.text <= latest[c]

NothingLost == slips \cap Losses = {} => Kept

(* Every step keeps that, for each overlap the property supposes away.      *)
LEMMA NothingLostStep ==
    ASSUME ComposerTypeOK, OneOpens, NothingLost, [ComposerNext]_composerVars
    PROVE  NothingLost'
<1> SUFFICES ASSUME slips' \cap Losses = {} PROVE Kept'
  BY DEF NothingLost
<1> USE ComposerAssumption
<1>a. OpenBox /\ Kept
  BY SlipsStay DEF OneOpens, NothingLost, Losses
<1>b. \A k \in Losses : k \notin slips'
  OBVIOUS
<1>c. /\ "crossed" \notin slips' /\ "early" \notin slips' /\ "unread" \notin slips'
      /\ "late" \notin slips' /\ "lost" \notin slips' /\ "overwritten" \notin slips'
      /\ "erased" \notin slips' /\ "pruned" \notin slips'
  BY <1>b DEF Losses
<1>d. /\ drafts \in [Talks -> Nat] /\ latest \in [Talks -> Nat] /\ saving \subseteq Save
      /\ openings \subseteq Opening /\ Len(typedIn) \in Nat
      /\ \A w \in saving : w.text <= Len(typedIn)
  BY DEF ComposerTypeOK, Text
<1>1. ASSUME NEW c \in Talks, OpenChat(c) PROVE Kept'
  <2>1. openings' = {[chat |-> c, of |-> Box + 1, box |-> 0, found |-> 0]} /\ ready' = FALSE
    BY <1>1, <1>c DEF OpenChat, Slipped, When
  <2>2. UNCHANGED <<latest, drafts, saving>>
    BY <1>1 DEF OpenChat, textVars
  <2> QED  BY <2>1, <2>2, <1>a DEF Kept
<1>2. ASSUME NEW o \in openings, BindBox(o) PROVE Kept'
  <2>1. UNCHANGED <<latest, shown, written, ready, drafts, saving>>
    BY <1>2 DEF BindBox, textVars
  <2>2. ~Saving({o.chat})
    BY <1>2, <1>c DEF BindBox, Slipped, When
  <2>3. latest[o.chat] # 0 => drafts[o.chat] = latest[o.chat]
    BY <2>2, <1>a, <1>d DEF Kept, Saving, Opening
  <2> DEFINE q == [o EXCEPT !.box = Box, !.found = drafts[o.chat]]
  <2>4. q.chat = o.chat /\ q.found = drafts[o.chat]
    BY <1>d DEF Opening
  <2>5. openings' \subseteq openings \cup {q}
    BY <1>2 DEF BindBox
  <2> HIDE DEF q
  <2> QED  BY <2>1, <2>3, <2>4, <2>5, <1>a DEF Kept
<1>3. ASSUME NEW o \in openings, RestoreDraft(o) PROVE Kept'
  <2>1. UNCHANGED <<latest, shown, drafts, saving>> /\ openings' \subseteq openings /\ o.box # 0
    BY <1>3 DEF RestoreDraft, textVars
  <2>2. CASE shown = NoChat \/ o.box # Box
    BY <2>1, <2>2, <1>3, <1>a DEF RestoreDraft, Kept
  <2>3. CASE shown # NoChat /\ o.box = Box
    <3>1. o.chat = shown
      BY <2>3, <1>a DEF OpenBox
    <3>2. written' = IF o.found # 0 THEN o.found ELSE written
      BY <2>3, <1>3 DEF RestoreDraft
    <3> QED  BY <2>1, <3>1, <3>2, <1>a DEF Kept
  <2> QED  BY <2>2, <2>3
<1>4. CASE BackToList
  BY <1>4, <1>a DEF BackToList, Kept, textVars
<1>5. CASE TypeText
  <2> DEFINE n == Len(typedIn')
  <2>1. n = Len(typedIn) + 1
    BY <1>5 DEF TypeText, ComposerTypeOK
  <2>2. openings = {} /\ bound[Box] = {shown} /\ shown \in Talks
    BY <1>5, <1>a, <1>c DEF TypeText, Slipped, When, OpenBox, ComposerTypeOK
  <2>3. saving' = saving \cup {[chat |-> shown, text |-> n]}
    BY <1>5, <2>2 DEF TypeText
  <2>4. /\ latest' = [latest EXCEPT ![shown] = n] /\ written' = n
        /\ UNCHANGED <<shown, ready, openings, drafts>>
    BY <1>5 DEF TypeText
  <2>5. [chat |-> shown, text |-> n].chat = shown /\ [chat |-> shown, text |-> n].text = n
    OBVIOUS
  <2> HIDE DEF n
  <2> SUFFICES ASSUME NEW c \in Talks, latest'[c] # 0
               PROVE /\ drafts[c] = latest'[c] \/ [chat |-> c, text |-> latest'[c]] \in saving'
                     /\ ready /\ shown = c => written' = latest'[c]
                     /\ \A w \in saving' : w.chat = c => w.text <= latest'[c]
    BY <2>2, <2>4 DEF Kept
  <2>6. CASE c = shown
    BY <2>6, <2>1, <2>2, <2>3, <2>4, <2>5, <1>d DEF Save
  <2>7. CASE c # shown
    BY <2>7, <2>2, <2>3, <2>4, <2>5, <1>a, <1>d DEF Kept
  <2> QED  BY <2>6, <2>7
<1>6. CASE ClearBox
  <2>1. openings = {} /\ bound[Box] = {shown} /\ shown \in Talks
    BY <1>6, <1>a, <1>c DEF ClearBox, Slipped, When, OpenBox, ComposerTypeOK
  <2> QED  BY <1>6, <2>1, <1>a, <1>d DEF ClearBox, Kept, Without
<1>7. ASSUME NEW w \in saving, DraftSaved(w) PROVE Kept'
  <2>1. /\ UNCHANGED <<shown, written, ready, latest, openings>>
        /\ saving' = saving \ {w} /\ drafts' = [drafts EXCEPT ![w.chat] = w.text]
    BY <1>7 DEF DraftSaved, boxVars, textVars
  <2>2. ~(w.text < drafts[w.chat])
    BY <1>7, <1>c DEF DraftSaved, Slipped, When
  <2>3. w.chat \in Talks /\ w.text \in Nat
    BY <1>d DEF Save
  <2> SUFFICES ASSUME NEW c \in Talks, latest[c] # 0
               PROVE drafts'[c] = latest[c] \/ [chat |-> c, text |-> latest[c]] \in saving'
    BY <2>1, <1>a DEF Kept
  <2>4. CASE c = w.chat
    <3>1. w.text <= latest[c]
      BY <2>4, <1>a DEF Kept
    <3>2. drafts'[c] = w.text
      BY <2>1, <2>3, <2>4, <1>d
    <3>3. CASE drafts[c] = latest[c]
      <4>1. drafts[c] \in Nat /\ latest[c] \in Nat
        BY <1>d
      <4> QED  BY <4>1, <2>2, <2>3, <2>4, <3>1, <3>2, <3>3
    <3>4. CASE [chat |-> c, text |-> latest[c]] \in saving
      BY <3>2, <3>4, <2>1
    <3> QED  BY <3>3, <3>4, <1>a DEF Kept
  <2>5. CASE c # w.chat
    BY <2>5, <2>1, <1>a, <1>d DEF Kept
  <2> QED  BY <2>4, <2>5
<1>8. CASE SendText
  BY <1>8, <1>a, <1>d DEF SendText, Kept, DealtWith, Without
<1>9. ASSUME NEW s \in leaving, TextEncrypted(s) PROVE Kept'
  BY <1>9, <1>a DEF TextEncrypted, Kept, boxVars, textVars
<1>10. ASSUME NEW s \in leaving, NotEncrypted(s) PROVE Kept'
  <2>1. UNCHANGED <<shown, ready, latest, openings, drafts, saving>>
    BY <1>10 DEF NotEncrypted, textVars
  <2>2. written' = written \/ written = 0
    BY <1>10, <1>c DEF NotEncrypted, Slipped, When
  <2> QED  BY <2>1, <2>2, <1>a DEF Kept
<1>11. CASE OpenDialog \/ CloseDialog \/ ConfirmSchedule
  BY <1>11, <1>a DEF OpenDialog, CloseDialog, ConfirmSchedule, Kept, boxVars, textVars
<1>12. ASSUME NEW r \in scheduling, TextScheduled(r) PROVE Kept'
  <2>1. /\ UNCHANGED <<shown, ready, openings, saving>>
        /\ drafts' = Without(bound[r.box]) /\ DealtWith(r.text)
    BY <1>12 DEF TextScheduled
  <2>2. /\ \A c \in bound[r.box] : drafts[c] \in {0, r.text}
        /\ written' = written \/ written = r.text
    BY <1>12, <1>c DEF TextScheduled, Slipped, When
  <2>3. \A c \in Talks : latest'[c] # 0 => latest'[c] = latest[c] /\ latest[c] # r.text
    BY <2>1, <1>d DEF DealtWith
  <2>4. \A c \in Talks : latest'[c] # 0 /\ drafts[c] = latest[c] => drafts'[c] = drafts[c]
    BY <2>1, <2>2, <2>3 DEF Without
  <2> QED  BY <2>1, <2>2, <2>3, <2>4, <1>a DEF Kept
<1>13. ASSUME NEW r \in scheduling, NotScheduled(r) PROVE Kept'
  BY <1>13, <1>a DEF NotScheduled, Kept, boxVars, textVars
<1>14. CASE ReloadPage
  <2>1. saving = {}
    BY <1>14, <1>c DEF ReloadPage, Slipped, When
  <2> QED  BY <1>14, <2>1, <1>a DEF ReloadPage, Kept, textVars
<1>15. CASE PruneOldDrafts
  <2>1. drafts' = Without({}) /\ UNCHANGED <<boxVars, textVars, openings, saving>>
    BY <1>15, <1>c DEF PruneOldDrafts, Slipped, When
  <2>2. drafts' = drafts
    BY <2>1, <1>d DEF Without
  <2> QED  BY <2>1, <2>2, <1>a DEF Kept, boxVars, textVars
<1>16. CASE MonthPasses
  BY <1>16, <1>a DEF MonthPasses, Kept, boxVars, textVars
<1>17. CASE UNCHANGED composerVars
  BY <1>17, <1>a DEF composerVars, Kept, boxVars, textVars
<1> QED
  BY <1>1, <1>2, <1>3, <1>4, <1>5, <1>6, <1>7, <1>8, <1>9, <1>10, <1>11, <1>12, <1>13, <1>14,
     <1>15, <1>16, <1>17 DEF ComposerNext

(* A text that was sent or is being encrypted.                              *)
Gone(t) == (\E s \in leaving : s.text = t) \/ (\E i \in DOMAIN posts : posts[i].text = t)

(* A text that is somewhere in the page or its store for chat c was typed   *)
(* there and was not sent.                                                  *)
Owns(t, c) == t # 0 => typedIn[t] = c /\ ~Gone(t)

(* All texts are where they were typed: drafts, saves, drafts to restore,   *)
(* the box, and what is being scheduled.                                    *)
AtHome ==
    /\ \A c \in Talks : Owns(drafts[c], c)
    /\ \A w \in saving : w.text # 0 /\ Owns(w.text, w.chat)
    /\ \A o \in openings : Owns(o.found, o.chat)
    /\ Owns(written, shown)
    /\ \A r \in scheduling : Owns(r.text, r.to)

(* What is under way belongs to the box on the page, no text twice.         *)
OnItsWay ==
    /\ \A s \in leaving \cup scheduling :
           s.to = shown /\ s.box = Box /\ ready /\ typedIn[s.text] = s.to
    /\ \A r, s \in scheduling : r = s
    /\ scheduling # {} => leaving = {}
    /\ \A r, s \in leaving : r.text = s.text => r = s
    /\ \A s \in leaving, i \in DOMAIN posts : posts[i].text # s.text

(* What was posted.                                                         *)
Delivered ==
    \A i \in DOMAIN posts :
        /\ posts[i].text \in Text \ {0} /\ posts[i].to = typedIn[posts[i].text]
        /\ posts[i].under = posts[i].to
        /\ \A k \in DOMAIN posts : posts[k].text = posts[i].text => k = i

(* The overlaps that SentOnceToItsChat supposes away.                       *)
Mixups == {"crossed", "moved", "pending", "again"}

NothingMixed == slips \cap Mixups = {} => AtHome /\ OnItsWay /\ Delivered

(* Every step keeps that (sendMessageHandler, showScheduleDialog).          *)
LEMMA NothingMixedStep ==
    ASSUME ComposerTypeOK, OneOpens, NothingMixed, [ComposerNext]_composerVars
    PROVE  NothingMixed'
<1> SUFFICES ASSUME slips' \cap Mixups = {} PROVE AtHome' /\ OnItsWay' /\ Delivered'
  BY DEF NothingMixed
<1> USE ComposerAssumption
<1>a. OpenBox /\ AtHome /\ OnItsWay /\ Delivered
  BY SlipsStay DEF OneOpens, NothingMixed, Mixups
<1>b. "crossed" \notin slips' /\ "moved" \notin slips' /\ "pending" \notin slips' /\ "again" \notin slips'
  BY DEF Mixups
<1>c. /\ drafts \in [Talks -> Text] /\ saving \subseteq Save /\ openings \subseteq Opening
      /\ leaving \subseteq Sending /\ Len(typedIn) \in Nat
      /\ typedIn \in Seq(Talks) /\ posts \in Seq(Post) /\ written \in Text
      /\ \A s \in leaving \cup scheduling : s.text \in Text \ {0}
      /\ \A w \in saving : w.text \in Text
      /\ \A o \in openings : o.found \in Text
      /\ shown \in Talks \cup {NoChat} /\ (shown = NoChat => ~ready /\ written = 0)
  BY DEF ComposerTypeOK
<1>d. ASSUME UNCHANGED <<typedIn, leaving, posts>>
      PROVE  \A t, c : Owns(t, c)' <=> Owns(t, c)
  BY <1>d DEF Owns, Gone
<1>e. ASSUME UNCHANGED <<typedIn, posts, leaving, scheduling, shown, bound, ready>>
      PROVE  OnItsWay' /\ Delivered'
  BY <1>e, <1>a DEF OnItsWay, Delivered, Text, Box
<1>1. ASSUME NEW c \in Talks, OpenChat(c) PROVE AtHome' /\ OnItsWay' /\ Delivered'
  <2> DEFINE q == [chat |-> c, of |-> Box + 1, box |-> 0, found |-> 0]
  <2>1. leaving = {} /\ scheduling = {} /\ openings = {}
    BY <1>1, <1>b DEF OpenChat, Slipped, When, Moved
  <2>2. /\ openings' = {q} /\ q.found = 0 /\ written' = 0
        /\ UNCHANGED <<leaving, scheduling, posts, typedIn, drafts, saving>>
    BY <1>1, <2>1 DEF OpenChat, sendVars, textVars
  <2> HIDE DEF q
  <2>3. AtHome'
    BY <1>a, <1>d, <2>1, <2>2 DEF AtHome, Owns
  <2>4. OnItsWay' /\ Delivered'
    BY <1>a, <2>1, <2>2 DEF OnItsWay, Delivered, Text
  <2> QED  BY <2>3, <2>4
<1>2. ASSUME NEW o \in openings, BindBox(o) PROVE AtHome' /\ OnItsWay' /\ Delivered'
  <2> DEFINE q == [o EXCEPT !.box = Box, !.found = drafts[o.chat]]
  <2>1. UNCHANGED <<leaving, scheduling, posts, typedIn, drafts, saving, shown, written, ready>>
    BY <1>2 DEF BindBox, sendVars, textVars
  <2>2. q.chat = o.chat /\ q.found = drafts[o.chat] /\ o.chat \in Talks
    BY <1>c DEF Opening
  <2>3. openings' \subseteq openings \cup {q}
    BY <1>2 DEF BindBox
  <2> HIDE DEF q
  <2>4. AtHome'
    BY <1>a, <1>d, <2>1, <2>2, <2>3 DEF AtHome
  <2>5. Box' = Box
    <3>1. bound \in Seq(SUBSET Talks)
      BY DEF ComposerTypeOK
    <3>2. bound' = bound \/ bound' = [bound EXCEPT ![Box] = @ \cup {o.chat}]
      BY <1>2 DEF BindBox
    <3>3. Len(bound') = Len(bound)
      BY <3>1, <3>2
    <3> QED  BY <3>3 DEF Box
  <2>6. OnItsWay' /\ Delivered'
    BY <1>a, <2>1, <2>5 DEF OnItsWay, Delivered, Text
  <2> QED  BY <2>4, <2>6
<1>3. ASSUME NEW o \in openings, RestoreDraft(o) PROVE AtHome' /\ OnItsWay' /\ Delivered'
  <2>1. UNCHANGED <<leaving, scheduling, posts, typedIn, drafts, saving, shown, bound>>
        /\ openings' \subseteq openings
    BY <1>3 DEF RestoreDraft, sendVars, textVars
  <2>2. CASE shown = NoChat \/ o.box # Box
    BY <2>1, <2>2, <1>3, <1>a, <1>d, <1>e DEF RestoreDraft, AtHome
  <2>3. CASE shown # NoChat /\ o.box = Box
    <3>1. o.chat = shown
      BY <2>3, <1>a DEF OpenBox
    <3>2. ready' = TRUE /\ written' = IF o.found # 0 THEN o.found ELSE written
      BY <2>3, <1>3 DEF RestoreDraft
    <3>3. AtHome'
      BY <2>1, <3>1, <3>2, <1>a, <1>d DEF AtHome
    <3>4. OnItsWay' /\ Delivered'
      BY <2>1, <3>2, <1>a DEF OnItsWay, Delivered, Text, Box
    <3> QED  BY <3>3, <3>4
  <2> QED  BY <2>2, <2>3
<1>4. CASE BackToList
  <2>1. leaving = {} /\ scheduling = {}
    BY <1>4, <1>b DEF BackToList, Slipped, When, Moved
  <2>2. /\ written' = 0
        /\ UNCHANGED <<leaving, scheduling, posts, typedIn, openings, drafts, saving>>
    BY <1>4 DEF BackToList, sendVars, textVars
  <2>3. AtHome'
    BY <1>a, <1>d, <2>1, <2>2 DEF AtHome, Owns
  <2>4. OnItsWay' /\ Delivered'
    BY <1>a, <2>1, <2>2 DEF OnItsWay, Delivered, Text
  <2> QED  BY <2>3, <2>4
<1>5. CASE TypeText
  <2>0. PICK n : n = Len(typedIn')
    OBVIOUS
  <2>1. /\ typedIn' = Append(typedIn, shown) /\ n = Len(typedIn) + 1 /\ shown \in Talks
        /\ typedIn'[n] = shown /\ \A t \in Text \ {0} : typedIn'[t] = typedIn[t]
    BY <1>5, <1>c, <2>0 DEF TypeText, Text
  <2>2. /\ UNCHANGED <<leaving, scheduling, posts, shown, bound, ready, openings, drafts>>
        /\ written' = n
        /\ saving' = saving \cup {[chat |-> c, text |-> n] : c \in bound[Box]}
    BY <1>5, <2>0 DEF TypeText, sendVars
  <2>3. bound[Box] \subseteq {shown}
    BY <1>5, <1>a DEF TypeText, OpenBox
  <2>4. n \notin Text /\ n # 0 /\ Text \subseteq Text'
    BY <2>0, <2>1, <1>c DEF Text
  <2>5. \A t : Gone(t)' <=> Gone(t)
    BY <2>2 DEF Gone
  <2>6. ~Gone(n)
    BY <2>4, <1>a, <1>c DEF Gone, Delivered
  <2>7. Owns(n, shown)'
    BY <2>1, <2>2, <2>5, <2>6 DEF Owns
  <2>8. \A t \in Text : \A c : Owns(t, c) => Owns(t, c)'
    BY <2>1, <2>5 DEF Owns
  <2>9. AtHome'
    <3>1. \A c \in Talks : Owns(drafts[c], c)'
      BY <2>2, <2>8, <1>a, <1>c DEF AtHome
    <3>2. \A w \in saving' : w.text # 0 /\ Owns(w.text, w.chat)'
      BY <2>2, <2>3, <2>4, <2>7, <2>8, <1>a, <1>c DEF AtHome
    <3>3. \A o \in openings : Owns(o.found, o.chat)'
      BY <2>8, <1>a, <1>c DEF AtHome
    <3>4. \A r \in scheduling : Owns(r.text, r.to)'
      BY <2>8, <1>a, <1>c DEF AtHome
    <3>5. Owns(written, shown)'
      BY <2>2, <2>7
    <3> QED  BY <2>2, <3>1, <3>2, <3>3, <3>4, <3>5 DEF AtHome
  <2>10. OnItsWay'
    BY <2>1, <2>2, <1>a, <1>c DEF OnItsWay, Box
  <2>11. Delivered'
    BY <2>1, <2>2, <2>4, <1>a DEF Delivered
  <2> QED  BY <2>9, <2>10, <2>11
<1>6. CASE ClearBox
  <2>1. /\ UNCHANGED <<leaving, scheduling, posts, typedIn, shown, bound, ready, openings, saving>>
        /\ written' = 0 /\ drafts' = Without(bound[Box])
    BY <1>6 DEF ClearBox, sendVars
  <2>2. \A c \in Talks : drafts'[c] \in {0, drafts[c]}
    BY <2>1 DEF Without
  <2> QED  BY <2>1, <2>2, <1>a, <1>d, <1>e DEF AtHome, Owns
<1>7. ASSUME NEW w \in saving, DraftSaved(w) PROVE AtHome' /\ OnItsWay' /\ Delivered'
  <2>1. /\ UNCHANGED <<leaving, scheduling, posts, typedIn, shown, written, bound, ready, openings>>
        /\ saving' = saving \ {w} /\ drafts' = [drafts EXCEPT ![w.chat] = w.text]
    BY <1>7 DEF DraftSaved, boxVars, sendVars, textVars
  <2>2. \A c \in Talks : drafts'[c] = IF c = w.chat THEN w.text ELSE drafts[c]
    BY <2>1, <1>c
  <2>3. AtHome'
    BY <2>1, <2>2, <1>a, <1>d DEF AtHome
  <2> QED  BY <2>1, <2>3, <1>e
<1>8. CASE SendText
  <2> DEFINE q == [text |-> written, to |-> shown, box |-> Box]
  <2>1. /\ UNCHANGED <<scheduling, posts, typedIn, shown, bound, ready, openings, saving>>
        /\ leaving' = leaving \cup {q} /\ written' = 0 /\ drafts' = Without({shown})
        /\ ready /\ written # 0
    BY <1>8 DEF SendText
  <2>2. q.text = written /\ q.to = shown /\ q.box = Box
    OBVIOUS
  <2> HIDE DEF q
  <2>3. ~Saving({shown}) /\ scheduling = {}
    BY <1>8, <1>b DEF SendText, Slipped, When
  <2>4. openings = {} /\ shown \in Talks
    BY <2>1, <1>a, <1>c DEF OpenBox
  <2>5. \A t : Gone(t)' <=> Gone(t) \/ t = written
    BY <2>1, <2>2 DEF Gone
  <2>6. typedIn[written] = shown /\ ~Gone(written)
    BY <2>1, <1>a DEF AtHome, Owns
  <2>7. \A t, c : Owns(t, c) /\ c # shown => Owns(t, c)'
    BY <2>1, <2>5, <2>6 DEF Owns
  <2>8. \A c \in Talks : drafts'[c] = IF c = shown THEN 0 ELSE drafts[c]
    BY <2>1 DEF Without
  <2>9. \A w \in saving : w.chat # shown
    BY <2>3 DEF Saving
  <2>10. \A c : Owns(0, c)'
    BY DEF Owns
  <2>11. AtHome'
    <3>2. \A c \in Talks : \A d : d = drafts'[c] => Owns(d, c)'
      BY <2>7, <2>8, <2>10, <1>a DEF AtHome
    <3>3. \A w \in saving : w.text # 0 /\ Owns(w.text, w.chat)'
      BY <2>7, <2>9, <1>a DEF AtHome
    <3> QED  BY <2>1, <2>3, <2>4, <2>10, <3>2, <3>3 DEF AtHome, Owns
  <2>12. OnItsWay'
    <3>1. \A s \in leaving : s.text # written
      BY <2>6 DEF Gone
    <3>2. \A i \in DOMAIN posts : posts[i].text # written
      BY <2>6 DEF Gone
    <3>3. Box' = Box
      BY <2>1 DEF Box
    <3> QED  BY <2>1, <2>2, <2>3, <2>6, <3>1, <3>2, <3>3, <1>a DEF OnItsWay
  <2>13. Delivered'
    BY <2>1, <1>a DEF Delivered, Text
  <2> QED  BY <2>11, <2>12, <2>13
<1>9. ASSUME NEW s \in leaving, TextEncrypted(s) PROVE AtHome' /\ OnItsWay' /\ Delivered'
  <2> DEFINE p == [text |-> s.text, to |-> s.to, under |-> shown]
             n == Len(posts) + 1
  <2>1. /\ UNCHANGED <<scheduling, typedIn, shown, written, bound, ready, openings, drafts, saving>>
        /\ leaving' = leaving \ {s} /\ posts' = Append(posts, p)
    BY <1>9 DEF TextEncrypted, boxVars, textVars
  <2>2. p.text = s.text /\ p.to = s.to /\ p.under = shown /\ p \in Post
    BY <1>c DEF Post, Sending
  <2> HIDE DEF p
  <2>3. /\ DOMAIN posts' = DOMAIN posts \cup {n} /\ n \notin DOMAIN posts
        /\ posts'[n] = p /\ \A i \in DOMAIN posts : posts'[i] = posts[i]
    BY <2>1, <2>2, <1>c
  <2> HIDE DEF n
  <2>4. \A t : Gone(t)' => Gone(t)
    BY <2>1, <2>2, <2>3 DEF Gone
  <2>5. \A t, c : Owns(t, c) => Owns(t, c)'
    BY <2>1, <2>4 DEF Owns
  <2>6. AtHome'
    BY <2>1, <2>5, <1>a DEF AtHome
  <2>7. s.to = shown /\ typedIn[s.text] = s.to /\ s.text \in Text \ {0}
        /\ \A i \in DOMAIN posts : posts[i].text # s.text
    BY <1>a, <1>c DEF OnItsWay
  <2>8. OnItsWay'
    <3>1. Box' = Box
      BY <2>1 DEF Box
    <3>2. \A x \in leaving', i \in DOMAIN posts' : posts'[i].text # x.text
      BY <2>1, <2>2, <2>3, <1>a DEF OnItsWay
    <3> QED  BY <2>1, <3>1, <3>2, <1>a DEF OnItsWay
  <2>9. Delivered'
    BY <2>1, <2>2, <2>3, <2>7, <1>a DEF Delivered, Text
  <2> QED  BY <2>6, <2>8, <2>9
<1>10. ASSUME NEW s \in leaving, NotEncrypted(s) PROVE AtHome' /\ OnItsWay' /\ Delivered'
  <2>1. /\ UNCHANGED <<scheduling, posts, typedIn, shown, bound, ready, openings, drafts, saving>>
        /\ leaving' = leaving \ {s} /\ written' \in {written, s.text}
    BY <1>10 DEF NotEncrypted, textVars
  <2>2. \A t : Gone(t)' => Gone(t)
    BY <2>1 DEF Gone
  <2>3. \A t, c : Owns(t, c) => Owns(t, c)'
    BY <2>1, <2>2 DEF Owns
  <2>4. ~Gone(s.text)'
    BY <2>1, <1>a DEF Gone, OnItsWay
  <2>5. Owns(s.text, shown)'
    BY <2>1, <2>4, <1>a DEF Owns, OnItsWay
  <2>6. AtHome'
    BY <2>1, <2>3, <2>5, <1>a DEF AtHome
  <2>7. OnItsWay'
    BY <2>1, <1>a DEF OnItsWay, Box
  <2>8. Delivered'
    BY <2>1, <1>a DEF Delivered, Text
  <2> QED  BY <2>6, <2>7, <2>8
<1>11. CASE OpenDialog \/ CloseDialog
  <2>1. UNCHANGED <<scheduling, leaving, posts, typedIn, shown, written, bound, ready, openings,
                    drafts, saving>>
    BY <1>11 DEF OpenDialog, CloseDialog, boxVars, textVars
  <2> QED  BY <2>1, <1>a, <1>d, <1>e DEF AtHome
<1>12. CASE ConfirmSchedule
  <2> DEFINE q == [text |-> written, to |-> shown, box |-> Box, of |-> Cardinality(scheduling)]
  <2>1. /\ UNCHANGED <<leaving, posts, typedIn, shown, written, bound, ready, openings, drafts, saving>>
        /\ scheduling' = scheduling \cup {q}
    BY <1>12 DEF ConfirmSchedule, boxVars, textVars
  <2>2. leaving = {} /\ scheduling = {}
    BY <1>12, <1>b DEF ConfirmSchedule, Slipped, When, Moved
  <2>3. q.text = written /\ q.to = shown /\ q.box = Box
    OBVIOUS
  <2>4. ready /\ written # 0 /\ typedIn[written] = shown
    BY <1>12, <1>a DEF ConfirmSchedule, ComposerTypeOK, AtHome, Owns
  <2> HIDE DEF q
  <2>5. AtHome'
    BY <2>1, <2>2, <2>3, <1>a, <1>d DEF AtHome
  <2>6. OnItsWay'
    <3>1. Box' = Box
      BY <2>1 DEF Box
    <3> QED  BY <2>1, <2>2, <2>3, <2>4, <3>1, <1>a DEF OnItsWay
  <2>7. Delivered'
    BY <2>1, <1>a DEF Delivered, Text
  <2> QED  BY <2>5, <2>6, <2>7
<1>13. ASSUME NEW r \in scheduling, TextScheduled(r) PROVE AtHome' /\ OnItsWay' /\ Delivered'
  <2> DEFINE p == [text |-> r.text, to |-> r.to, under |-> r.to]
             n == Len(posts) + 1
  <2>1. /\ UNCHANGED <<shown, bound, ready, openings, saving, leaving, typedIn>>
        /\ scheduling' = scheduling \ {r} /\ posts' = Append(posts, p)
        /\ drafts' = Without(bound[r.box])
        /\ written' = IF shown # NoChat /\ r.box = Box THEN 0 ELSE written
    BY <1>13 DEF TextScheduled
  <2>2. p.text = r.text /\ p.to = r.to /\ p.under = r.to /\ p \in Post
    <3>1. r.text \in Nat /\ r.to \in Talks
      BY <1>c DEF ComposerTypeOK, Text
    <3> QED  BY <3>1 DEF Post
  <2> HIDE DEF p
  <2>3. /\ DOMAIN posts' = DOMAIN posts \cup {n} /\ n \notin DOMAIN posts
        /\ posts'[n] = p /\ \A i \in DOMAIN posts : posts'[i] = posts[i]
    BY <2>1, <2>2, <1>c
  <2> HIDE DEF n
  <2>4. /\ r.to = shown /\ r.box = Box /\ ready /\ leaving = {} /\ scheduling' = {}
        /\ typedIn[r.text] = shown /\ ~Gone(r.text) /\ r.text \in Text \ {0}
    <3>1. r.to = shown /\ r.box = Box /\ ready /\ leaving = {} /\ typedIn[r.text] = shown
      BY <1>a DEF OnItsWay
    <3>2. scheduling' = {}
      BY <2>1, <1>a DEF OnItsWay
    <3>3. ~Gone(r.text) /\ r.text \in Text \ {0}
      BY <1>a, <1>c DEF AtHome, Owns
    <3> QED  BY <3>1, <3>2, <3>3
  <2>5. shown \in Talks /\ openings = {} /\ bound[Box] = {shown} /\ written' = 0
    BY <2>1, <2>4, <1>a, <1>c DEF OpenBox
  <2>6. \A w \in saving : w.chat # shown
    BY <1>13, <1>b, <2>4, <2>5 DEF TextScheduled, Slipped, When, Saving
  <2>7. \A t : Gone(t)' => Gone(t) \/ t = r.text
    BY <2>1, <2>2, <2>3 DEF Gone
  <2>8. \A t, c : Owns(t, c) /\ c # shown => Owns(t, c)'
    BY <2>1, <2>4, <2>7 DEF Owns
  <2>9. \A c \in Talks : drafts'[c] = IF c = shown THEN 0 ELSE drafts[c]
    BY <2>1, <2>4, <2>5 DEF Without
  <2>10. AtHome'
    <3>1. \A c : Owns(0, c)'
      BY DEF Owns
    <3>2. \A c \in Talks : \A d : d = drafts'[c] => Owns(d, c)'
      BY <2>8, <2>9, <3>1, <1>a DEF AtHome
    <3>3. \A w \in saving : w.text # 0 /\ Owns(w.text, w.chat)'
      BY <2>6, <2>8, <1>a DEF AtHome
    <3> QED  BY <2>1, <2>4, <2>5, <3>1, <3>2, <3>3 DEF AtHome, Owns
  <2>11. OnItsWay'
    BY <2>1, <2>4 DEF OnItsWay
  <2>12. Delivered'
    <3>1. \A i \in DOMAIN posts : posts[i].text # r.text
      BY <2>4 DEF Gone
    <3> QED  BY <2>1, <2>2, <2>3, <2>4, <3>1, <1>a DEF Delivered, Text
  <2> QED  BY <2>10, <2>11, <2>12
<1>14. ASSUME NEW r \in scheduling, NotScheduled(r) PROVE AtHome' /\ OnItsWay' /\ Delivered'
  <2>1. /\ UNCHANGED <<leaving, posts, typedIn, shown, written, bound, ready, openings, drafts, saving>>
        /\ scheduling' = scheduling \ {r}
    BY <1>14 DEF NotScheduled, boxVars, textVars
  <2>2. AtHome'
    BY <2>1, <1>a, <1>d DEF AtHome
  <2>3. OnItsWay' /\ Delivered'
    BY <2>1, <1>a DEF OnItsWay, Delivered, Text, Box
  <2> QED  BY <2>2, <2>3
<1>15. CASE ReloadPage
  <2>1. leaving = {} /\ scheduling = {}
    BY <1>15, <1>b DEF ReloadPage, Slipped, When, Moved
  <2>2. /\ written' = 0 /\ openings' = {} /\ saving' = {} /\ leaving' = {} /\ scheduling' = {}
        /\ UNCHANGED <<typedIn, drafts, posts>>
    BY <1>15, <2>1 DEF ReloadPage, textVars
  <2>3. AtHome'
    BY <1>a, <1>d, <2>1, <2>2 DEF AtHome, Owns
  <2>4. OnItsWay' /\ Delivered'
    BY <1>a, <2>1, <2>2 DEF OnItsWay, Delivered, Text
  <2> QED  BY <2>3, <2>4
<1>16. CASE PruneOldDrafts
  <2>1. UNCHANGED <<leaving, scheduling, posts, typedIn, shown, written, bound, ready, openings, saving>>
    BY <1>16 DEF PruneOldDrafts, boxVars, sendVars, textVars
  <2>2. \A c \in Talks : drafts'[c] \in {0, drafts[c]}
    BY <1>16 DEF PruneOldDrafts, Without
  <2> QED  BY <2>1, <2>2, <1>a, <1>d, <1>e DEF AtHome, Owns
<1>17. CASE MonthPasses \/ UNCHANGED composerVars
  <2>1. UNCHANGED <<scheduling, leaving, posts, typedIn, shown, written, bound, ready, openings,
                    drafts, saving>>
    BY <1>17 DEF MonthPasses, composerVars, boxVars, sendVars, textVars
  <2> QED  BY <2>1, <1>a, <1>d, <1>e DEF AtHome
<1> QED
  BY <1>1, <1>2, <1>3, <1>4, <1>5, <1>6, <1>7, <1>8, <1>9, <1>10, <1>11, <1>12, <1>13, <1>14,
     <1>15, <1>16, <1>17 DEF ComposerNext

(* The invariant of the composer.                                           *)
ComposerInv == ComposerTypeOK /\ OneOpens /\ NothingLost /\ NothingMixed

(* It holds in every behaviour of the composer.                             *)
THEOREM ComposerInvariant == ComposerSpec => []ComposerInv
<1>1. ComposerInit => ComposerInv
  <2> SUFFICES ASSUME ComposerInit PROVE ComposerInv
    OBVIOUS
  <2>1. <<>> \in Seq(Talks) /\ <<>> \in Seq(SUBSET Talks) /\ <<>> \in Seq(Post) /\ Len(typedIn) = 0
    BY DEF ComposerInit
  <2>2. ComposerTypeOK
    <3>1. Text = {0}
      BY <2>1 DEF Text
    <3>2. drafts \in [Talks -> Text] /\ latest \in [Talks -> Text] /\ written \in Text
      BY <3>1 DEF ComposerInit
    <3> QED  BY <2>1, <3>2 DEF ComposerInit, ComposerTypeOK
  <2>3. OneOpens /\ NothingLost /\ NothingMixed
    BY <2>1 DEF ComposerInit, OneOpens, OpenBox, NothingLost, Kept, NothingMixed, AtHome, Owns,
                OnItsWay, Delivered
  <2> QED  BY <2>2, <2>3 DEF ComposerInv
<1>2. ComposerInv /\ [ComposerNext]_composerVars => ComposerInv'
  BY TypeStep, OneOpensStep, NothingLostStep, NothingMixedStep DEF ComposerInv
<1> QED  BY <1>1, <1>2, PTL DEF ComposerSpec

(* For any number of conversations, texts and loads of the page, and any    *)
(* overlaps but the ones named, the text typed last in a conversation is in *)
(* its store or on its way there, and in its box.                           *)
THEOREM TypedIsKeptHolds == ComposerSpec => []TypedIsKept
<1>1. ComposerInv => TypedIsKept
  BY DEF ComposerInv, NothingLost, Kept, Losses, TypedIsKept
<1> QED  BY <1>1, ComposerInvariant, PTL

(* Under the same terms a text is sent once, encrypted for and posted under *)
(* the conversation it was typed in.                                        *)
THEOREM SentOnceToItsChatHolds == ComposerSpec => []SentOnceToItsChat
<1>1. ComposerInv => SentOnceToItsChat
  BY DEF ComposerInv, NothingMixed, Mixups, Delivered, SentOnceToItsChat, Text
<1> QED  BY <1>1, ComposerInvariant, PTL

(***************************************************************************)
(* Calls (VoiceCalls).                                                     *)
(***************************************************************************)

(* Nobody is logged in to one account on two devices.                       *)
OneDevicePerAccount == \A d, e \in Devices : UserOf[d] = UserOf[e] => d = e

CallTask ==
    [kind : {"offer", "answer", "ring", "accept", "bye", "end", "mic"}, id : CallIds,
     peer : Users \cup {Null}, conv : BOOLEAN, ws : Nat]

Signal ==
    [type : {"call_offer", "call_answer", "call_end"}, id : CallIds, from : Users,
     conv : BOOLEAN, to : Devices]

CallState ==
    [id : CallIds \cup {Null}, conv : BOOLEAN, peer : Users \cup {Null},
     status : {"idle", "outgoing", "incoming", "connected"}, voice : CallIds \cup {Null},
     ws : Nat]

CallTypeOK ==
    /\ call \in [Devices -> CallState]
    /\ DOMAIN tasks = Devices
    /\ mics \in [Devices -> Nat]
    /\ sock \in [Devices -> [gen : Nat, open : BOOLEAN]]
    /\ BagToSet(net) \subseteq Signal
    /\ caller \in [CallIds -> Devices \cup {Null}]
    /\ accepted \in [Devices -> SUBSET CallIds]

(* Call c is one that somebody else placed to the account of e.              *)
Called(c, e) ==
    /\ caller[c] \in Devices \ {e}
    /\ call[caller[c]].id = c => call[caller[c]].peer = UserOf[e]

AcceptedSomewhere(c) == \E e \in Devices : c \in accepted[e]

(* What a suspended function knows of the page it will find.                *)
TaskInv(d, t) ==
    /\ t.kind = "offer" => caller[t.id] = d /\ call[d].id = t.id /\ call[d].peer = t.peer
    /\ t.kind = "answer" => caller[t.id] = d /\ AcceptedSomewhere(t.id)
    /\ t.kind = "ring" => /\ call[d].status = "idle"
                          /\ Called(t.id, d) /\ t.peer = UserOf[caller[t.id]]
    /\ t.kind = "accept" => /\ call[d].status = "incoming" /\ call[d].id = t.id
                            /\ call[d].peer = t.peer /\ t.id \in accepted[d]
    /\ t.kind = "mic" => /\ call[d].status = "connected" /\ call[d].id = t.id
                         /\ call[d].voice = Null

(* A page has one function suspended, or none.                              *)
OneTask(d) ==
    \/ tasks[d] = EmptyBag
    \/ \E t \in BagToSet(tasks[d]) : t \in CallTask /\ tasks[d] = One(t) /\ TaskInv(d, t)

SignalInv(m) ==
    /\ m.type = "call_offer" => Called(m.id, m.to) /\ m.from = UserOf[caller[m.id]]
    /\ m.type = "call_answer" => caller[m.id] = m.to /\ AcceptedSomewhere(m.id)

(* The call a page is in.                                                   *)
InCall(d) ==
    /\ call[d].id # Null =>
          \/ caller[call[d].id] = d /\ call[d].peer \in Users \ {UserOf[d]}
          \/ Called(call[d].id, d) /\ call[d].peer = UserOf[caller[call[d].id]]
    /\ call[d].status = "incoming" => call[d].id # Null /\ caller[call[d].id] # d
    /\ call[d].status = "connected" => call[d].id # Null /\ Accepted(d, call[d].id)

Microphone(d) ==
    \/ mics[d] = 0 /\ call[d].voice = Null
    \/ mics[d] = 1 /\ call[d].voice = call[d].id /\ call[d].status = "connected"

PageInv(d) ==
    /\ OneTask(d) /\ InCall(d) /\ Microphone(d)
    /\ \A c \in accepted[d] : Called(c, d)

QuietInv ==
    /\ CallTypeOK
    /\ \A d \in Devices : PageInv(d)
    /\ \A m \in BagToSet(net) : SignalInv(m)

(* While nothing has raced.                                                 *)
CallInv ==
    /\ OneDevicePerAccount
    /\ races \in Nat
    /\ races = 0 => QuietInv

(* What is used of bags.                                                    *)
LEMMA OneElement ==
    ASSUME NEW x
    PROVE  /\ BagToSet(EmptyBag) = {} /\ BagToSet(One(x)) = {x}
           /\ EmptyBag (+) One(x) = One(x) /\ One(x) (-) One(x) = EmptyBag
           /\ One(x) # EmptyBag
<1>1. BagToSet(EmptyBag) = {} /\ BagToSet(One(x)) = {x}
  BY DEF BagToSet, EmptyBag, One, SetToBag
<1>2. EmptyBag (+) One(x) = One(x)
  BY DEF (+), EmptyBag, One, SetToBag
<1>3. One(x) (-) One(x) = EmptyBag
  BY DEF (-), EmptyBag, One, SetToBag
<1> QED
  BY <1>1, <1>2, <1>3

LEMMA BagElements ==
    ASSUME NEW B, NEW C
    PROVE  /\ BagToSet(B (+) C) = BagToSet(B) \cup BagToSet(C)
           /\ BagToSet(B (-) C) \subseteq BagToSet(B)
BY DEF BagToSet, (+), (-)

(* Where a signal goes.                                                     *)
LEMMA SentTo ==
    ASSUME NEW d, NEW ws, NEW type, NEW c, NEW u, NEW conv,
           NEW m \in BagToSet(Sent(d, ws, type, c, u, conv))
    PROVE  /\ u # Null
           /\ \E e \in DevicesOf(u) \cup (DevicesOf(UserOf[d]) \ {d}) :
                 m = [type |-> type, id |-> c, from |-> UserOf[d], conv |-> conv, to |-> e]
BY DEF Sent, Routed, BagToSet, SetToBag, EmptyBag

(* With one device per account it goes to the one of its target.            *)
LEMMA SentToOne ==
    ASSUME OneDevicePerAccount, NEW d \in Devices, NEW ws, NEW type, NEW c, NEW u, NEW conv,
           NEW m \in BagToSet(Sent(d, ws, type, c, u, conv))
    PROVE  \E e \in Devices : /\ UserOf[e] = u
                              /\ m = [type |-> type, id |-> c, from |-> UserOf[d],
                                      conv |-> conv, to |-> e]
<1>1. PICK e \in DevicesOf(u) \cup (DevicesOf(UserOf[d]) \ {d}) :
         m = [type |-> type, id |-> c, from |-> UserOf[d], conv |-> conv, to |-> e]
  BY SentTo
<1>2. e \in DevicesOf(u)
  BY DEF OneDevicePerAccount, DevicesOf
<1> QED
  BY <1>1, <1>2 DEF DevicesOf

LEMMA CallsInit == OneDevicePerAccount /\ Init => CallInv
<1> SUFFICES ASSUME OneDevicePerAccount, Init PROVE CallInv
  OBVIOUS
<1>1. BagToSet(net) = {}
  BY OneElement DEF Init
<1>2. CallTypeOK
  BY <1>1 DEF Init, CallTypeOK, CallState
<1>3. ASSUME NEW d \in Devices PROVE PageInv(d)
  BY DEF Init, PageInv, OneTask, InCall, Microphone
<1> QED
  BY <1>1, <1>2, <1>3 DEF Init, CallInv, QuietInv

(* What is known of a call to e survives a step of page d that gives no       *)
(* call of d another peer.                                                  *)
LEMMA CalledStays ==
    ASSUME NEW d \in Devices,
           \A e \in Devices \ {d} : call'[e] = call[e],
           \A c \in CallIds : caller[c] # Null => caller'[c] = caller[c],
           \A c \in CallIds : caller[c] = d /\ call'[d].id = c =>
               call[d].id = c /\ call'[d].peer = call[d].peer,
           NEW c \in CallIds, NEW e \in Devices, Called(c, e)
    PROVE  Called(c, e)'
<1>1. caller[c] \in Devices \ {e} /\ caller[c] # Null
  BY CallAssumption DEF Called
<1>2. caller'[c] = caller[c]
  BY <1>1
<1>3. CASE caller[c] = d
  BY <1>1, <1>2, <1>3 DEF Called
<1>4. CASE caller[c] # d
  BY <1>1, <1>2, <1>4 DEF Called
<1> QED
  BY <1>3, <1>4

(* A step of page d: what is left to show is its own part and what it sends. *)
LEMMA PageMoves ==
    ASSUME QuietInv, CallTypeOK', NEW d \in Devices,
           \A e \in Devices \ {d} : /\ call'[e] = call[e] /\ tasks'[e] = tasks[e]
                                    /\ mics'[e] = mics[e] /\ accepted'[e] = accepted[e],
           accepted[d] \subseteq accepted'[d],
           \A c \in CallIds : caller[c] # Null => caller'[c] = caller[c],
           \A c \in CallIds : caller[c] = d /\ call'[d].id = c =>
               call[d].id = c /\ call'[d].peer = call[d].peer,
           PageInv(d)',
           \A m \in BagToSet(net') \ BagToSet(net) : SignalInv(m)'
    PROVE  QuietInv'
<1>1. ASSUME NEW c \in CallIds, NEW e \in Devices, Called(c, e) PROVE Called(c, e)'
  BY <1>1, CalledStays
<1>2. \A c \in CallIds, e \in Devices : Called(c, e) => caller'[c] = caller[c]
  BY CallAssumption DEF Called
<1>3. \A e \in Devices : accepted[e] \subseteq accepted'[e]
  OBVIOUS
<1>4. \A c \in CallIds : caller[c] \in Devices => caller'[c] = caller[c]
  BY CallAssumption
<1>5. ASSUME NEW e \in Devices \ {d} PROVE PageInv(e)'
  <2>1. /\ call'[e] = call[e] /\ tasks'[e] = tasks[e] /\ mics'[e] = mics[e]
        /\ accepted'[e] = accepted[e]
    BY <1>5
  <2>2. PageInv(e) /\ call[e] \in CallState /\ accepted[e] \subseteq CallIds
    BY DEF QuietInv, CallTypeOK
  <2>3. OneTask(e)'
    <3>1. ASSUME NEW t \in CallTask, TaskInv(e, t) PROVE TaskInv(e, t)'
      <4>1. t.id \in CallIds
        BY DEF CallTask
      <4>2. t.kind = "offer" => (caller'[t.id] = e /\ call'[e].id = t.id /\ call'[e].peer = t.peer)
        BY <1>4, <2>1, <3>1, <4>1 DEF TaskInv
      <4>3. t.kind = "answer" => (caller'[t.id] = e /\ AcceptedSomewhere(t.id)')
        BY <1>3, <1>4, <3>1, <4>1 DEF TaskInv, AcceptedSomewhere
      <4>4. t.kind = "ring" => (call'[e].status = "idle" /\ Called(t.id, e)' /\ t.peer = UserOf[caller'[t.id]])
        BY <1>1, <1>2, <2>1, <3>1, <4>1 DEF TaskInv
      <4>5. t.kind = "accept" => (/\ call'[e].status = "incoming" /\ call'[e].id = t.id
                                  /\ call'[e].peer = t.peer /\ t.id \in accepted'[e])
        BY <2>1, <3>1 DEF TaskInv
      <4>6. t.kind = "mic" => (/\ call'[e].status = "connected" /\ call'[e].id = t.id
                               /\ call'[e].voice = Null)
        BY <2>1, <3>1 DEF TaskInv
      <4> QED
        BY <4>2, <4>3, <4>4, <4>5, <4>6 DEF TaskInv
    <3> QED
      BY <2>1, <2>2, <3>1 DEF PageInv, OneTask
  <2>4. InCall(e)'
    <3>1. call[e].id # Null => call[e].id \in CallIds
      BY <2>2 DEF CallState
    <3>2. call[e].id # Null =>
            \/ caller'[call[e].id] = e /\ call[e].peer \in Users \ {UserOf[e]}
            \/ Called(call[e].id, e)' /\ call[e].peer = UserOf[caller'[call[e].id]]
      BY <1>1, <1>2, <1>4, <2>2, <3>1 DEF PageInv, InCall
    <3>3. call[e].id # Null => caller'[call[e].id] = caller[call[e].id]
      BY <1>2, <1>4, <2>2, <3>1 DEF PageInv, InCall
    <3>4. call[e].id # Null /\ Accepted(e, call[e].id) => Accepted(e, call[e].id)'
      BY <1>3, <2>1, <3>3 DEF Accepted, DevicesOf
    <3> QED
      BY <2>1, <2>2, <3>2, <3>3, <3>4 DEF PageInv, InCall
  <2>5. Microphone(e)'
    BY <2>1, <2>2 DEF PageInv, Microphone
  <2>6. \A c \in accepted'[e] : Called(c, e)'
    BY <1>1, <2>1, <2>2 DEF PageInv
  <2> QED
    BY <2>3, <2>4, <2>5, <2>6 DEF PageInv
<1>6. ASSUME NEW m \in BagToSet(net') PROVE SignalInv(m)'
  <2> SUFFICES ASSUME m \in BagToSet(net) PROVE SignalInv(m)'
    OBVIOUS
  <2>1. SignalInv(m) /\ m.id \in CallIds /\ m.to \in Devices
    BY DEF QuietInv, CallTypeOK, Signal
  <2>2. m.type = "call_offer" => (Called(m.id, m.to)' /\ m.from = UserOf[caller'[m.id]])
    BY <1>1, <1>2, <2>1 DEF SignalInv
  <2>3. m.type = "call_answer" => (caller'[m.id] = m.to /\ AcceptedSomewhere(m.id)')
    BY <1>3, <1>4, <2>1 DEF SignalInv, AcceptedSomewhere
  <2> QED
    BY <2>2, <2>3 DEF SignalInv
<1> QED
  BY <1>5, <1>6 DEF QuietInv

(* What a page sends, with one device per account.                          *)
LEMMA SentSignals ==
    ASSUME OneDevicePerAccount, NEW d \in Devices, NEW ws, NEW c \in CallIds, NEW u,
           NEW type \in {"call_offer", "call_answer", "call_end"}, NEW conv \in BOOLEAN,
           NEW m \in BagToSet(Sent(d, ws, type, c, u, conv))
    PROVE  /\ m \in Signal /\ m.type = type /\ m.id = c /\ m.from = UserOf[d]
           /\ m.to \in Devices /\ UserOf[m.to] = u
<1>1. PICK e \in Devices : /\ UserOf[e] = u
                           /\ m = [type |-> type, id |-> c, from |-> UserOf[d],
                                   conv |-> conv, to |-> e]
  BY SentToOne
<1>2. UserOf[d] \in Users
  BY CallAssumption
<1> QED
  BY <1>1, <1>2 DEF Signal

(* A step that may only start or end a function of page d.                   *)
LEMMA TaskChanges ==
    ASSUME QuietInv, NEW d \in Devices, UNCHANGED <<call, mics, sock, caller, accepted>>,
           \/ tasks' = tasks
           \/ tasks' = [tasks EXCEPT ![d] = EmptyBag]
           \/ \E t \in CallTask : tasks' = [tasks EXCEPT ![d] = One(t)] /\ TaskInv(d, t),
           BagToSet(net') \subseteq Signal,
           \A m \in BagToSet(net') \ BagToSet(net) : SignalInv(m)
    PROVE  QuietInv'
<1>1. CallTypeOK'
  BY DEF QuietInv, CallTypeOK
<1>2. PageInv(d)
  BY DEF QuietInv
<1>3. \A t : TaskInv(d, t) => TaskInv(d, t)'
  BY DEF TaskInv, Called, AcceptedSomewhere
<1>4. OneTask(d)'
  <2>1. CASE tasks'[d] = tasks[d]
    BY <1>2, <1>3, <2>1 DEF PageInv, OneTask
  <2>2. CASE tasks'[d] = EmptyBag
    BY <2>2 DEF OneTask
  <2>3. ASSUME NEW t \in CallTask, tasks'[d] = One(t), TaskInv(d, t) PROVE OneTask(d)'
    BY <1>3, <2>3, OneElement DEF OneTask
  <2>4. DOMAIN tasks = Devices
    BY DEF QuietInv, CallTypeOK
  <2> QED
    BY <2>1, <2>2, <2>3, <2>4
<1>5. InCall(d)' /\ Microphone(d)' /\ \A c \in accepted'[d] : Called(c, d)'
  BY <1>2 DEF PageInv, InCall, Microphone, Called, Accepted
<1>6. PageInv(d)'
  BY <1>4, <1>5 DEF PageInv
<1>7. \A m \in BagToSet(net') \ BagToSet(net) : SignalInv(m)'
  BY DEF SignalInv, Called, AcceptedSomewhere
<1>8. \A e \in Devices \ {d} : tasks'[e] = tasks[e]
  BY DEF QuietInv, CallTypeOK
<1> QED
  BY <1>1, <1>6, <1>7, <1>8, PageMoves

LEMMA OneTaskLeft ==
    ASSUME NEW d \in Devices, NEW t \in CallTask, TaskInv(d, t)',
           tasks'[d] = One(t) \/ tasks'[d] = EmptyBag (+) One(t)
    PROVE  OneTask(d)'
<1>1. tasks'[d] = One(t) /\ t \in BagToSet(tasks'[d])
  BY OneElement
<1> QED
  BY <1>1 DEF OneTask

(* endCall.                                                                 *)
LEMMA CallEnds ==
    ASSUME QuietInv, NEW d \in Devices, NEW k \in CallState, NEW notify \in BOOLEAN,
           EndCall(d, k, notify, EmptyBag),
           mics[d] = IF k.voice = Null THEN 0 ELSE 1,
           UNCHANGED <<sock, caller>>,
           accepted' \in [Devices -> SUBSET CallIds], accepted[d] \subseteq accepted'[d],
           \A e \in Devices \ {d} : accepted'[e] = accepted[e],
           \A c \in accepted'[d] : Called(c, d),
           BagToSet(net') \subseteq BagToSet(net)
    PROVE  QuietInv'
<1>1. k.id \in CallIds \cup {Null} /\ k.peer \in Users \cup {Null} /\ k.ws \in Nat
  BY DEF CallState
<1>2. /\ IdleCall(k) \in CallState
      /\ IdleCall(k).id = Null /\ IdleCall(k).status = "idle" /\ IdleCall(k).voice = Null
  BY <1>1 DEF IdleCall, CallState
<1>3. /\ call' = [call EXCEPT ![d] = IdleCall(k)]
      /\ mics' = [mics EXCEPT ![d] = IF k.voice # Null THEN @ - 1 ELSE @]
      /\ tasks' = [tasks EXCEPT ![d] =
             IF notify /\ k.id # Null /\ k.conv /\ Open(d, k.ws)
             THEN EmptyBag (+) One(Task("bye", k.id, k.peer, FALSE, 0)) ELSE EmptyBag]
  BY DEF EndCall, Stopped
<1>4. call'[d] = IdleCall(k) /\ mics'[d] = 0
  BY <1>3 DEF QuietInv, CallTypeOK
<1>5. CallTypeOK'
  BY <1>2, <1>3, <1>4 DEF QuietInv, CallTypeOK
<1>6. OneTask(d)'
  <2>1. k.id # Null => Task("bye", k.id, k.peer, FALSE, 0) \in CallTask
    BY <1>1 DEF Task, CallTask
  <2>2. \A t \in CallTask : t.kind = "bye" => TaskInv(d, t)'
    BY DEF TaskInv
  <2>3. Task("bye", k.id, k.peer, FALSE, 0).kind = "bye"
    BY DEF Task
  <2>4. CASE tasks'[d] = EmptyBag
    BY <2>4 DEF OneTask
  <2>5. CASE k.id # Null /\ tasks'[d] = EmptyBag (+) One(Task("bye", k.id, k.peer, FALSE, 0))
    BY <2>1, <2>2, <2>3, <2>5, OneTaskLeft
  <2> QED
    BY <1>3, <2>4, <2>5 DEF QuietInv, CallTypeOK
<1>7. InCall(d)' /\ Microphone(d)'
  BY <1>2, <1>4 DEF InCall, Microphone
<1>8. \A e \in Devices \ {d} : call'[e] = call[e] /\ tasks'[e] = tasks[e] /\ mics'[e] = mics[e]
  BY <1>3 DEF QuietInv, CallTypeOK
<1>9. \A c \in CallIds : call'[d].id # c
  BY <1>2, <1>4, CallAssumption
<1>10. \A c \in accepted'[d] : Called(c, d)'
  BY <1>8, <1>9, CalledStays
<1>11. PageInv(d)'
  BY <1>6, <1>7, <1>10 DEF PageInv
<1> QED
  BY <1>5, <1>8, <1>9, <1>11, PageMoves

(* The status becomes connected.                                            *)
LEMMA CallConnects ==
    ASSUME QuietInv, NEW d \in Devices, Connect(d, EmptyBag),
           call[d].id \in CallIds, Accepted(d, call[d].id),
           UNCHANGED <<mics, sock, caller, accepted>>,
           BagToSet(net') \subseteq Signal,
           \A m \in BagToSet(net') \ BagToSet(net) : SignalInv(m)'
    PROVE  QuietInv'
<1>1. call[d] \in CallState /\ call \in [Devices -> CallState] /\ call[d].id # Null
  BY CallAssumption DEF QuietInv, CallTypeOK
<1>2. /\ call'[d] = [call[d] EXCEPT !.status = "connected"]
      /\ \A e \in Devices \ {d} : call'[e] = call[e]
      /\ call' \in [Devices -> CallState]
  BY <1>1 DEF Connect, CallState
<1>3. /\ call'[d].id = call[d].id /\ call'[d].peer = call[d].peer /\ call'[d].voice = call[d].voice
      /\ call'[d].status = "connected"
  BY <1>1, <1>2 DEF CallState
<1>4. CallTypeOK'
  <2>1. DOMAIN tasks' = Devices
    BY DEF Connect, QuietInv, CallTypeOK
  <2> QED
    BY <1>2, <2>1 DEF QuietInv, CallTypeOK
<1>5. /\ \A e \in Devices \ {d} : tasks'[e] = tasks[e]
      /\ \/ tasks'[d] = EmptyBag
         \/ /\ call[d].voice = Null
            /\ tasks'[d] = EmptyBag (+) One(Task("mic", call[d].id, Null, FALSE, 0))
  BY DEF Connect, QuietInv, CallTypeOK
<1>6. OneTask(d)'
  <2>1. PICK t : t = Task("mic", call[d].id, Null, FALSE, 0)
    OBVIOUS
  <2>2. t \in CallTask /\ t.kind = "mic" /\ t.id = call[d].id
    BY <2>1 DEF Task, CallTask
  <2>3. call[d].voice = Null => TaskInv(d, t)'
    BY <1>3, <2>2 DEF TaskInv
  <2>4. CASE tasks'[d] = EmptyBag
    BY <2>4 DEF OneTask
  <2>5. CASE call[d].voice = Null /\ tasks'[d] = EmptyBag (+) One(t)
    BY <2>2, <2>3, <2>5, OneTaskLeft
  <2> QED
    BY <1>5, <2>1, <2>4, <2>5
<1>7. PageInv(d)
  BY DEF QuietInv
<1>8. \A c \in CallIds, e \in Devices : Called(c, e) => Called(c, e)'
  BY <1>2, <1>3, CalledStays
<1>9. InCall(d)'
  <2>1. \/ caller[call[d].id] = d /\ call[d].peer \in Users \ {UserOf[d]}
        \/ Called(call[d].id, d)' /\ call[d].peer = UserOf[caller[call[d].id]]
    <3>1. \/ caller[call[d].id] = d /\ call[d].peer \in Users \ {UserOf[d]}
          \/ Called(call[d].id, d) /\ call[d].peer = UserOf[caller[call[d].id]]
      BY <1>1, <1>7 DEF PageInv, InCall
    <3> QED
      BY <3>1, <1>3, <1>8
  <2>2. Accepted(d, call[d].id)'
    BY <1>3 DEF Accepted
  <2> QED
    BY <1>1, <1>3, <2>1, <2>2 DEF InCall
<1>10. Microphone(d)'
  BY <1>3, <1>7 DEF PageInv, Microphone
<1>11. \A c \in accepted'[d] : Called(c, d)'
  BY <1>7, <1>8 DEF PageInv, QuietInv, CallTypeOK
<1>12. PageInv(d)'
  BY <1>6, <1>9, <1>10, <1>11 DEF PageInv
<1> QED
  BY <1>2, <1>3, <1>4, <1>5, <1>12, PageMoves

(* What a step that is no race starts from.                                 *)
LEMMA NothingRaces ==
    ASSUME NEW d \in Devices, Event(d), races = 0, races' = 0
    PROVE  tasks[d] = EmptyBag
BY DEF Event, Awaiting

(* A page places a call.                                                    *)
LEMMA StartKeepsQuiet ==
    ASSUME QuietInv, races = 0, races' = 0, NEW d \in Devices, NEW u \in Users, NEW c \in CallIds,
           StartOutgoingCall(d, u, c)
    PROVE  QuietInv'
<1>1. /\ tasks[d] = EmptyBag /\ caller[c] = Null /\ u # UserOf[d] /\ call[d].status = "idle"
      /\ sock[d].gen \in Nat /\ call[d] \in CallState /\ PageInv(d)
  BY NothingRaces DEF StartOutgoingCall, QuietInv, CallTypeOK
<1>2. PICK k : k = [call[d] EXCEPT !.id = c, !.conv = TRUE, !.peer = u, !.status = "outgoing",
                                   !.ws = sock[d].gen]
  OBVIOUS
<1>3. /\ k \in CallState /\ k.id = c /\ k.peer = u /\ k.status = "outgoing"
      /\ k.voice = call[d].voice
  BY <1>1, <1>2 DEF CallState
<1>4. call' = [call EXCEPT ![d] = k] /\ caller' = [caller EXCEPT ![c] = d]
  BY <1>2 DEF StartOutgoingCall
<1>5. CallTypeOK'
  BY <1>3, <1>4 DEF StartOutgoingCall, Add, QuietInv, CallTypeOK
<1>6. /\ call'[d] = k /\ caller'[c] = d
      /\ \A e \in Devices \ {d} : call'[e] = call[e]
      /\ \A b \in CallIds : caller[b] # Null => caller'[b] = caller[b]
      /\ \A b \in CallIds : caller[b] = d => b # c
  BY <1>1, <1>4, CallAssumption DEF QuietInv, CallTypeOK
<1>7. OneTask(d)'
  <2>1. PICK t : t = Task("offer", c, u, TRUE, sock[d].gen)
    OBVIOUS
  <2>2. t \in CallTask /\ t.kind = "offer" /\ t.id = c /\ t.peer = u
    BY <1>1, <2>1 DEF Task, CallTask
  <2>3. TaskInv(d, t)'
    BY <1>3, <1>6, <2>2 DEF TaskInv
  <2>4. tasks'[d] = EmptyBag (+) One(t)
    BY <1>1, <2>1 DEF StartOutgoingCall, Add, QuietInv, CallTypeOK
  <2> QED
    BY <2>2, <2>3, <2>4, OneTaskLeft
<1>8. InCall(d)'
  BY <1>1, <1>3, <1>6 DEF InCall
<1>9. Microphone(d)'
  BY <1>1, <1>3, <1>6 DEF PageInv, Microphone, StartOutgoingCall
<1>10. \A b \in CallIds : caller[b] = d /\ call'[d].id = b =>
           call[d].id = b /\ call'[d].peer = call[d].peer
  BY <1>3, <1>6
<1>11. \A b \in accepted'[d] : Called(b, d)'
  <2> SUFFICES ASSUME NEW b \in accepted[d] PROVE Called(b, d)'
    BY DEF StartOutgoingCall
  <2>1. b \in CallIds /\ Called(b, d)
    BY <1>1 DEF PageInv, QuietInv, CallTypeOK
  <2> QED
    BY <1>6, <1>10, <2>1, CalledStays
<1>12. PageInv(d)'
  BY <1>7, <1>8, <1>9, <1>11 DEF PageInv
<1>13. /\ \A e \in Devices \ {d} : /\ tasks'[e] = tasks[e] /\ mics'[e] = mics[e]
                                   /\ accepted'[e] = accepted[e]
       /\ accepted'[d] = accepted[d] /\ net' = net
  BY DEF StartOutgoingCall, Add, QuietInv, CallTypeOK
<1> QED
  BY <1>5, <1>6, <1>10, <1>12, <1>13, PageMoves

(* A page rings, if nothing has raced with the decryption of the offer.      *)
LEMMA RingKeepsQuiet ==
    ASSUME QuietInv, NEW d \in Devices, NEW t \in BagToSet(tasks[d]), Ring(d, t),
           UNCHANGED <<sock, caller, accepted>>
    PROVE  QuietInv'
<1>1. /\ t \in CallTask /\ tasks[d] = One(t) /\ TaskInv(d, t) /\ PageInv(d)
      /\ call[d] \in CallState
  BY OneElement DEF QuietInv, CallTypeOK, PageInv, OneTask
<1>2. /\ call[d].status = "idle" /\ Called(t.id, d) /\ t.peer = UserOf[caller[t.id]]
      /\ t.id \in CallIds
  BY <1>1 DEF Ring, TaskInv, CallTask
<1>3. PICK k : k = [call[d] EXCEPT !.id = t.id, !.conv = t.conv, !.peer = t.peer,
                                   !.status = "incoming", !.ws = t.ws]
  OBVIOUS
<1>4. /\ k \in CallState /\ k.id = t.id /\ k.peer = t.peer /\ k.status = "incoming"
      /\ k.voice = call[d].voice
  BY <1>1, <1>3 DEF CallState, CallTask
<1>5. call' = [call EXCEPT ![d] = k] /\ tasks' = [tasks EXCEPT ![d] = EmptyBag]
  BY <1>1, <1>3, OneElement DEF Ring
<1>6. CallTypeOK'
  BY <1>4, <1>5 DEF Ring, QuietInv, CallTypeOK
<1>7. /\ call'[d] = k /\ tasks'[d] = EmptyBag
      /\ \A e \in Devices \ {d} : call'[e] = call[e] /\ tasks'[e] = tasks[e]
  BY <1>5 DEF QuietInv, CallTypeOK
<1>8. caller[t.id] # d
  BY <1>2 DEF Called
<1>9. \A c \in CallIds : caller[c] = d /\ call'[d].id = c =>
          call[d].id = c /\ call'[d].peer = call[d].peer
  BY <1>4, <1>7, <1>8
<1>10. ASSUME NEW c \in CallIds, Called(c, d) PROVE Called(c, d)'
  BY <1>7, <1>9, <1>10, CalledStays
<1>11. OneTask(d)'
  BY <1>7 DEF OneTask
<1>12. InCall(d)'
  <2>1. /\ call'[d].id = t.id /\ call'[d].peer = UserOf[caller'[t.id]]
        /\ call'[d].status = "incoming"
    BY <1>2, <1>4, <1>7
  <2>2. Called(t.id, d)'
    BY <1>2, <1>10
  <2>3. Called(call[d].id, d)' /\ call'[d].id # Null /\ caller'[call'[d].id] # d
    BY <1>2, <1>8, <2>1, <2>2, CallAssumption
  <2> QED
    BY <2>1, <2>3 DEF InCall
<1>13. Microphone(d)'
  BY <1>1, <1>2, <1>4, <1>7 DEF PageInv, Microphone, Ring
<1>14. PageInv(d)'
  BY <1>1, <1>10, <1>11, <1>12, <1>13 DEF PageInv, QuietInv, CallTypeOK
<1>15. mics' = mics /\ net' = net
  BY DEF Ring
<1> QED
  BY <1>6, <1>7, <1>9, <1>14, <1>15, PageMoves

(* A click on Accept.                                                       *)
LEMMA AcceptKeepsQuiet ==
    ASSUME QuietInv, races = 0, races' = 0, NEW d \in Devices, AcceptCall(d)
    PROVE  QuietInv'
<1>1. /\ tasks[d] = EmptyBag /\ PageInv(d) /\ call[d] \in CallState
      /\ call[d].status = "incoming" /\ call[d].id # Null
  BY NothingRaces DEF AcceptCall, QuietInv, CallTypeOK
<1>2. PICK c \in CallIds : c = call[d].id
  BY <1>1 DEF CallState
<1>3. /\ caller[c] # d /\ Called(c, d) /\ call[d].peer = UserOf[caller[c]]
      /\ call[d].voice = Null /\ mics[d] = 0
  BY <1>1, <1>2 DEF PageInv, InCall, Microphone
<1>4. accepted' = [accepted EXCEPT ![d] = @ \cup {c}] /\ UNCHANGED <<sock, net, caller>>
  BY <1>2 DEF AcceptCall
<1>5. /\ accepted' \in [Devices -> SUBSET CallIds] /\ accepted'[d] = accepted[d] \cup {c}
      /\ \A e \in Devices \ {d} : accepted'[e] = accepted[e]
  BY <1>4 DEF QuietInv, CallTypeOK
<1>6. CASE call[d].conv
  <2>1. PICK t : t = Task("accept", call[d].id, call[d].peer, TRUE, 0)
    OBVIOUS
  <2>2. /\ t \in CallTask /\ t.kind = "accept" /\ t.id = c /\ t.peer = call[d].peer
    BY <1>1, <1>2, <2>1 DEF Task, CallTask, CallState
  <2>3. /\ tasks' = [tasks EXCEPT ![d] = @ (+) One(t)] /\ call' = call /\ mics' = mics
    BY <1>6, <2>1 DEF AcceptCall, Add
  <2>4. tasks'[d] = EmptyBag (+) One(t) /\ \A e \in Devices \ {d} : tasks'[e] = tasks[e]
    BY <1>1, <2>3 DEF QuietInv, CallTypeOK
  <2>5. CallTypeOK'
    BY <1>4, <1>5, <2>3 DEF QuietInv, CallTypeOK
  <2>6. TaskInv(d, t)'
    BY <1>1, <1>2, <1>5, <2>2, <2>3 DEF TaskInv
  <2>7. OneTask(d)'
    BY <2>2, <2>4, <2>6, OneTaskLeft
  <2>8. InCall(d)' /\ Microphone(d)'
    BY <1>1, <1>4, <2>3 DEF PageInv, InCall, Microphone, Called
  <2>9. \A b \in accepted'[d] : Called(b, d)'
    BY <1>1, <1>3, <1>4, <1>5, <2>3 DEF PageInv, Called
  <2>10. PageInv(d)'
    BY <2>7, <2>8, <2>9 DEF PageInv
  <2> QED
    BY <1>4, <1>5, <2>3, <2>4, <2>5, <2>10, PageMoves
<1>7. CASE ~call[d].conv
  <2>1. EndCall(d, call[d], TRUE, EmptyBag)
    BY <1>1, <1>7 DEF AcceptCall
  <2>2. \A b \in accepted'[d] : Called(b, d)
    BY <1>1, <1>3, <1>5 DEF PageInv
  <2>3. accepted[d] \subseteq accepted'[d] /\ BagToSet(net') \subseteq BagToSet(net)
    BY <1>4, <1>5
  <2> QED
    BY <1>1, <1>3, <1>4, <1>5, <2>1, <2>2, <2>3, CallEnds
<1> QED
  BY <1>6, <1>7

(* A suspended function goes on.                                            *)
LEMMA ResumeKeepsQuiet ==
    ASSUME OneDevicePerAccount, QuietInv, NEW d \in Devices, NEW t \in BagToSet(tasks[d]),
           Resume(d, t)
    PROVE  QuietInv'
<1>1. /\ t \in CallTask /\ tasks[d] = One(t) /\ TaskInv(d, t) /\ PageInv(d)
      /\ call[d] \in CallState
  BY OneElement DEF QuietInv, CallTypeOK, PageInv, OneTask
<1>2. /\ tasks[d] (-) One(t) = EmptyBag
      /\ t.id \in CallIds /\ t.peer \in Users \cup {Null}
  BY <1>1, OneElement DEF CallTask
<1>3. UNCHANGED <<sock, caller, accepted>>
  BY DEF Resume
<1>4. BagToSet(net) \subseteq Signal
  BY DEF QuietInv, CallTypeOK
<1>5. /\ accepted' \in [Devices -> SUBSET CallIds] /\ accepted[d] \subseteq accepted'[d]
      /\ \A e \in Devices \ {d} : accepted'[e] = accepted[e]
      /\ \A c \in accepted'[d] : Called(c, d)
  BY <1>1, <1>3 DEF PageInv, QuietInv, CallTypeOK
<1>6. mics[d] = IF call[d].voice = Null THEN 0 ELSE 1
  BY <1>1, CallAssumption DEF PageInv, Microphone, InCall
<1>7. ASSUME UNCHANGED <<call, mics>>, tasks' = [tasks EXCEPT ![d] = EmptyBag], net' = net
      PROVE  QuietInv'
  BY <1>3, <1>4, <1>7, TaskChanges
<1>8. ASSUME NEW ws, NEW u, NEW type \in {"call_offer", "call_answer", "call_end"},
             NEW conv \in BOOLEAN, net' = net (+) Sent(d, ws, type, t.id, u, conv)
      PROVE  /\ BagToSet(net') \subseteq Signal
             /\ \A m \in BagToSet(net') \ BagToSet(net) :
                   /\ m \in BagToSet(Sent(d, ws, type, t.id, u, conv))
                   /\ m \in Signal /\ m.type = type /\ m.id = t.id /\ m.from = UserOf[d]
                   /\ m.to \in Devices /\ UserOf[m.to] = u
  <2>1. BagToSet(net') = BagToSet(net) \cup BagToSet(Sent(d, ws, type, t.id, u, conv))
    BY <1>8, BagElements
  <2>2. \A m \in BagToSet(Sent(d, ws, type, t.id, u, conv)) :
           /\ m \in Signal /\ m.type = type /\ m.id = t.id /\ m.from = UserOf[d]
           /\ m.to \in Devices /\ UserOf[m.to] = u
    BY <1>2, SentSignals
  <2> QED
    BY <1>4, <2>1, <2>2
<1>9. CASE OfferEncrypted(d, t)
  <2>1. caller[t.id] = d /\ call[d].id = t.id /\ call[d].peer = t.peer
    BY <1>1, <1>9 DEF OfferEncrypted, TaskInv
  <2>2. t.peer # UserOf[d]
    BY <1>1, <1>2, <2>1, CallAssumption DEF PageInv, InCall, Called
  <2>3. call[d].conv \in BOOLEAN /\ net' = net (+) Sent(d, t.ws, "call_offer", t.id, t.peer, call[d].conv)
    BY <1>1, <1>9 DEF OfferEncrypted, CallState
  <2>4. /\ BagToSet(net') \subseteq Signal
        /\ \A m \in BagToSet(net') \ BagToSet(net) : SignalInv(m)
    <3>1. /\ BagToSet(net') \subseteq Signal
          /\ \A m \in BagToSet(net') \ BagToSet(net) :
                /\ m.type = "call_offer" /\ m.id = t.id /\ m.from = UserOf[d]
                /\ m.to \in Devices /\ UserOf[m.to] = t.peer
      BY <1>8, <2>3
    <3> QED
      BY <3>1, <2>1, <2>2 DEF SignalInv, Called
  <2>5. UNCHANGED <<call, mics>> /\ tasks' = [tasks EXCEPT ![d] = EmptyBag]
    BY <1>2, <1>9 DEF OfferEncrypted
  <2> QED
    BY <1>3, <2>4, <2>5, TaskChanges
<1>10. CASE CallAnswered(d, t)
  <2>1. caller[t.id] = d /\ AcceptedSomewhere(t.id)
    BY <1>1, <1>10 DEF CallAnswered, TaskInv
  <2>2. CASE call[d].id = t.id
    <3>1. PICK e \in Devices : t.id \in accepted[e]
      BY <2>1 DEF AcceptedSomewhere
    <3>2. Called(t.id, e)
      BY <3>1 DEF QuietInv, PageInv
    <3>3. UserOf[e] = call[d].peer
      BY <2>1, <2>2, <3>2 DEF Called
    <3>4. Accepted(d, call[d].id)
      BY <2>1, <2>2, <3>1, <3>3 DEF Accepted, DevicesOf
    <3>5. Connect(d, EmptyBag) /\ net' = net /\ mics' = mics
      BY <1>2, <1>10, <2>2 DEF CallAnswered
    <3> QED
      BY <1>2, <1>3, <1>4, <2>2, <3>4, <3>5, CallConnects
  <2>3. CASE call[d].id # t.id
    BY <1>2, <1>7, <1>10, <2>3 DEF CallAnswered
  <2> QED
    BY <2>2, <2>3
<1>11. CASE Ring(d, t)
  BY <1>3, <1>11, RingKeepsQuiet
<1>12. CASE CallAccepted(d, t)
  <2>1. /\ call[d].status = "incoming" /\ call[d].id = t.id /\ call[d].peer = t.peer
        /\ t.id \in accepted[d]
    BY <1>1, <1>12 DEF CallAccepted, TaskInv
  <2>2. Called(t.id, d) /\ t.peer = UserOf[caller[t.id]] /\ caller[t.id] \in Devices \ {d}
    BY <1>1, <1>2, <2>1, CallAssumption DEF PageInv, InCall, Called
  <2>3. Accepted(d, call[d].id)
    BY <2>1, <2>2 DEF Accepted
  <2>4. /\ net' = net (+) Sent(d, call[d].ws, "call_answer", t.id, t.peer, TRUE)
        /\ Connect(d, EmptyBag) /\ mics' = mics
    BY <1>2, <1>12 DEF CallAccepted
  <2>5. /\ BagToSet(net') \subseteq Signal
        /\ \A m \in BagToSet(net') \ BagToSet(net) :
              /\ m.type = "call_answer" /\ m.id = t.id
              /\ m.to \in Devices /\ UserOf[m.to] = t.peer
    <3>1. PICK conv \in BOOLEAN : net' = net (+) Sent(d, call[d].ws, "call_answer", t.id, t.peer, conv)
      BY <2>4, Zenon
    <3> QED
      BY <1>8, <3>1
  <2>6. \A m \in BagToSet(net') \ BagToSet(net) : m.to = caller[t.id]
    BY <2>2, <2>5 DEF OneDevicePerAccount
  <2>7. \A m \in BagToSet(net') \ BagToSet(net) : SignalInv(m)'
    BY <1>3, <2>1, <2>5, <2>6 DEF SignalInv, AcceptedSomewhere
  <2> QED
    BY <1>2, <1>3, <2>1, <2>3, <2>4, <2>5, <2>7, CallConnects
<1>13. CASE EndEncrypted(d, t)
  <2>1. net' = net (+) Sent(d, call[d].ws, "call_end", t.id, t.peer, TRUE)
    BY <1>13 DEF EndEncrypted
  <2>2. /\ BagToSet(net') \subseteq Signal
        /\ \A m \in BagToSet(net') \ BagToSet(net) : m.type = "call_end"
    <3>1. PICK conv \in BOOLEAN : net' = net (+) Sent(d, call[d].ws, "call_end", t.id, t.peer, conv)
      BY <2>1, Zenon
    <3> QED
      BY <1>8, <3>1
  <2>3. \A m \in BagToSet(net') \ BagToSet(net) : SignalInv(m)
    BY <2>2 DEF SignalInv
  <2>4. UNCHANGED <<call, mics>> /\ tasks' = [tasks EXCEPT ![d] = EmptyBag]
    BY <1>2, <1>13 DEF EndEncrypted
  <2> QED
    BY <1>3, <2>2, <2>3, <2>4, TaskChanges
<1>14. CASE CallEnded(d, t)
  <2>1. CASE call[d].id = t.id
    <3>1. EndCall(d, call[d], FALSE, EmptyBag) /\ net' = net
      BY <1>2, <1>14, <2>1 DEF CallEnded
    <3> QED
      BY <1>1, <1>3, <1>5, <1>6, <3>1, CallEnds
  <2>2. CASE call[d].id # t.id
    BY <1>2, <1>7, <1>14, <2>2 DEF CallEnded
  <2> QED
    BY <2>1, <2>2
<1>15. CASE MicrophoneOn(d, t)
  <2>1. /\ call[d].status = "connected" /\ call[d].id = t.id /\ call[d].voice = Null
        /\ mics[d] = 0
    BY <1>1, <1>6, <1>15 DEF MicrophoneOn, TaskInv
  <2>2. PICK k : k = [call[d] EXCEPT !.voice = t.id]
    OBVIOUS
  <2>3. /\ k \in CallState /\ k.id = call[d].id /\ k.peer = call[d].peer
        /\ k.status = "connected" /\ k.voice = t.id
    BY <1>1, <1>2, <2>1, <2>2 DEF CallState
  <2>4. /\ call' = [call EXCEPT ![d] = k] /\ mics' = [mics EXCEPT ![d] = @ + 1]
        /\ tasks' = [tasks EXCEPT ![d] = EmptyBag] /\ net' = net
    BY <1>2, <1>15, <2>2 DEF MicrophoneOn
  <2>5. CallTypeOK'
    BY <1>3, <2>3, <2>4 DEF QuietInv, CallTypeOK
  <2>6. /\ call'[d] = k /\ mics'[d] = 1 /\ tasks'[d] = EmptyBag
        /\ \A e \in Devices \ {d} : call'[e] = call[e] /\ mics'[e] = mics[e] /\ tasks'[e] = tasks[e]
    BY <2>1, <2>4 DEF QuietInv, CallTypeOK
  <2>7. \A c \in CallIds, e \in Devices : Called(c, e) => Called(c, e)'
    BY <1>3, <2>3, <2>6, CalledStays
  <2>8. OneTask(d)' /\ Microphone(d)'
    BY <2>1, <2>3, <2>6 DEF OneTask, Microphone
  <2>9. InCall(d)'
    <3>1. /\ \/ caller[t.id] = d /\ call[d].peer \in Users \ {UserOf[d]}
             \/ Called(t.id, d)' /\ call[d].peer = UserOf[caller[t.id]]
          /\ Accepted(d, call[d].id)
      BY <1>1, <1>2, <2>1, <2>7, CallAssumption DEF PageInv, InCall
    <3>2. Accepted(d, call[d].id)'
      BY <1>3, <2>3, <2>6, <3>1 DEF Accepted
    <3>3. Called(t.id, d)' => Called(call[d].id, d)'
      BY <2>1, <2>3, <2>6
    <3> QED
      BY <1>2, <1>3, <2>1, <2>3, <2>6, <3>1, <3>2, <3>3, CallAssumption DEF InCall
  <2>10. PageInv(d)'
    BY <1>5, <2>7, <2>8, <2>9 DEF PageInv
  <2> QED
    BY <1>3, <2>3, <2>4, <2>5, <2>6, <2>10, PageMoves
<1>16. CASE Failed(d, t)
  <2>1. /\ net' = net
        /\ \/ EndCall(d, call[d], TRUE, EmptyBag)
           \/ t.kind = "mic" /\ EndCall(d, [call[d] EXCEPT !.voice = Null], TRUE, EmptyBag)
    BY <1>2, <1>16 DEF Failed
  <2>2. CASE EndCall(d, call[d], TRUE, EmptyBag)
    BY <1>1, <1>3, <1>5, <1>6, <2>1, <2>2, CallEnds
  <2>3. CASE t.kind = "mic" /\ EndCall(d, [call[d] EXCEPT !.voice = Null], TRUE, EmptyBag)
    <3>1. PICK k : k = [call[d] EXCEPT !.voice = Null]
      OBVIOUS
    <3>2. k \in CallState /\ k.voice = Null
      BY <1>1, <3>1 DEF CallState
    <3>3. mics[d] = 0
      BY <1>1, <1>6, <2>3 DEF TaskInv
    <3> QED
      BY <1>3, <1>5, <2>1, <2>3, <3>1, <3>2, <3>3, CallEnds
  <2> QED
    BY <2>1, <2>2, <2>3
<1>17. CASE EndNotSent(d, t)
  BY <1>2, <1>7, <1>17 DEF EndNotSent
<1> QED
  BY <1>9, <1>10, <1>11, <1>12, <1>13, <1>14, <1>15, <1>16, <1>17 DEF Resume

(* A signal is dispatched, or finds no socket.                              *)
LEMMA DeliverKeepsQuiet ==
    ASSUME OneDevicePerAccount, QuietInv, races = 0, races' = 0,
           NEW d \in Devices, NEW m \in BagToSet(net), Deliver(d, m)
    PROVE  QuietInv'
<1>1. /\ tasks[d] = EmptyBag /\ m \in Signal /\ SignalInv(m) /\ m.to = d
      /\ BagToSet(net) \subseteq Signal /\ sock[d].gen \in Nat
  BY NothingRaces DEF Deliver, QuietInv, CallTypeOK
<1>2. m.id \in CallIds /\ m.from \in Users /\ m.conv \in BOOLEAN
  BY <1>1 DEF Signal
<1>3. UNCHANGED <<call, mics, sock, caller, accepted>>
  BY DEF Deliver
<1>4. ASSUME NEW t \in CallTask, TaskInv(d, t), Add(d, t), net' = net (-) One(m) PROVE QuietInv'
  <2>1. tasks' = [tasks EXCEPT ![d] = One(t)]
    BY <1>1, <1>4, OneElement DEF Add
  <2>2. BagToSet(net') \subseteq BagToSet(net)
    BY <1>4, BagElements
  <2> QED
    BY <1>1, <1>3, <1>4, <2>1, <2>2, TaskChanges
<1>5. CASE HandleIncomingCallOffer(d, m) /\ call[d].status # "idle"
  <2>1. net' = (net (-) One(m)) (+) Busy(d, m) /\ tasks' = tasks
    BY <1>5 DEF HandleIncomingCallOffer
  <2>2. BagToSet(net') \subseteq BagToSet(net) \cup BagToSet(Busy(d, m))
    BY <2>1, BagElements
  <2>3. \A n \in BagToSet(Busy(d, m)) : n \in Signal /\ n.type = "call_end"
    <3>1. PICK conv \in BOOLEAN : Busy(d, m) = Sent(d, sock[d].gen, "call_end", m.id, m.from, conv)
      BY Zenon DEF Busy
    <3> QED
      BY <1>2, <3>1, SentSignals
  <2>4. /\ BagToSet(net') \subseteq Signal
        /\ \A n \in BagToSet(net') \ BagToSet(net) : SignalInv(n)
    BY <1>1, <2>2, <2>3 DEF SignalInv
  <2> QED
    BY <1>3, <2>1, <2>4, TaskChanges
<1>6. CASE HandleIncomingCallOffer(d, m) /\ call[d].status = "idle"
  <2>1. PICK t : t = Task("ring", m.id, m.from, m.conv, sock[d].gen)
    OBVIOUS
  <2>2. t \in CallTask /\ t.kind = "ring" /\ t.id = m.id /\ t.peer = m.from
    BY <1>1, <1>2, <2>1 DEF Task, CallTask
  <2>3. Add(d, t) /\ net' = net (-) One(m) /\ m.type = "call_offer"
    BY <1>6, <2>1 DEF HandleIncomingCallOffer
  <2>4. TaskInv(d, t)
    BY <1>1, <1>6, <2>2, <2>3 DEF TaskInv, SignalInv
  <2> QED
    BY <1>4, <2>2, <2>3, <2>4
<1>7. CASE HandleCallAnswer(d, m)
  <2>1. PICK t : t = Task("answer", m.id, Null, FALSE, 0)
    OBVIOUS
  <2>2. t \in CallTask /\ t.kind = "answer" /\ t.id = m.id
    BY <1>2, <2>1 DEF Task, CallTask
  <2>3. Add(d, t) /\ net' = net (-) One(m) /\ m.type = "call_answer"
    BY <1>7, <2>1 DEF HandleCallAnswer
  <2>4. TaskInv(d, t)
    BY <1>1, <2>2, <2>3 DEF TaskInv, SignalInv
  <2> QED
    BY <1>4, <2>2, <2>3, <2>4
<1>8. CASE HandleCallEnd(d, m)
  <2>1. PICK t : t = Task("end", m.id, Null, FALSE, 0)
    OBVIOUS
  <2>2. t \in CallTask /\ t.kind = "end"
    BY <1>2, <2>1 DEF Task, CallTask
  <2>3. Add(d, t) /\ net' = net (-) One(m)
    BY <1>8, <2>1 DEF HandleCallEnd
  <2>4. TaskInv(d, t)
    BY <2>2 DEF TaskInv
  <2> QED
    BY <1>4, <2>2, <2>3, <2>4
<1> QED
  BY <1>5, <1>6, <1>7, <1>8 DEF Deliver

(* Hanging up, the timer of a ring, and the sockets.                        *)
LEMMA OthersKeepQuiet ==
    ASSUME QuietInv, races = 0, races' = 0, NEW d \in Devices,
           \/ HangUp(d) \/ RingTimeout(d) \/ SocketLost(d) \/ ConnectInbox(d)
           \/ \E m \in BagToSet(net) : NotDelivered(d, m)
    PROVE  QuietInv'
<1>1. /\ PageInv(d) /\ call[d] \in CallState /\ BagToSet(net) \subseteq Signal
      /\ sock \in [Devices -> [gen : Nat, open : BOOLEAN]]
      /\ accepted \in [Devices -> SUBSET CallIds]
  BY DEF QuietInv, CallTypeOK
<1>2. CASE HangUp(d) \/ RingTimeout(d)
  <2>1. EndCall(d, call[d], TRUE, EmptyBag) /\ UNCHANGED <<sock, net, caller, accepted>>
    BY <1>2, NothingRaces DEF HangUp, RingTimeout
  <2>2. mics[d] = IF call[d].voice = Null THEN 0 ELSE 1
    BY <1>1, CallAssumption DEF PageInv, Microphone, InCall
  <2>3. \A c \in accepted'[d] : Called(c, d)
    BY <1>1, <2>1 DEF PageInv
  <2> QED
    BY <1>1, <2>1, <2>2, <2>3, CallEnds
<1>3. ASSUME UNCHANGED <<call, tasks, mics, caller, accepted>>,
             sock' \in [Devices -> [gen : Nat, open : BOOLEAN]],
             BagToSet(net') \subseteq BagToSet(net)
      PROVE  QuietInv'
  <2>1. CallTypeOK'
    BY <1>3 DEF QuietInv, CallTypeOK
  <2>2. \A e \in Devices : PageInv(e)'
    BY <1>3 DEF QuietInv, PageInv, OneTask, TaskInv, InCall, Microphone, Called, Accepted,
                AcceptedSomewhere
  <2>3. \A m \in BagToSet(net') : SignalInv(m)'
    BY <1>3 DEF QuietInv, SignalInv, Called, AcceptedSomewhere
  <2> QED
    BY <2>1, <2>2, <2>3 DEF QuietInv
<1>4. CASE SocketLost(d)
  <2>1. BagToSet(net') \subseteq BagToSet(net)
    BY <1>4 DEF SocketLost, BagToSet
  <2> QED
    BY <1>1, <1>3, <1>4, <2>1 DEF SocketLost
<1>5. CASE ConnectInbox(d)
  BY <1>1, <1>3, <1>5 DEF ConnectInbox
<1>6. ASSUME NEW m \in BagToSet(net), NotDelivered(d, m) PROVE QuietInv'
  <2>1. BagToSet(net') \subseteq BagToSet(net)
    BY <1>6, BagElements DEF NotDelivered
  <2> QED
    BY <1>1, <1>3, <1>6, <2>1 DEF NotDelivered
<1> QED
  BY <1>2, <1>4, <1>5, <1>6

LEMMA CallsNext == CallInv /\ [Next]_vars => CallInv'
<1> SUFFICES ASSUME CallInv, [Next]_vars PROVE CallInv'
  OBVIOUS
<1>1. races' = races \/ races' = races + 1
  <2>1. ASSUME NEW d \in Devices, NEW u \in Users, NEW c \in CallIds, StartOutgoingCall(d, u, c)
        PROVE  races' = races \/ races' = races + 1
    BY <2>1 DEF StartOutgoingCall, Event
  <2>2. ASSUME NEW d \in Devices, AcceptCall(d) \/ HangUp(d) PROVE races' = races \/ races' = races + 1
    BY <2>2 DEF AcceptCall, HangUp, Event
  <2>3. ASSUME NEW d \in Devices, SocketLost(d) \/ ConnectInbox(d) PROVE races' = races
    BY <2>3 DEF SocketLost, ConnectInbox
  <2>4. ASSUME NEW d \in Devices, Resumption(d) PROVE races' = races \/ races' = races + 1
    BY <2>4 DEF Resumption, Resume, RingTimeout, Event
  <2>5. ASSUME NEW d \in Devices, Reception(d) PROVE races' = races \/ races' = races + 1
    BY <2>5 DEF Reception, Deliver, NotDelivered, Event
  <2> QED
    BY <2>1, <2>2, <2>3, <2>4, <2>5 DEF Next, vars
<1>2. OneDevicePerAccount' /\ races' \in Nat
  BY <1>1 DEF CallInv, OneDevicePerAccount
<1>3. ASSUME races' = 0 PROVE QuietInv'
  <2>1. races = 0 /\ QuietInv /\ OneDevicePerAccount
    BY <1>1, <1>3 DEF CallInv
  <2>2. ASSUME NEW d \in Devices, NEW u \in Users, NEW c \in CallIds, StartOutgoingCall(d, u, c)
        PROVE  QuietInv'
    BY <1>3, <2>1, <2>2, StartKeepsQuiet
  <2>3. ASSUME NEW d \in Devices, AcceptCall(d) PROVE QuietInv'
    BY <1>3, <2>1, <2>3, AcceptKeepsQuiet
  <2>4. ASSUME NEW d \in Devices, HangUp(d) \/ SocketLost(d) \/ ConnectInbox(d) PROVE QuietInv'
    BY <1>3, <2>1, <2>4, OthersKeepQuiet
  <2>5. ASSUME NEW d \in Devices, Resumption(d) PROVE QuietInv'
    BY <1>3, <2>1, <2>5, ResumeKeepsQuiet, OthersKeepQuiet DEF Resumption
  <2>6. ASSUME NEW d \in Devices, Reception(d) PROVE QuietInv'
    BY <1>3, <2>1, <2>6, DeliverKeepsQuiet, OthersKeepQuiet DEF Reception
  <2>7. CASE UNCHANGED vars
    <3>1. UNCHANGED <<call, tasks, mics, sock, net, caller, accepted>>
      BY <2>7 DEF vars
    <3> QED
      BY <2>1, <3>1 DEF QuietInv, CallTypeOK, SignalInv, PageInv, OneTask, TaskInv, InCall,
                        Microphone, Called, Accepted, AcceptedSomewhere
  <2> QED
    BY <2>2, <2>3, <2>4, <2>5, <2>6, <2>7 DEF Next
<1> QED
  BY <1>2, <1>3 DEF CallInv

(* Calls: for every number of accounts with one device each, of calls and of  *)
(* faults, a page that nothing has raced with is connected only in a call    *)
(* that was accepted, and holds one microphone for it and none otherwise.    *)
THEOREM MicrophoneMeansAcceptedHolds == OneDevicePerAccount /\ Spec => []MicrophoneMeansAccepted
<1>1. CallInv => MicrophoneMeansAccepted
  BY DEF CallInv, QuietInv, PageInv, InCall, Microphone, MicrophoneMeansAccepted
<1> QED
  BY <1>1, CallsInit, CallsNext, PTL DEF Spec

=============================================================================
