----------------------------- MODULE SearchProofs -----------------------------
(***************************************************************************)
(* Theorems about the search engine, for every mailbox and every query of  *)
(* any length, and about the search bar and the popup that queries come    *)
(* from.                                                                   *)
(***************************************************************************)
EXTENDS Search, SearchHistory, CountingProofs, SequenceTheorems

-----------------------------------------------------------------------------
(* Messages in the order of the index. *)

(* What InOrder has of a set after the first messages. *)
IsBuilt(upTo, set) ==
    /\ upTo \in [0 .. N -> Seq(Messages)]
    /\ upTo[0] = <<>>
    /\ \A m \in Messages :
           upTo[m] = IF m \in set THEN Append(upTo[m - 1], m) ELSE upTo[m - 1]

LEMMA InOrderIsBuilt ==
  ASSUME NEW set
  PROVE  \E upTo : IsBuilt(upTo, set) /\ InOrder(set) = upTo[N]
<1> DEFINE Body(f) == [m \in 0 .. N |->
                          IF m = 0 THEN <<>>
                          ELSE IF m \in set THEN Append(f[m - 1], m) ELSE f[m - 1]]
           step == [x \in (1 .. N) \X Seq(Messages) |->
                       IF x[1] \in set THEN Append(x[2], x[1]) ELSE x[2]]
<1>1. N \in Nat /\ Messages = 1 .. N
  BY SearchAssumption DEF Messages
<1>2. step \in [(1 .. N) \X Seq(Messages) -> Seq(Messages)]
  <2>1. ASSUME NEW x \in (1 .. N) \X Seq(Messages)
        PROVE  (IF x[1] \in set THEN Append(x[2], x[1]) ELSE x[2]) \in Seq(Messages)
    <3>1. x[1] \in Messages /\ x[2] \in Seq(Messages)
      BY <1>1
    <3>2. Append(x[2], x[1]) \in Seq(Messages)
      BY <3>1
    <3>3. QED
      BY <3>1, <3>2
  <2>2. QED
    BY <2>1
<1>3. <<>> \in Seq(Messages)
  OBVIOUS
<1>4. \A m \in 1 .. N, list \in Seq(Messages) :
          step[<<m, list>>] = IF m \in set THEN Append(list, m) ELSE list
  OBVIOUS
<1> HIDE DEF step, Body
<1>5. PICK f \in [0 .. N -> Seq(Messages)] : Follows(f, N, <<>>, step)
  BY <1>1, <1>2, <1>3, RecursionUpTo
<1>6. \A m \in 1 .. N : f[m] = IF m \in set THEN Append(f[m - 1], m) ELSE f[m - 1]
  <2>1. \A m \in 1 .. N : f[m - 1] \in Seq(Messages)
    BY <1>1
  <2>2. QED
    BY <1>4, <1>5, <2>1 DEF Follows
<1>7. f = Body(f)
  <2>1. \A m \in 0 .. N : f[m] = IF m = 0 THEN <<>>
                                 ELSE IF m \in set THEN Append(f[m - 1], m) ELSE f[m - 1]
    <3>1. ASSUME NEW m \in 0 .. N, m # 0
          PROVE  m \in 1 .. N
      BY <1>1, <3>1
    <3>2. QED
      BY <1>5, <1>6, <3>1 DEF Follows
  <2>2. f = [m \in 0 .. N |-> f[m]]
    BY <1>5
  <2>3. QED
    BY <2>1, <2>2 DEF Body
<1> DEFINE upTo == CHOOSE u : u = Body(u)
<1>8. upTo = Body(upTo)
  BY <1>7
<1>9. InOrder(set) = upTo[N]
  BY DEF InOrder, Body
<1>10. ASSUME NEW u, u = Body(u)
       PROVE  u = f
  <2> DEFINE S == {m \in 0 .. N : u[m] = f[m]}
  <2>1. u = [m \in 0 .. N |-> u[m]]
    BY <1>10 DEF Body
  <2>2. 0 \in S
    BY <1>1, <1>5, <1>10 DEF Body, Follows
  <2>3. ASSUME NEW m \in 0 .. N, m \in S, m < N
        PROVE  m + 1 \in S
    <3>1. m + 1 \in 1 .. N /\ m + 1 \in 0 .. N /\ m + 1 # 0 /\ (m + 1) - 1 = m
      BY <1>1, <2>3
    <3>2. u[m + 1] = IF m + 1 \in set THEN Append(u[m], m + 1) ELSE u[m]
      BY <1>10, <3>1 DEF Body
    <3>3. f[m + 1] = IF m + 1 \in set THEN Append(f[m], m + 1) ELSE f[m]
      BY <1>6, <3>1
    <3>4. QED
      BY <2>3, <3>1, <3>2, <3>3
  <2>4. \A m \in 0 .. N : m \in S
    <3> HIDE DEF S
    <3>1. QED
      BY <1>1, <2>2, <2>3, InductionUpTo
  <2>5. QED
    BY <1>5, <2>1, <2>4
<1>11. QED
  <2> HIDE DEF upTo
  <2>1. upTo = f
    BY <1>8, <1>10
  <2>2. IsBuilt(f, set)
    BY <1>1, <1>5, <1>6 DEF IsBuilt, Follows
  <2>3. QED
    BY <1>9, <2>1, <2>2

-----------------------------------------------------------------------------
(* A listing of a set in order is made of its messages, which it has in    *)
(* ascending order, and a message above all of the set comes last.         *)
Increases(list) == \A i, j \in 1 .. Len(list) : i < j => list[i] < list[j]

LEMMA ListedInOrder ==
  ASSUME NEW set \in SUBSET Messages
  PROVE  /\ InOrder(set) \in Seq(Messages)
         /\ Range(InOrder(set)) = set
         /\ Increases(InOrder(set))
<1>1. N \in Nat /\ Messages = 1 .. N
  BY SearchAssumption DEF Messages
<1>2. PICK upTo : IsBuilt(upTo, set) /\ InOrder(set) = upTo[N]
  BY InOrderIsBuilt
<1> DEFINE Good(m) == /\ Range(upTo[m]) = {k \in set : k <= m}
                      /\ Increases(upTo[m])
           S == {m \in 0 .. N : Good(m)}
<1>3. /\ \A m \in 0 .. N : upTo[m] \in Seq(Messages)
      /\ upTo[0] = <<>>
      /\ \A m \in 1 .. N :
             upTo[m] = IF m \in set THEN Append(upTo[m - 1], m) ELSE upTo[m - 1]
  BY <1>1, <1>2 DEF IsBuilt
<1>4. Good(0)
  <2>1. Len(upTo[0]) = 0 /\ DOMAIN upTo[0] = {}
    BY <1>3
  <2>2. Range(upTo[0]) = {}
    BY <2>1 DEF Range
  <2>3. {k \in set : k <= 0} = {}
    <3>1. \A k \in set : ~(k <= 0)
      BY <1>1
    <3>2. QED
      BY <3>1
  <2>4. QED
    BY <2>1, <2>2, <2>3 DEF Increases
<1>5. ASSUME NEW n \in 0 .. N, Good(n), n < N
      PROVE  Good(n + 1)
  <2> DEFINE m == n + 1
             before == upTo[n]
  <2>1. m \in 1 .. N /\ m - 1 = n /\ n \in Nat
    BY <1>1, <1>5
  <2>2. before \in Seq(Messages) /\ Len(before) \in Nat
    BY <1>3
  <2>3. upTo[m] = IF m \in set THEN Append(before, m) ELSE before
    BY <1>3, <2>1
  <2>4. \A k \in set : k \in Nat
    BY <1>1
  <2> HIDE DEF m
  <2>5. CASE m \notin set
    <3>1. {k \in set : k <= m} = {k \in set : k <= n}
      BY <2>1, <2>4, <2>5 DEF m
    <3>2. QED
      BY <1>5, <2>3, <2>5, <3>1 DEF m
  <2>6. CASE m \in set
    <3> DEFINE after == Append(before, m)
    <3>1. /\ Len(after) = Len(before) + 1
          /\ \A i \in 1 .. Len(before) : after[i] = before[i]
          /\ after[Len(before) + 1] = m
          /\ DOMAIN after = 1 .. Len(before) + 1
      BY <2>2, <2>6
    <3>2. DOMAIN before = 1 .. Len(before)
      BY <2>2
    <3> HIDE DEF after
    <3>3. Range(after) = Range(before) \cup {m}
      <4>1. ASSUME NEW i \in 1 .. Len(before) + 1
            PROVE  after[i] \in Range(before) \cup {m}
        <5>1. i \in 1 .. Len(before) \/ i = Len(before) + 1
          BY <2>2
        <5>2. QED
          BY <3>1, <3>2, <5>1 DEF Range
      <4>2. \A i \in 1 .. Len(before) : i \in 1 .. Len(before) + 1
        BY <2>2
      <4>3. Len(before) + 1 \in 1 .. Len(before) + 1
        BY <2>2
      <4>4. QED
        BY <3>1, <3>2, <4>1, <4>2, <4>3 DEF Range
    <3>4. {k \in set : k <= m} = {k \in set : k <= n} \cup {m}
      BY <2>1, <2>4, <2>6 DEF m
    <3>5. \A i \in 1 .. Len(before) : before[i] < m
      <4>1. \A i \in 1 .. Len(before) : before[i] \in {k \in set : k <= n}
        BY <1>5, <3>2 DEF Range
      <4>2. QED
        BY <2>1, <2>4, <4>1 DEF m
    <3>6. Increases(after)
      <4>1. SUFFICES ASSUME NEW i \in 1 .. Len(before) + 1, NEW j \in 1 .. Len(before) + 1, i < j
                     PROVE  after[i] < after[j]
        BY <3>1 DEF Increases
      <4>2. i \in 1 .. Len(before)
        BY <2>2, <4>1
      <4>3. CASE j = Len(before) + 1
        BY <3>1, <3>5, <4>2, <4>3
      <4>4. CASE j \in 1 .. Len(before)
        BY <1>5, <3>1, <4>1, <4>2, <4>4 DEF Increases
      <4>5. QED
        BY <2>2, <4>3, <4>4
    <3>7. QED
      BY <1>5, <2>3, <2>6, <3>3, <3>4, <3>6 DEF m, after
  <2>7. QED
    BY <2>5, <2>6
<1>6. Good(N)
  <2> HIDE DEF Good
  <2>1. 0 \in S
    BY <1>1, <1>4
  <2>2. \A n \in 0 .. N : n \in S /\ n < N => n + 1 \in S
    BY <1>1, <1>5
  <2>3. N \in S
    <3> HIDE DEF S
    <3>1. \A n \in 0 .. N : n \in S
      BY <1>1, <2>1, <2>2, InductionUpTo
    <3>2. QED
      BY <1>1, <3>1
  <2>4. QED
    BY <2>3
<1>7. {k \in set : k <= N} = set
  <2>1. \A k \in set : k <= N
    BY <1>1
  <2>2. QED
    BY <2>1
<1>8. upTo[N] \in Seq(Messages)
  BY <1>1, <1>3
<1>9. QED
  BY <1>2, <1>6, <1>7, <1>8

LEMMA AppendedInOrder ==
  ASSUME NEW set \in SUBSET Messages, NEW top \in Messages, \A k \in set : k < top
  PROVE  InOrder(set \cup {top}) = Append(InOrder(set), top)
<1> DEFINE more == set \cup {top}
<1>1. N \in Nat /\ Messages = 1 .. N
  BY SearchAssumption DEF Messages
<1>2. PICK a : IsBuilt(a, set) /\ InOrder(set) = a[N]
  BY InOrderIsBuilt
<1>3. PICK b : IsBuilt(b, more) /\ InOrder(more) = b[N]
  BY InOrderIsBuilt
<1>4. /\ \A m \in 0 .. N : a[m] \in Seq(Messages)
      /\ a[0] = <<>> /\ b[0] = <<>>
      /\ \A m \in 1 .. N : a[m] = IF m \in set THEN Append(a[m - 1], m) ELSE a[m - 1]
      /\ \A m \in 1 .. N : b[m] = IF m \in more THEN Append(b[m - 1], m) ELSE b[m - 1]
  BY <1>1, <1>2, <1>3 DEF IsBuilt
<1> DEFINE Good(m) == b[m] = IF m < top THEN a[m] ELSE Append(a[m], top)
           S == {m \in 0 .. N : Good(m)}
<1>5. top \in 1 .. N /\ \A k \in set : k \in 1 .. N /\ k < top
  BY <1>1
<1>6. Good(0)
  BY <1>4, <1>5
<1>7. ASSUME NEW n \in 0 .. N, Good(n), n < N
      PROVE  Good(n + 1)
  <2> DEFINE m == n + 1
  <2>1. m \in 1 .. N /\ m - 1 = n /\ n \in Nat /\ m = n + 1
    BY <1>1, <1>7
  <2>2. /\ a[m] = IF m \in set THEN Append(a[n], m) ELSE a[n]
        /\ b[m] = IF m \in more THEN Append(b[n], m) ELSE b[n]
    BY <1>4, <2>1
  <2> HIDE DEF m
  <2>3. CASE m < top
    <3>1. n < top /\ (m \in more <=> m \in set)
      BY <1>5, <2>1, <2>3
    <3>2. b[m] = a[m]
      BY <1>7, <2>2, <3>1
    <3>3. QED
      BY <2>3, <3>2 DEF m
  <2>4. CASE m = top
    <3>1. n < top /\ m \in more /\ m \notin set /\ ~(m < top)
      BY <1>5, <2>1, <2>4
    <3>2. b[m] = Append(a[m], top)
      BY <1>7, <2>2, <2>4, <3>1
    <3>3. QED
      BY <3>1, <3>2 DEF m
  <2>5. CASE m > top
    <3>1. ~(n < top) /\ m \notin more /\ m \notin set /\ ~(m < top)
      BY <1>5, <2>1, <2>5
    <3>2. b[m] = Append(a[m], top)
      BY <1>7, <2>2, <3>1
    <3>3. QED
      BY <3>1, <3>2 DEF m
  <2>6. QED
    BY <1>5, <2>1, <2>3, <2>4, <2>5
<1>8. Good(N)
  <2> HIDE DEF Good
  <2>1. 0 \in S
    BY <1>1, <1>6
  <2>2. \A n \in 0 .. N : n \in S /\ n < N => n + 1 \in S
    BY <1>1, <1>7
  <2>3. N \in S
    <3> HIDE DEF S
    <3>1. \A n \in 0 .. N : n \in S
      BY <1>1, <2>1, <2>2, InductionUpTo
    <3>2. QED
      BY <1>1, <3>1
  <2>4. QED
    BY <2>3
<1>9. ~(N < top)
  BY <1>1, <1>5
<1>10. QED
  BY <1>2, <1>3, <1>8, <1>9

LEMMA NothingInOrder == InOrder({}) = <<>>
<1>1. InOrder({}) \in Seq(Messages) /\ Range(InOrder({})) = {}
  BY ListedInOrder
<1>2. DOMAIN InOrder({}) = {}
  BY <1>1 DEF Range
<1>3. QED
  BY <1>1, <1>2

LEMMA AllInOrder == InOrder(Messages) = AllMessages
<1>1. N \in Nat /\ Messages = 1 .. N
  BY SearchAssumption DEF Messages
<1>2. PICK upTo : IsBuilt(upTo, Messages) /\ InOrder(Messages) = upTo[N]
  BY InOrderIsBuilt
<1>3. /\ upTo[0] = <<>>
      /\ \A m \in 1 .. N : upTo[m] = Append(upTo[m - 1], m)
  BY <1>1, <1>2 DEF IsBuilt
<1> DEFINE Good(m) == upTo[m] = [k \in 1 .. m |-> k]
           S == {m \in 0 .. N : Good(m)}
<1>4. Good(0)
  BY <1>3
<1>5. ASSUME NEW n \in 0 .. N, Good(n), n < N
      PROVE  Good(n + 1)
  <2>1. n + 1 \in 1 .. N /\ (n + 1) - 1 = n /\ n \in Nat
    BY <1>1, <1>5
  <2>2. upTo[n + 1] = Append([k \in 1 .. n |-> k], n + 1)
    BY <1>3, <1>5, <2>1
  <2>3. Append([k \in 1 .. n |-> k], n + 1) = [k \in 1 .. n + 1 |-> k]
    BY <2>1
  <2>4. QED
    BY <2>2, <2>3
<1>6. Good(N)
  <2> HIDE DEF Good
  <2>1. 0 \in S
    BY <1>1, <1>4
  <2>2. \A n \in 0 .. N : n \in S /\ n < N => n + 1 \in S
    BY <1>1, <1>5
  <2>3. N \in S
    <3> HIDE DEF S
    <3>1. \A n \in 0 .. N : n \in S
      BY <1>1, <2>1, <2>2, InductionUpTo
    <3>2. QED
      BY <1>1, <3>1
  <2>4. QED
    BY <2>3
<1>7. QED
  BY <1>1, <1>2, <1>6 DEF AllMessages

-----------------------------------------------------------------------------
(* The invariant of the token loop. *)

Terms(n) == {i \in 1 .. n : IsTerm(i)}

(* Every term after this one, up to there, follows an OR. *)
JoinsUpTo(i, n) == \A k \in i + 1 .. n : IsTerm(k) => tokens[k - 1].kind = "or"

(* A term is in the group that "at" says, with its alternatives; the last  *)
(* group is the one that an OR would reopen.                               *)
IsGrouping(at) ==
    /\ at \in [Terms(pos) -> DOMAIN groups]
    /\ \A i \in Terms(pos) : \E n \in DOMAIN groups[at[i]] : groups[at[i]][n] = tokens[i]
    /\ \A g \in DOMAIN groups : \A n \in DOMAIN groups[g] :
           \E i \in Terms(pos) : at[i] = g /\ tokens[i] = groups[g][n]
    /\ \A i, j \in Terms(pos) : at[i] = at[j] <=> Alternatives(i, j)
    /\ \A i \in Terms(pos) : at[i] = Len(groups) <=> JoinsUpTo(i, pos)

Grouped ==
    /\ join_previous <=> (pos > 0 /\ tokens[pos].kind = "or")
    /\ needs_fulltext <=> \E i \in Terms(pos) : WantsFulltext(tokens[i])
    /\ \E at : IsGrouping(at)

(* The filters are those that the first tokens make, and no other.  Each   *)
(* token makes one or none.                                                *)
Collects(filters, made, n) ==
    /\ \A f \in DOMAIN filters : \E i \in 1 .. n : made[i] = <<filters[f]>>
    /\ \A i \in 1 .. n : made[i] # <<>> => \E f \in DOMAIN filters : made[i] = <<filters[f]>>

MadeDates ==
    [i \in DOMAIN tokens |-> IF tokens[i].kind = "date" THEN DateFilter(tokens[i]) ELSE <<>>]

MadeSizes ==
    [i \in DOMAIN tokens |-> IF tokens[i].kind = "size" THEN SizeFilter(tokens[i]) ELSE <<>>]

FiltersKept == Collects(date_filters, MadeDates, pos) /\ Collects(size_filters, MadeSizes, pos)

(* The last has: with a known value decides. *)
Known(i) == tokens[i].kind = "has" /\ tokens[i].value # "other"

Wants(i) == (tokens[i].value = "attachment") # tokens[i].negated

AttachmentKept ==
    \/ has_attachment = <<>> /\ \A i \in 1 .. pos : ~Known(i)
    \/ \E i \in 1 .. pos :
           /\ Known(i) /\ \A j \in i + 1 .. pos : ~Known(j)
           /\ has_attachment \in {<<TRUE>>, <<FALSE>>}
           /\ has_attachment[1] <=> Wants(i)

DateFilters == {DateFilter(token)[1] : token \in Token}

SizeFilters == {SizeFilter(token)[1] : token \in Token}

QueryTypes ==
    /\ tokens \in Seq(Token) /\ pos \in 0 .. Len(tokens)
    /\ join_previous \in BOOLEAN /\ needs_fulltext \in BOOLEAN
    /\ groups \in Seq(Seq(Term)) /\ \A g \in DOMAIN groups : groups[g] # <<>>
    /\ date_filters \in Seq(DateFilters) /\ size_filters \in Seq(SizeFilters)
    /\ has_attachment \in {<<>>, <<TRUE>>, <<FALSE>>}

LEMMA TokenKinds ==
  ASSUME NEW token \in Token
  PROVE  /\ token.kind \in {"term", "or", "has", "date", "size"}
         /\ token.kind = "term" => token \in Term
         /\ token.kind = "has" =>
                /\ token.value \in {"attachment", "no-attachment", "other"}
                /\ token.negated \in BOOLEAN
         /\ token.kind = "date" =>
                /\ token.op \in {"date", "before", "after", "range"} /\ token.when \in When
                /\ token.op = "range" => token.to \in When
         /\ token.kind = "size" =>
                token.greater \in BOOLEAN /\ token.number \in Nat /\ token.unit \in Nat \ {0}
BY DEF Token, Term

(* What a date filter can be. *)
LEMMA DateFilterIs ==
  ASSUME NEW token \in Token, token.kind = "date", DateFilter(token) # <<>>
  PROVE  \/ /\ token.op = "range" /\ FirstDay(token.when) # <<>> /\ LastDay(token.to) # <<>>
            /\ DateFilter(token) = << <<"Range", FirstDay(token.when)[1], LastDay(token.to)[1]>> >>
         \/ /\ token.op = "before" /\ Len(token.when) = 3 /\ IsDate(token.when)
            /\ DateFilter(token) = << <<"Before", token.when>> >>
         \/ /\ token.op = "after" /\ Len(token.when) = 3 /\ IsDate(token.when)
            /\ DateFilter(token) = << <<"After", token.when>> >>
         \/ /\ token.op = "date" /\ Len(token.when) = 3
            /\ DateFilter(token) = << <<"Exact", token.when>> >>
         \/ /\ token.op = "date" /\ Len(token.when) = 2
            /\ DateFilter(token) = << <<"Month", token.when>> >>
         \/ /\ token.op = "date" /\ Len(token.when) = 1
            /\ DateFilter(token) = << <<"Year", token.when>> >>
<1>1. token.op \in {"date", "before", "after", "range"} /\ token.when \in When
  BY TokenKinds
<1>2. Len(token.when) \in 1 .. 3
  BY <1>1 DEF When
<1>3. CASE token.op = "range"
  BY <1>3 DEF DateFilter
<1>4. CASE token.op = "before"
  BY <1>4 DEF DateFilter
<1>5. CASE token.op = "after"
  BY <1>5 DEF DateFilter
<1>6. CASE token.op = "date" /\ Len(token.when) = 3
  BY <1>6 DEF DateFilter
<1>7. CASE token.op = "date" /\ Len(token.when) = 2
  BY <1>7 DEF DateFilter
<1>8. CASE token.op = "date" /\ Len(token.when) = 1
  BY <1>8 DEF DateFilter
<1>9. QED
  BY <1>1, <1>2, <1>3, <1>4, <1>5, <1>6, <1>7, <1>8

(* A filter is one or none. *)
LEMMA FilterIsOneOrNone ==
  ASSUME NEW token \in Token
  PROVE  /\ token.kind = "date" =>
                DateFilter(token) = <<>> \/ DateFilter(token) = <<DateFilter(token)[1]>>
         /\ SizeFilter(token) = <<>> \/ SizeFilter(token) = <<SizeFilter(token)[1]>>
<1>1. SizeFilter(token) = <<>> \/ SizeFilter(token) = <<SizeFilter(token)[1]>>
  BY DEF SizeFilter
<1>2. ASSUME token.kind = "date"
      PROVE  DateFilter(token) = <<>> \/ DateFilter(token) = <<DateFilter(token)[1]>>
  <2>1. SUFFICES ASSUME DateFilter(token) # <<>>
                 PROVE  \E filter : DateFilter(token) = <<filter>>
    OBVIOUS
  <2>2. QED
    BY <1>2, <2>1, DateFilterIs
<1>3. QED
  BY <1>1, <1>2

-----------------------------------------------------------------------------
(* One token. *)

LEMMA NothingIsRead ==
  ASSUME UNCHANGED <<tokens, pos, join_previous, queryVars>>
  PROVE  /\ QueryTypes => QueryTypes'
         /\ Grouped => Grouped'
         /\ FiltersKept => FiltersKept'
         /\ AttachmentKept => AttachmentKept'
<1> USE DEF queryVars
<1>1. QueryTypes => QueryTypes'
  BY DEF QueryTypes
<1>2. Terms(pos)' = Terms(pos)
  BY DEF Terms, IsTerm
<1>3. \A at : IsGrouping(at) => IsGrouping(at)'
  BY <1>2 DEF IsGrouping, Alternatives, JoinsUpTo, IsTerm
<1>4. Grouped => Grouped'
  BY <1>2, <1>3 DEF Grouped
<1>5. FiltersKept => FiltersKept'
  <2>1. MadeDates' = MadeDates /\ MadeSizes' = MadeSizes
    BY DEF MadeDates, MadeSizes
  <2>2. pos' = pos /\ date_filters' = date_filters /\ size_filters' = size_filters
    OBVIOUS
  <2>3. QED
    BY <2>1, <2>2 DEF FiltersKept
<1>6. AttachmentKept => AttachmentKept'
  BY DEF AttachmentKept, Known, Wants
<1>7. QED
  BY <1>1, <1>4, <1>5, <1>6

LEMMA ReadFacts ==
  ASSUME QueryTypes, NEW kind, ReadToken(kind)
  PROVE  /\ pc = "parse" /\ pos < Len(tokens) /\ pos' = pos + 1 /\ pos \in Nat
         /\ pos + 1 \in 1 .. Len(tokens)
         /\ tokens' = tokens /\ tokens[pos + 1] \in Token /\ tokens[pos + 1].kind = kind
         /\ \A i \in 1 .. pos + 1 : i \in 1 .. pos \/ i = pos + 1
         /\ 1 .. pos' = 1 .. pos + 1
BY DEF QueryTypes, ReadToken

LEMMA AttachmentStep ==
  ASSUME QueryTypes, AttachmentKept, NEW kind, ReadToken(kind),
         kind # "has" => has_attachment' = has_attachment,
         kind = "has" => HasToken
  PROVE  AttachmentKept' /\ has_attachment' \in {<<>>, <<TRUE>>, <<FALSE>>}
<1> DEFINE n == pos + 1
<1>1. /\ pos' = n /\ pos \in Nat /\ tokens' = tokens /\ tokens[n] \in Token
      /\ tokens[n].kind = kind
      /\ \A i \in 1 .. n : i \in 1 .. pos \/ i = n
  BY ReadFacts
<1>2. \A i : (Known(i)' <=> Known(i)) /\ (Wants(i)' <=> Wants(i))
  BY <1>1 DEF Known, Wants
<1>3. ASSUME ~Known(n), has_attachment' = has_attachment
      PROVE  AttachmentKept'
  <2>1. CASE has_attachment = <<>> /\ \A i \in 1 .. pos : ~Known(i)
    BY <1>1, <1>2, <1>3, <2>1 DEF AttachmentKept
  <2>2. ASSUME NEW i \in 1 .. pos, Known(i), \A j \in i + 1 .. pos : ~Known(j),
               has_attachment \in {<<TRUE>>, <<FALSE>>}, has_attachment[1] <=> Wants(i)
        PROVE  AttachmentKept'
    <3>1. i \in 1 .. n /\ \A j \in i + 1 .. n : ~Known(j)
      BY <1>1, <1>3, <2>2
    <3>2. QED
      BY <1>1, <1>2, <1>3, <2>2, <3>1 DEF AttachmentKept
  <2>3. QED
    BY <2>1, <2>2 DEF AttachmentKept
<1>4. ASSUME Known(n), has_attachment' \in {<<TRUE>>, <<FALSE>>}, has_attachment'[1] <=> Wants(n)
      PROVE  AttachmentKept'
  <2>1. n \in 1 .. n /\ \A j \in n + 1 .. n : ~Known(j)
    BY <1>1
  <2>2. QED
    BY <1>1, <1>2, <1>4, <2>1 DEF AttachmentKept
<1>5. CASE kind # "has"
  <2>1. ~Known(n)
    BY <1>1, <1>5 DEF Known
  <2>2. QED
    BY <1>3, <1>5, <2>1 DEF QueryTypes
<1>6. CASE kind = "has"
  <2>1. /\ tokens[n].value \in {"attachment", "no-attachment", "other"}
        /\ tokens[n].negated \in BOOLEAN
    BY <1>1, <1>6, TokenKinds
  <2>2. has_attachment' = CASE tokens[n].value = "attachment" -> <<~tokens[n].negated>>
                             [] tokens[n].value = "no-attachment" -> <<tokens[n].negated>>
                             [] OTHER -> has_attachment
    BY <1>6 DEF HasToken
  <2>3. CASE tokens[n].value = "other"
    BY <1>3, <2>2, <2>3 DEF Known, QueryTypes
  <2>4. CASE tokens[n].value = "attachment"
    <3>1. Known(n) /\ (Wants(n) <=> ~tokens[n].negated)
      BY <1>1, <1>6, <2>1, <2>4 DEF Known, Wants
    <3>2. CASE tokens[n].negated
      <4>1. has_attachment' = <<FALSE>>
        BY <2>1, <2>2, <2>4, <3>2
      <4>2. QED
        BY <1>4, <3>1, <3>2, <4>1
    <3>3. CASE ~tokens[n].negated
      <4>1. has_attachment' = <<TRUE>>
        BY <2>1, <2>2, <2>4, <3>3
      <4>2. QED
        BY <1>4, <3>1, <3>3, <4>1
    <3>4. QED
      BY <3>2, <3>3
  <2>5. CASE tokens[n].value = "no-attachment"
    <3>1. Known(n) /\ (Wants(n) <=> tokens[n].negated)
      BY <1>1, <1>6, <2>1, <2>5 DEF Known, Wants
    <3>2. CASE tokens[n].negated
      <4>1. has_attachment' = <<TRUE>>
        BY <2>1, <2>2, <2>5, <3>2
      <4>2. QED
        BY <1>4, <3>1, <3>2, <4>1
    <3>3. CASE ~tokens[n].negated
      <4>1. has_attachment' = <<FALSE>>
        BY <2>1, <2>2, <2>5, <3>3
      <4>2. QED
        BY <1>4, <3>1, <3>3, <4>1
    <3>4. QED
      BY <3>2, <3>3
  <2>6. QED
    BY <2>1, <2>3, <2>4, <2>5
<1>7. QED
  BY <1>5, <1>6

LEMMA CollectsOneMore ==
  ASSUME NEW S, NEW filters \in Seq(S), NEW made, NEW n \in Nat, Collects(filters, made, n),
         made[n + 1] = <<>> \/ (made[n + 1] = <<made[n + 1][1]>> /\ made[n + 1][1] \in S)
  PROVE  /\ filters \o made[n + 1] \in Seq(S)
         /\ Collects(filters \o made[n + 1], made, n + 1)
<1> DEFINE more == filters \o made[n + 1]
           count == Len(filters)
<1>1. \A i \in 1 .. n + 1 : i \in 1 .. n \/ i = n + 1
  OBVIOUS
<1>2. n + 1 \in 1 .. n + 1 /\ \A i \in 1 .. n : i \in 1 .. n + 1
  OBVIOUS
<1>3. CASE made[n + 1] = <<>>
  <2>1. more = filters
    BY <1>3
  <2>2. QED
    BY <1>1, <1>2, <1>3, <2>1 DEF Collects
<1>4. ASSUME NEW new \in S, made[n + 1] = <<new>>
      PROVE  more \in Seq(S) /\ Collects(more, made, n + 1)
  <2>1. more = filters \o <<new>>
    BY <1>4
  <2> HIDE DEF more
  <2>2. /\ more \in Seq(S)
        /\ DOMAIN more = 1 .. count + 1
        /\ \A f \in 1 .. count : more[f] = filters[f]
        /\ more[count + 1] = new
        /\ count \in Nat /\ DOMAIN filters = 1 .. count
    BY <2>1
  <2>3. ASSUME NEW f \in 1 .. count + 1
        PROVE  \E i \in 1 .. n + 1 : made[i] = <<more[f]>>
    <3>1. CASE f \in 1 .. count
      BY <1>2, <2>2, <3>1 DEF Collects
    <3>2. CASE f = count + 1
      BY <1>2, <1>4, <2>2, <3>2
    <3>3. QED
      BY <2>2, <3>1, <3>2
  <2>4. ASSUME NEW i \in 1 .. n + 1, made[i] # <<>>
        PROVE  \E f \in 1 .. count + 1 : made[i] = <<more[f]>>
    <3>1. CASE i \in 1 .. n
      <4>1. PICK f \in 1 .. count : made[i] = <<filters[f]>>
        BY <2>2, <2>4, <3>1 DEF Collects
      <4>2. f \in 1 .. count + 1
        BY <2>2
      <4>3. QED
        BY <2>2, <4>1, <4>2
    <3>2. CASE i = n + 1
      <4>1. count + 1 \in 1 .. count + 1
        BY <2>2
      <4>2. QED
        BY <1>4, <2>2, <3>2, <4>1
    <3>3. QED
      BY <1>1, <3>1, <3>2
  <2>5. /\ \A f \in DOMAIN more : \E i \in 1 .. n + 1 : made[i] = <<more[f]>>
        /\ \A i \in 1 .. n + 1 : made[i] # <<>> =>
               \E f \in DOMAIN more : made[i] = <<more[f]>>
    <3>1. DOMAIN more = 1 .. count + 1
      BY <2>2
    <3> HIDE DEF count
    <3>2. QED
      BY ONLY <2>3, <2>4, <3>1
  <2>6. QED
    BY <2>2, <2>5 DEF Collects
<1>5. QED
  BY <1>3, <1>4

LEMMA FiltersStep ==
  ASSUME QueryTypes, FiltersKept, NEW kind, ReadToken(kind),
         kind # "date" => date_filters' = date_filters,
         kind = "date" => DateToken,
         kind # "size" => size_filters' = size_filters,
         kind = "size" => SizeToken
  PROVE  FiltersKept' /\ date_filters' \in Seq(DateFilters) /\ size_filters' \in Seq(SizeFilters)
<1> DEFINE n == pos + 1
<1>1. /\ pos' = n /\ pos \in Nat /\ tokens' = tokens /\ tokens[n] \in Token
      /\ tokens[n].kind = kind /\ n \in DOMAIN tokens
  <2>1. /\ pos' = n /\ pos \in Nat /\ tokens' = tokens /\ tokens[n] \in Token
        /\ tokens[n].kind = kind /\ n \in 1 .. Len(tokens)
    BY ReadFacts
  <2>2. DOMAIN tokens = 1 .. Len(tokens)
    BY DEF QueryTypes
  <2>3. QED
    BY <2>1, <2>2
<1>2. MadeDates' = MadeDates /\ MadeSizes' = MadeSizes
  BY <1>1 DEF MadeDates, MadeSizes
<1>3. /\ MadeDates[n] = IF kind = "date" THEN DateFilter(tokens[n]) ELSE <<>>
      /\ MadeSizes[n] = IF kind = "size" THEN SizeFilter(tokens[n]) ELSE <<>>
  BY <1>1 DEF MadeDates, MadeSizes
<1>4. date_filters \in Seq(DateFilters) /\ size_filters \in Seq(SizeFilters)
  BY DEF QueryTypes
<1>5. /\ MadeDates[n] = <<>>
         \/ (MadeDates[n] = <<MadeDates[n][1]>> /\ MadeDates[n][1] \in DateFilters)
      /\ MadeSizes[n] = <<>>
         \/ (MadeSizes[n] = <<MadeSizes[n][1]>> /\ MadeSizes[n][1] \in SizeFilters)
  BY <1>1, <1>3, FilterIsOneOrNone DEF DateFilters, SizeFilters
<1>6. date_filters' = date_filters \o MadeDates[n]
  <2>1. CASE kind = "date"
    BY <1>3, <2>1 DEF DateToken
  <2>2. CASE kind # "date"
    BY <1>3, <1>4, <2>2
  <2>3. QED
    BY <2>1, <2>2
<1>7. size_filters' = size_filters \o MadeSizes[n]
  <2>1. CASE kind = "size"
    BY <1>3, <2>1 DEF SizeToken
  <2>2. CASE kind # "size"
    BY <1>3, <1>4, <2>2
  <2>3. QED
    BY <2>1, <2>2
<1>8. date_filters' \in Seq(DateFilters) /\ Collects(date_filters', MadeDates, n)
  BY <1>1, <1>4, <1>5, <1>6, CollectsOneMore DEF FiltersKept
<1>9. size_filters' \in Seq(SizeFilters) /\ Collects(size_filters', MadeSizes, n)
  BY <1>1, <1>4, <1>5, <1>7, CollectsOneMore DEF FiltersKept
<1>10. QED
  BY <1>1, <1>2, <1>8, <1>9 DEF FiltersKept

LEMMA GroupsAfterNoTerm ==
  ASSUME QueryTypes, Grouped, NEW kind, ReadToken(kind), kind # "term",
         join_previous' = (kind = "or"), groups' = groups, needs_fulltext' = needs_fulltext
  PROVE  Grouped'
<1> DEFINE n == pos + 1
<1>1. /\ pos' = n /\ pos \in Nat /\ tokens' = tokens /\ tokens[n].kind = kind
      /\ \A i \in 1 .. n : i \in 1 .. pos \/ i = n
  BY ReadFacts
<1>2. Terms(pos)' = Terms(pos)
  <2>1. {i \in 1 .. n : IsTerm(i)} = {i \in 1 .. pos : IsTerm(i)}
    BY <1>1 DEF IsTerm
  <2>2. QED
    BY <1>1, <2>1 DEF Terms, IsTerm
<1>3. ASSUME NEW i \in Terms(pos)
      PROVE  JoinsUpTo(i, pos)' <=> JoinsUpTo(i, pos)
  <2>1. i \in 1 .. pos
    BY DEF Terms
  <2>2. ~IsTerm(n)
    BY <1>1 DEF IsTerm
  <2>3. \A k \in i + 1 .. n : k \in i + 1 .. pos \/ k = n
    BY <1>1, <2>1
  <2>4. \A k \in i + 1 .. pos : k \in i + 1 .. n
    BY <1>1, <2>1
  <2>5. QED
    BY <1>1, <2>2, <2>3, <2>4 DEF JoinsUpTo, IsTerm
<1>4. \A i, j : Alternatives(i, j)' <=> Alternatives(i, j)
  BY <1>1 DEF Alternatives, IsTerm
<1>5. PICK at : IsGrouping(at)
  BY DEF Grouped
<1>6. IsGrouping(at)'
  BY <1>1, <1>2, <1>3, <1>4, <1>5 DEF IsGrouping
<1>7. needs_fulltext' <=> \E i \in Terms(pos)' : WantsFulltext(tokens[i])'
  BY <1>1, <1>2 DEF Grouped, WantsFulltext
<1>8. join_previous' <=> (pos' > 0 /\ tokens'[pos'].kind = "or")
  <2>1. pos' > 0 /\ tokens'[pos'].kind = kind
    BY <1>1
  <2>2. join_previous' <=> kind = "or"
    OBVIOUS
  <2>3. QED
    BY <2>1, <2>2
<1>9. QED
  BY <1>6, <1>7, <1>8 DEF Grouped

(* The term just read joins the last group exactly if an OR precedes it    *)
(* and the term before has a group.                                        *)
LEMMA PushFacts ==
  ASSUME NEW term \in Term, groups \in Seq(Seq(Term)), \A g \in DOMAIN groups : groups[g] # <<>>
  PROVE  /\ PushTerm(term) \in Seq(Seq(Term))
         /\ \A g \in DOMAIN PushTerm(term) : PushTerm(term)[g] # <<>>
         /\ (join_previous /\ groups # <<>>) =>
                /\ DOMAIN PushTerm(term) = DOMAIN groups
                /\ Len(PushTerm(term)) = Len(groups) /\ Len(groups) \in DOMAIN groups
                /\ \A g \in DOMAIN groups : g # Len(groups) => PushTerm(term)[g] = groups[g]
                /\ PushTerm(term)[Len(groups)] = Append(groups[Len(groups)], term)
         /\ ~(join_previous /\ groups # <<>>) =>
                /\ Len(PushTerm(term)) = Len(groups) + 1
                /\ DOMAIN PushTerm(term) = 1 .. Len(groups) + 1
                /\ \A g \in DOMAIN groups : PushTerm(term)[g] = groups[g]
                /\ PushTerm(term)[Len(groups) + 1] = <<term>>
<1>1. Len(groups) \in Nat /\ DOMAIN groups = 1 .. Len(groups)
  OBVIOUS
<1>2. CASE join_previous /\ groups # <<>>
  <2> DEFINE last == Len(groups)
             longer == Append(groups[last], term)
  <2>1. last \in 1 .. last /\ groups[last] \in Seq(Term)
    BY <1>1, <1>2
  <2>2. longer \in Seq(Term) /\ longer # <<>>
    <3>1. Len(groups[last]) \in Nat
      BY ONLY <2>1
    <3>2. longer \in Seq(Term) /\ Len(longer) = Len(groups[last]) + 1
      BY <2>1
    <3> HIDE DEF longer
    <3>3. Len(longer) # 0
      BY <3>1, <3>2
    <3>4. QED
      BY <3>2, <3>3
  <2>3. PushTerm(term) = [groups EXCEPT ![last] = longer]
    BY <1>2 DEF PushTerm
  <2> HIDE DEF longer
  <2>4. /\ [groups EXCEPT ![last] = longer] \in Seq(Seq(Term))
        /\ Len([groups EXCEPT ![last] = longer]) = last
        /\ DOMAIN [groups EXCEPT ![last] = longer] = DOMAIN groups
        /\ [groups EXCEPT ![last] = longer][last] = longer
        /\ \A g \in DOMAIN groups : g # last => [groups EXCEPT ![last] = longer][g] = groups[g]
    BY <1>1, <2>1, <2>2
  <2>5. \A g \in DOMAIN PushTerm(term) : PushTerm(term)[g] # <<>>
    BY <1>1, <2>2, <2>3, <2>4
  <2>6. QED
    BY <1>1, <1>2, <2>1, <2>3, <2>4, <2>5 DEF longer
<1>3. CASE ~(join_previous /\ groups # <<>>)
  <2> DEFINE alone == <<term>>
  <2>1. alone \in Seq(Term) /\ alone # <<>>
    OBVIOUS
  <2>2. PushTerm(term) = Append(groups, alone)
    BY <1>3 DEF PushTerm
  <2> HIDE DEF alone
  <2>3. /\ Append(groups, alone) \in Seq(Seq(Term))
        /\ Len(Append(groups, alone)) = Len(groups) + 1
        /\ DOMAIN Append(groups, alone) = 1 .. Len(groups) + 1
        /\ Append(groups, alone)[Len(groups) + 1] = alone
        /\ \A g \in DOMAIN groups : Append(groups, alone)[g] = groups[g]
    BY <1>1, <2>1
  <2>4. \A g \in DOMAIN PushTerm(term) : PushTerm(term)[g] # <<>>
    <3>1. \A g \in 1 .. Len(groups) + 1 : g \in DOMAIN groups \/ g = Len(groups) + 1
      BY <1>1
    <3>2. QED
      BY <2>1, <2>2, <2>3, <3>1
  <2>5. QED
    BY <1>3, <2>2, <2>3, <2>4 DEF alone
<1>4. QED
  BY <1>2, <1>3

LEMMA GroupsAfterTerm ==
  ASSUME QueryTypes, Grouped, TermToken
  PROVE  Grouped' /\ groups' \in Seq(Seq(Term)) /\ \A g \in DOMAIN groups' : groups'[g] # <<>>
<1> DEFINE n == pos + 1
           term == tokens[n]
           count == Len(groups)
           joins == join_previous /\ groups # <<>>
           home == IF joins THEN count ELSE count + 1
<1>1. /\ pos' = n /\ pos \in Nat /\ tokens' = tokens /\ tokens[n] \in Token
      /\ tokens[n].kind = "term"
      /\ \A i \in 1 .. n : i \in 1 .. pos \/ i = n
  BY ReadFacts DEF TermToken
<1>2. term \in Term /\ IsTerm(n)
  BY <1>1, TokenKinds DEF IsTerm
<1>3. /\ groups' = PushTerm(term) /\ join_previous' = FALSE
      /\ needs_fulltext' = (needs_fulltext \/ WantsFulltext(term))
  BY DEF TermToken
<1>4. /\ groups \in Seq(Seq(Term)) /\ \A g \in DOMAIN groups : groups[g] # <<>>
      /\ count \in Nat /\ DOMAIN groups = 1 .. count
  BY DEF QueryTypes
<1>5. PICK at : IsGrouping(at)
  BY DEF Grouped
<1>6. Terms(pos)' = Terms(pos) \cup {n}
  <2>1. {i \in 1 .. n : IsTerm(i)} = {i \in 1 .. pos : IsTerm(i)} \cup {n}
    BY <1>1, <1>2
  <2>2. QED
    BY <1>1, <2>1 DEF Terms, IsTerm
<1>7. \A i \in Terms(pos) : i \in 1 .. pos /\ i < n /\ i # n
  BY <1>1 DEF Terms
<1>8. /\ groups' \in Seq(Seq(Term)) /\ \A g \in DOMAIN groups' : groups'[g] # <<>>
      /\ Len(groups') = home /\ DOMAIN groups' = 1 .. home
      /\ home \in 1 .. home /\ \A g \in 1 .. count : g \in 1 .. home
      /\ \A g \in 1 .. home : g \in 1 .. count \/ g = home
  <2>1. /\ groups' \in Seq(Seq(Term)) /\ \A g \in DOMAIN groups' : groups'[g] # <<>>
        /\ joins => Len(groups') = count
        /\ ~joins => Len(groups') = count + 1
        /\ joins => count \in DOMAIN groups
    BY <1>2, <1>3, <1>4, PushFacts
  <2>2. DOMAIN groups' = 1 .. Len(groups')
    BY <2>1
  <2>3. Len(groups') = home
    BY <2>1
  <2>4. home \in 1 .. home /\ \A g \in 1 .. count : g \in 1 .. home
    BY <1>4, <2>1
  <2>5. \A g \in 1 .. home : g \in 1 .. count \/ g = home
    <3>1. \A some, all \in Nat : all = some \/ all = some + 1 =>
              \A g \in 1 .. all : g \in 1 .. some \/ g = all
      OBVIOUS
    <3>2. home = count \/ home = count + 1
      OBVIOUS
    <3> HIDE DEF home, count
    <3>3. QED
      BY <1>4, <3>1, <3>2
  <2>6. QED
    BY <2>1, <2>2, <2>3, <2>4, <2>5
(* What was in a group still is, and the term is at home. *)
<1>9. ASSUME NEW g \in 1 .. count, NEW k \in DOMAIN groups[g]
      PROVE  k \in DOMAIN groups'[g] /\ groups'[g][k] = groups[g][k]
  <2>1. groups[g] \in Seq(Term)
    BY <1>4
  <2>2. CASE joins /\ g = count
    <3>1. groups'[g] = Append(groups[g], term)
      BY <1>2, <1>3, <1>4, <2>2, PushFacts
    <3>2. QED
      BY <1>2, <2>1, <3>1
  <2>3. CASE ~(joins /\ g = count)
    <3>1. groups'[g] = groups[g]
      BY <1>2, <1>3, <1>4, <2>3, PushFacts
    <3>2. QED
      BY <3>1
  <2>4. QED
    BY <2>2, <2>3
<1>10. \E k \in DOMAIN groups'[home] : groups'[home][k] = term
  <2>1. CASE joins
    <3>1. groups[count] \in Seq(Term) /\ groups'[home] = Append(groups[count], term)
      BY <1>2, <1>3, <1>4, <2>1, PushFacts
    <3> DEFINE old == groups[count]
    <3> HIDE DEF old
    <3>2. groups'[home] = Append(old, term) /\ old \in Seq(Term)
      BY <3>1 DEF old
    <3>3. /\ DOMAIN Append(old, term) = 1 .. Len(old) + 1 /\ Append(old, term)[Len(old) + 1] = term
          /\ Len(old) + 1 \in 1 .. Len(old) + 1
      BY <1>2, <3>2
    <3>4. QED
      BY <3>2, <3>3
  <2>2. CASE ~joins
    <3>1. groups'[home] = <<term>>
      BY <1>2, <1>3, <1>4, <2>2, PushFacts
    <3>2. DOMAIN <<term>> = 1 .. 1 /\ <<term>>[1] = term
      OBVIOUS
    <3>3. QED
      BY <3>1, <3>2
  <2>3. QED
    BY <2>1, <2>2
(* And nothing else is new. *)
<1>11. ASSUME NEW g \in 1 .. home, NEW k \in DOMAIN groups'[g]
       PROVE  \/ g = home /\ groups'[g][k] = term
              \/ g \in 1 .. count /\ k \in DOMAIN groups[g] /\ groups'[g][k] = groups[g][k]
  <2>1. CASE joins /\ g = home
    <3>1. groups[count] \in Seq(Term) /\ groups'[g] = Append(groups[count], term)
          /\ count \in 1 .. count
      BY <1>2, <1>3, <1>4, <2>1, PushFacts
    <3> DEFINE old == groups[count]
    <3>2. old \in Seq(Term) /\ groups'[g] = Append(old, term) /\ old = groups[count]
      BY <3>1
    <3> HIDE DEF old
    <3>3. /\ DOMAIN Append(old, term) = 1 .. Len(old) + 1 /\ Append(old, term)[Len(old) + 1] = term
          /\ \A i \in 1 .. Len(old) : i \in DOMAIN old /\ Append(old, term)[i] = old[i]
          /\ Len(old) \in Nat
      BY <1>2, <3>2
    <3>4. k \in 1 .. Len(old) \/ k = Len(old) + 1
      BY <3>2, <3>3
    <3>5. QED
      BY <2>1, <3>1, <3>2, <3>3, <3>4
  <2>2. CASE ~joins /\ g = home
    <3>1. groups'[g] = <<term>>
      BY <1>2, <1>3, <1>4, <2>2, PushFacts
    <3>2. QED
      BY <2>2, <3>1
  <2>3. CASE g # home
    <3>1. g \in 1 .. count /\ groups'[g] = groups[g]
      BY <1>2, <1>3, <1>4, <1>8, <2>3, PushFacts
    <3>2. QED
      BY <3>1
  <2>4. QED
    BY <2>1, <2>2, <2>3
(* The term joins those whose group is the last. *)
<1>12. ASSUME NEW i \in Terms(pos)
       PROVE  /\ at[i] \in 1 .. count
              /\ JoinsUpTo(i, n) <=> at[i] = home
              /\ Alternatives(i, n) <=> at[i] = home
              /\ Alternatives(n, i) <=> at[i] = home
  <2>1. at[i] \in 1 .. count /\ (at[i] = count <=> JoinsUpTo(i, pos))
    BY <1>4, <1>5 DEF IsGrouping
  <2>2. join_previous <=> (pos > 0 /\ tokens[pos].kind = "or")
    BY DEF Grouped
  <2>3. i \in 1 .. pos /\ i + 1 \in Nat /\ n \in i + 1 .. n /\ n - 1 = pos /\ pos > 0
    BY <1>1, <1>7
  <2>4. /\ \A k \in i + 1 .. n : k \in i + 1 .. pos \/ k = n
        /\ \A k \in i + 1 .. pos : k \in i + 1 .. n
    BY <1>1, <2>3
  <2>5. JoinsUpTo(i, n) <=> (JoinsUpTo(i, pos) /\ tokens[pos].kind = "or")
    BY <1>2, <2>3, <2>4 DEF JoinsUpTo
  <2>6. groups # <<>>
    BY <1>4, <2>1
  <2>7. JoinsUpTo(i, n) <=> at[i] = home
    <3>1. CASE joins
      BY <2>1, <2>2, <2>3, <2>5, <3>1
    <3>2. CASE ~joins
      <4>1. ~join_previous /\ home = count + 1 /\ at[i] # home
        BY <1>4, <2>1, <2>6, <3>2
      <4>2. QED
        BY <2>2, <2>3, <2>5, <4>1
    <3>3. QED
      BY <3>1, <3>2
  <2>8. i < n /\ ~(n < i)
    BY <1>1, <2>3
  <2>9. (Alternatives(i, n) <=> JoinsUpTo(i, n)) /\ (Alternatives(n, i) <=> JoinsUpTo(i, n))
    BY <2>8 DEF Alternatives, JoinsUpTo
  <2>10. QED
    BY <2>1, <2>7, <2>9
<1>13. JoinsUpTo(n, n) /\ Alternatives(n, n)
  <2>1. n + 1 .. n = {} /\ ~(n < n)
    BY <1>1
  <2>2. QED
    BY <2>1 DEF JoinsUpTo, Alternatives
<1> HIDE DEF home, joins
<1>new. PICK new : new = [i \in Terms(pos) \cup {n} |-> IF i = n THEN home ELSE at[i]]
  OBVIOUS
<1>14. new[n] = home /\ \A i \in Terms(pos) : new[i] = at[i]
  BY <1>7, <1>new
<1>15. new \in [Terms(pos) \cup {n} -> 1 .. home]
  <2>1. \A i \in Terms(pos) \cup {n} : new[i] \in 1 .. home
    BY <1>8, <1>12, <1>14
  <2>2. QED
    BY <1>new, <2>1
<1>16. /\ \A i : IsTerm(i)' <=> IsTerm(i)
       /\ \A i, j : Alternatives(i, j)' <=> Alternatives(i, j)
       /\ \A i : JoinsUpTo(i, pos)' <=> JoinsUpTo(i, n)
  BY <1>1 DEF IsTerm, Alternatives, JoinsUpTo
<1>17. ASSUME NEW i \in Terms(pos) \cup {n}
       PROVE  \E k \in DOMAIN groups'[new[i]] : groups'[new[i]][k] = tokens[i]
  <2>1. CASE i = n
    BY <1>10, <1>14, <2>1
  <2>2. CASE i \in Terms(pos)
    <3>1. PICK k \in DOMAIN groups[at[i]] : groups[at[i]][k] = tokens[i]
      BY <1>5, <2>2 DEF IsGrouping
    <3>2. QED
      BY <1>9, <1>12, <1>14, <2>2, <3>1
  <2>3. QED
    BY <2>1, <2>2
<1>18. ASSUME NEW g \in 1 .. home, NEW k \in DOMAIN groups'[g]
       PROVE  \E i \in Terms(pos) \cup {n} : new[i] = g /\ tokens[i] = groups'[g][k]
  <2>1. CASE g = home /\ groups'[g][k] = term
    BY <1>14, <2>1
  <2>2. CASE g \in 1 .. count /\ k \in DOMAIN groups[g] /\ groups'[g][k] = groups[g][k]
    <3>1. PICK i \in Terms(pos) : at[i] = g /\ tokens[i] = groups[g][k]
      BY <1>4, <1>5, <2>2 DEF IsGrouping
    <3>2. QED
      BY <1>14, <2>2, <3>1
  <2>3. QED
    BY <1>11, <2>1, <2>2
<1>19. ASSUME NEW i \in Terms(pos) \cup {n}, NEW j \in Terms(pos) \cup {n}
       PROVE  new[i] = new[j] <=> Alternatives(i, j)
  <2>1. CASE i \in Terms(pos) /\ j \in Terms(pos)
    BY <1>5, <1>14, <2>1 DEF IsGrouping
  <2>2. CASE i \in Terms(pos) /\ j = n
    BY <1>12, <1>14, <2>2
  <2>3. CASE i = n /\ j \in Terms(pos)
    BY <1>12, <1>14, <2>3
  <2>4. CASE i = n /\ j = n
    BY <1>13, <2>4
  <2>5. QED
    BY <2>1, <2>2, <2>3, <2>4
<1>20. ASSUME NEW i \in Terms(pos) \cup {n}
       PROVE  new[i] = home <=> JoinsUpTo(i, n)
  BY <1>12, <1>13, <1>14
<1>21. IsGrouping(new)'
  <2>1. new \in [Terms(pos)' -> DOMAIN groups']
    BY <1>6, <1>8, <1>15
  <2>2. \A i \in Terms(pos)' : \E k \in DOMAIN groups'[new[i]] : groups'[new[i]][k] = tokens'[i]
    BY <1>1, <1>6, <1>17
  <2>3. \A g \in DOMAIN groups' : \A k \in DOMAIN groups'[g] :
            \E i \in Terms(pos)' : new[i] = g /\ tokens'[i] = groups'[g][k]
    <3>1. \A g \in 1 .. home : \A k \in DOMAIN groups'[g] :
              \E i \in Terms(pos) \cup {n} : new[i] = g /\ tokens[i] = groups'[g][k]
      BY <1>8, <1>18
    <3>2. tokens' = tokens /\ DOMAIN groups' = 1 .. home /\ Terms(pos)' = Terms(pos) \cup {n}
      BY <1>1, <1>6, <1>8
    <3> HIDE DEF home, n
    <3>3. QED
      BY ONLY <3>1, <3>2
  <2>4. \A i, j \in Terms(pos)' : new[i] = new[j] <=> Alternatives(i, j)'
    BY <1>6, <1>16, <1>19
  <2>5. \A i \in Terms(pos)' : new[i] = Len(groups') <=> JoinsUpTo(i, pos)'
    BY <1>6, <1>8, <1>16, <1>20
  <2>6. QED
    BY <2>1, <2>2, <2>3, <2>4, <2>5 DEF IsGrouping
<1>22. needs_fulltext' <=> \E i \in Terms(pos)' : WantsFulltext(tokens[i])'
  BY <1>1, <1>3, <1>6 DEF Grouped, WantsFulltext, QueryTypes
<1>23. join_previous' <=> (pos' > 0 /\ tokens'[pos'].kind = "or")
  BY <1>1, <1>3
<1>24. QED
  BY <1>8, <1>21, <1>22, <1>23 DEF Grouped

-----------------------------------------------------------------------------
(* A date filter is what its token says: the numbers that stand for days   *)
(* are in the order of the days, and the last day of a month is the last.  *)

Before(y1, m1, d1, y2, m2, d2) == y1 < y2 \/ (y1 = y2 /\ (m1 < m2 \/ (m1 = m2 /\ d1 <= d2)))

InRange(a) == a[1] \in Int /\ a[2] \in 1 .. 12 /\ a[3] \in 1 .. 31

InOrderOfDays(a, b) == Before(a[1], a[2], a[3], b[1], b[2], b[3])

LEMMA DayOrder ==
  ASSUME NEW a, NEW b, InRange(a), InRange(b)
  PROVE  DayNumber(a) <= DayNumber(b) <=> InOrderOfDays(a, b)
<1>1. PICK y1 \in Int, m1 \in 1 .. 12, d1 \in 1 .. 31 : a[1] = y1 /\ a[2] = m1 /\ a[3] = d1
  BY DEF InRange
<1>2. PICK y2 \in Int, m2 \in 1 .. 12, d2 \in 1 .. 31 : b[1] = y2 /\ b[2] = m2 /\ b[3] = d2
  BY DEF InRange
<1>3. QED
  BY <1>1, <1>2 DEF DayNumber, Before, InOrderOfDays

LEMMA UptoIs ==
  ASSUME NEW a \in Seq(Nat), NEW b \in Seq(Nat), Len(a) = Len(b)
  PROVE  /\ Len(a) = 3 => (Upto(a, b) <=> Before(a[1], a[2], a[3], b[1], b[2], b[3]))
         /\ Len(a) = 2 => (Upto(a, b) <=> a[1] < b[1] \/ (a[1] = b[1] /\ a[2] <= b[2]))
         /\ Len(a) = 1 => (Upto(a, b) <=> a[1] <= b[1])
<1>1. /\ DOMAIN a = 1 .. Len(a)
      /\ \A i \in 1 .. Len(a) : a[i] \in Nat /\ b[i] \in Nat
  OBVIOUS
<1>2. 1 .. 1 - 1 = {} /\ 1 .. 2 - 1 = {1} /\ 1 .. 3 - 1 = {1, 2}
  OBVIOUS
<1>3. CASE Len(a) = 3
  <2>1. DOMAIN a = {1, 2, 3}
    BY <1>1, <1>3
  <2>2. Upto(a, b) <=> /\ ~(a[1] > b[1])
                       /\ a[2] > b[2] => a[1] < b[1]
                       /\ a[3] > b[3] => (a[1] < b[1] \/ a[2] < b[2])
    BY <1>2, <2>1 DEF Upto
  <2>3. QED
    BY <1>1, <1>3, <2>2, SMTT(30) DEF Before
<1>4. CASE Len(a) = 2
  <2>1. DOMAIN a = {1, 2}
    BY <1>1, <1>4
  <2>2. Upto(a, b) <=> ~(a[1] > b[1]) /\ (a[2] > b[2] => a[1] < b[1])
    BY <1>2, <2>1 DEF Upto
  <2>3. QED
    BY <1>1, <1>4, <2>2
<1>5. CASE Len(a) = 1
  <2>1. DOMAIN a = {1}
    BY <1>1, <1>5
  <2>2. Upto(a, b) <=> ~(a[1] > b[1])
    BY <1>2, <2>1 DEF Upto
  <2>3. QED
    BY <1>1, <1>5, <2>2
<1>6. QED
  BY <1>3, <1>4, <1>5

(* The parts of a date, and of a date that is a day. *)
LEMMA DateParts ==
  ASSUME NEW date \in Seq(Nat), Len(date) = 3, IsDate(date)
  PROVE  /\ date = <<date[1], date[2], date[3]>>
         /\ date[1] \in Nat /\ date[2] \in 1 .. 12 /\ date[3] \in 1 .. 31
         /\ date[3] <= DaysIn(date[1], date[2])
<1>1. date[1] \in Nat /\ date[2] \in Nat /\ date[3] \in Nat
  <2>1. \A i \in 1 .. Len(date) : date[i] \in Nat
    BY ElementOfSeq
  <2>2. QED
    BY <2>1
<1>2. date = <<date[1], date[2], date[3]>>
  <2> DEFINE same == <<date[1], date[2], date[3]>>
  <2>1. /\ same \in Seq(Nat) /\ Len(same) = 3
        /\ same[1] = date[1] /\ same[2] = date[2] /\ same[3] = date[3]
    BY <1>1
  <2>2. DOMAIN same = 1 .. 3 /\ DOMAIN date = 1 .. 3
    BY <2>1
  <2>3. \A i \in 1 .. 3 : same[i] = date[i]
    <3>1. \A i \in 1 .. 3 : i = 1 \/ i = 2 \/ i = 3
      OBVIOUS
    <3>2. QED
      BY <2>1, <3>1
  <2> HIDE DEF same
  <2>4. same = [i \in 1 .. 3 |-> same[i]] /\ date = [i \in 1 .. 3 |-> date[i]]
    BY <2>1, <2>2
  <2>5. same = date
    BY <2>3, <2>4
  <2>6. QED
    BY <2>5 DEF same
<1>3. /\ DaysIn(date[1], date[2]) \in {28, 29, 30, 31}
      /\ date[2] \in 1 .. 12 /\ date[3] \in 1 .. DaysIn(date[1], date[2])
  <2>1. DaysIn(date[1], date[2]) \in {28, 29, 30, 31}
    BY DEF DaysIn
  <2>2. QED
    BY <2>1 DEF IsDate
<1>4. date[3] \in 1 .. 31 /\ date[3] <= DaysIn(date[1], date[2])
  <2> DEFINE days == DaysIn(date[1], date[2])
             day  == date[3]
  <2> HIDE DEF days, day
  <2>1. days \in {28, 29, 30, 31} /\ day \in 1 .. days
    BY <1>3 DEF days, day
  <2>2. day \in 1 .. 31 /\ day <= days
    BY <2>1
  <2>3. QED
    BY <2>2 DEF days, day
<1>5. QED
  BY <1>1, <1>2, <1>3, <1>4

LEMMA DateHasNumber ==
  ASSUME NEW date \in Seq(Nat), Len(date) = 3, IsDate(date)
  PROVE  DayNumber(date) \in Int
<1>1. PICK y \in Int, m \in Int, d \in Int : date[1] = y /\ date[2] = m /\ date[3] = d
  <2>1. date[1] \in Nat /\ date[2] \in 1 .. 12 /\ date[3] \in 1 .. 31
    BY DateParts
  <2> DEFINE y == date[1]
             m == date[2]
             d == date[3]
  <2> HIDE DEF y, m, d
  <2>2. y \in Int /\ m \in Int /\ d \in Int
    BY <2>1 DEF y, m, d
  <2>3. QED
    BY <2>2 DEF y, m, d
<1>2. QED
  BY <1>1 DEF DayNumber

LEMMA Prefix ==
  ASSUME NEW S, NEW list \in Seq(S), NEW n \in 0 .. Len(list)
  PROVE  /\ SubSeq(list, 1, n) \in Seq(S) /\ Len(SubSeq(list, 1, n)) = n
         /\ \A i \in 1 .. n : SubSeq(list, 1, n)[i] = list[i]
<1>1. n \in Int /\ n >= 0 /\ n <= Len(list) /\ 1 \in Int /\ n - 1 + 1 = n
  OBVIOUS
<1>2. \A i \in 1 .. n : list[i] \in S
  BY <1>1
<1>3. /\ SubSeq(list, 1, n) \in Seq(S)
      /\ Len(SubSeq(list, 1, n)) = IF 1 <= n THEN n - 1 + 1 ELSE 0
      /\ \A i \in 1 .. n - 1 + 1 : SubSeq(list, 1, n)[i] = list[1 + i - 1]
  BY <1>1, <1>2, SubSeqProperties
<1>4. \A i \in 1 .. n : 1 + i - 1 = i
  OBVIOUS
<1>5. QED
  BY <1>1, <1>3, <1>4

LEMMA MessageDate ==
  ASSUME NEW m \in Messages, NEW when \in When
  PROVE  /\ DateOf[m] \in Seq(Nat) /\ Len(DateOf[m]) = 3 /\ IsDate(DateOf[m])
         /\ when \in Seq(Nat) /\ Len(when) \in {1, 2, 3}
         /\ Cut(m, when) \in Seq(Nat) /\ Len(Cut(m, when)) = Len(when)
         /\ \A i \in 1 .. Len(when) : Cut(m, when)[i] = DateOf[m][i]
<1>1. DateOf[m] \in Seq(Nat) /\ Len(DateOf[m]) = 3 /\ IsDate(DateOf[m])
  BY SearchAssumption DEF When
<1>2. when \in Seq(Nat) /\ Len(when) \in 1 .. 3
  BY DEF When
<1>3. Len(when) \in {1, 2, 3}
  BY <1>2
<1> DEFINE date == DateOf[m]
<1> HIDE DEF date
<1>4. /\ SubSeq(date, 1, Len(when)) \in Seq(Nat)
      /\ Len(SubSeq(date, 1, Len(when))) = Len(when)
      /\ \A i \in 1 .. Len(when) : SubSeq(date, 1, Len(when))[i] = date[i]
  <2>1. date \in Seq(Nat) /\ Len(date) = 3
    BY <1>1 DEF date
  <2>2. Len(when) \in 0 .. Len(date)
    BY <1>2, <2>1
  <2>3. QED
    BY <2>1, <2>2, Prefix
<1>5. QED
  BY <1>1, <1>2, <1>3, <1>4 DEF Cut, date

LEMMA FirstDayMeans ==
  ASSUME NEW m \in Messages, NEW when \in When, FirstDay(when) # <<>>
  PROVE  DayNumber(FirstDay(when)[1]) <= DayNumber(DateOf[m]) <=> Upto(when, Cut(m, when))
<1> DEFINE date == DateOf[m]
           y == date[1]
           mo == date[2]
           d == date[3]
           cut == Cut(m, when)
<1>1. /\ when \in Seq(Nat) /\ Len(when) \in {1, 2, 3}
      /\ cut \in Seq(Nat) /\ Len(cut) = Len(when)
      /\ \A i \in 1 .. Len(when) : cut[i] = date[i]
      /\ \A i \in 1 .. Len(when) : when[i] \in Nat
  <2>1. when \in Seq(Nat)
    BY MessageDate
  <2>2. \A i \in 1 .. Len(when) : when[i] \in Nat
    BY <2>1
  <2>3. QED
    BY <2>2, MessageDate
<1>2. date[1] = y /\ date[2] = mo /\ date[3] = d /\ y \in Nat /\ mo \in 1 .. 12 /\ d \in 1 .. 31
  BY MessageDate, DateParts
<1> HIDE DEF date, cut, y, mo, d
<1>3. CASE Len(when) = 3
  <2>1. FirstDay(when)[1] = when /\ IsDate(when)
    BY <1>3 DEF FirstDay, DateOpt
  <2>2. /\ when = <<when[1], when[2], when[3]>>
        /\ when[1] \in Nat /\ when[2] \in 1 .. 12 /\ when[3] \in 1 .. 31
    BY <1>1, <1>3, <2>1, DateParts
  <2>3. DayNumber(when) <= DayNumber(date) <=> Before(when[1], when[2], when[3], y, mo, d)
    <3>1. InRange(when) /\ InRange(date)
      BY <1>2, <2>2 DEF InRange
    <3>2. DayNumber(when) <= DayNumber(date) <=> InOrderOfDays(when, date)
      BY <3>1, DayOrder
    <3>3. QED
      BY <1>2, <2>2, <3>2 DEF InOrderOfDays
  <2>4. cut[1] = y /\ cut[2] = mo /\ cut[3] = d
    BY <1>1, <1>3 DEF y, mo, d
  <2>5. Upto(when, cut) <=> Before(when[1], when[2], when[3], y, mo, d)
    BY <1>1, <1>3, <2>4, UptoIs
  <2>6. QED
    BY <2>1, <2>3, <2>5 DEF date, cut
<1>4. CASE Len(when) = 2
  <2> DEFINE first == <<when[1], when[2], 1>>
  <2>1. FirstDay(when)[1] = first /\ IsDate(first)
    BY <1>4 DEF FirstDay, DateOpt
  <2>2. when[1] \in Nat /\ when[2] \in 1 .. 12
    BY <1>1, <1>4, <2>1 DEF IsDate
  <2>3. DayNumber(first) <= DayNumber(date) <=> Before(when[1], when[2], 1, y, mo, d)
    <3>1. InRange(first) /\ InRange(date)
      BY <1>2, <2>2 DEF InRange
    <3>2. DayNumber(first) <= DayNumber(date) <=> InOrderOfDays(first, date)
      <4> HIDE DEF first
      <4>1. QED
        BY <3>1, DayOrder
    <3>3. QED
      BY <1>2, <2>2, <3>2 DEF InOrderOfDays
  <2>4. cut[1] = y /\ cut[2] = mo
    BY <1>1, <1>4 DEF y, mo
  <2>5. Upto(when, cut) <=> when[1] < y \/ (when[1] = y /\ when[2] <= mo)
    BY <1>1, <1>4, <2>4, UptoIs
  <2>6. Before(when[1], when[2], 1, y, mo, d) <=> when[1] < y \/ (when[1] = y /\ when[2] <= mo)
    BY <1>2, <2>2 DEF Before
  <2>7. QED
    BY <2>1, <2>3, <2>5, <2>6 DEF date, cut
<1>5. CASE Len(when) = 1
  <2> DEFINE first == <<when[1], 1, 1>>
  <2>1. FirstDay(when)[1] = first
    BY <1>5, <1>1 DEF FirstDay, DateOpt
  <2>2. when[1] \in Nat /\ 1 \in 1 .. 12 /\ 1 \in 1 .. 31
    BY <1>1, <1>5
  <2>3. DayNumber(first) <= DayNumber(date) <=> Before(when[1], 1, 1, y, mo, d)
    <3>1. InRange(first) /\ InRange(date)
      BY <1>2, <2>2 DEF InRange
    <3>2. DayNumber(first) <= DayNumber(date) <=> InOrderOfDays(first, date)
      <4> HIDE DEF first
      <4>1. QED
        BY <3>1, DayOrder
    <3>3. QED
      BY <1>2, <2>2, <3>2 DEF InOrderOfDays
  <2>4. cut[1] = y
    BY <1>1, <1>5 DEF y
  <2>5. Upto(when, cut) <=> when[1] <= y
    BY <1>1, <1>5, <2>4, UptoIs
  <2>6. Before(when[1], 1, 1, y, mo, d) <=> when[1] <= y
    BY <1>2, <2>2 DEF Before
  <2>7. QED
    BY <2>1, <2>3, <2>5, <2>6 DEF date, cut
<1>6. QED
  BY <1>1, <1>3, <1>4, <1>5

(* The day before the first of the next month is the last of the month,    *)
(* and the one before the first of January is the last of December.        *)
LEMMA LastDayMeans ==
  ASSUME NEW m \in Messages, NEW when \in When, LastDay(when) # <<>>
  PROVE  DayNumber(DateOf[m]) <= DayNumber(LastDay(when)[1]) <=> Upto(Cut(m, when), when)
<1> DEFINE date == DateOf[m]
           y == date[1]
           mo == date[2]
           d == date[3]
           cut == Cut(m, when)
<1>1. /\ when \in Seq(Nat) /\ Len(when) \in {1, 2, 3}
      /\ cut \in Seq(Nat) /\ Len(cut) = Len(when)
      /\ \A i \in 1 .. Len(when) : cut[i] = date[i]
      /\ \A i \in 1 .. Len(when) : when[i] \in Nat
  <2>1. when \in Seq(Nat)
    BY MessageDate
  <2>2. \A i \in 1 .. Len(when) : when[i] \in Nat
    BY <2>1
  <2>3. QED
    BY <2>2, MessageDate
<1>2. /\ date[1] = y /\ date[2] = mo /\ date[3] = d /\ y \in Nat /\ mo \in 1 .. 12 /\ d \in 1 .. 31
      /\ d <= DaysIn(y, mo)
  BY MessageDate, DateParts
<1> HIDE DEF date, cut, y, mo, d
<1>3. CASE Len(when) = 3
  <2>1. LastDay(when)[1] = when /\ IsDate(when)
    BY <1>3 DEF LastDay, DateOpt
  <2>2. /\ when = <<when[1], when[2], when[3]>>
        /\ when[1] \in Nat /\ when[2] \in 1 .. 12 /\ when[3] \in 1 .. 31
    BY <1>1, <1>3, <2>1, DateParts
  <2>3. DayNumber(date) <= DayNumber(when) <=> Before(y, mo, d, when[1], when[2], when[3])
    <3>1. InRange(date) /\ InRange(when)
      BY <1>2, <2>2 DEF InRange
    <3>2. DayNumber(date) <= DayNumber(when) <=> InOrderOfDays(date, when)
      BY <3>1, DayOrder
    <3>3. QED
      BY <1>2, <2>2, <3>2 DEF InOrderOfDays
  <2>4. cut[1] = y /\ cut[2] = mo /\ cut[3] = d
    BY <1>1, <1>3 DEF y, mo, d
  <2>5. Upto(cut, when) <=> Before(y, mo, d, when[1], when[2], when[3])
    BY <1>1, <1>3, <2>4, UptoIs
  <2>6. QED
    BY <2>1, <2>3, <2>5 DEF date, cut
<1>4. CASE Len(when) = 2
  <2> DEFINE next == IF when[2] = 12 THEN <<when[1] + 1, 1, 1>> ELSE <<when[1], when[2] + 1, 1>>
             last == LastDay(when)[1]
  <2>1. when[1] \in Nat /\ when[2] \in Nat
    BY <1>1, <1>4
  <2>2. /\ IsDate(next)
        /\ last = IF next[2] = 1 THEN <<next[1] - 1, 12, 31>>
                  ELSE <<next[1], next[2] - 1, DaysIn(next[1], next[2] - 1)>>
    BY <1>4 DEF LastDay
  <2>3. cut[1] = y /\ cut[2] = mo
    BY <1>1, <1>4 DEF y, mo
  <2>4. Upto(cut, when) <=> y < when[1] \/ (y = when[1] /\ mo <= when[2])
    BY <1>1, <1>4, <2>3, UptoIs
  <2>5. 12 \in 1 .. 12 /\ 31 \in 1 .. 31
    OBVIOUS
  <2>6. DayNumber(date) <= DayNumber(last) <=> y < when[1] \/ (y = when[1] /\ mo <= when[2])
    <3>1. CASE when[2] = 12
      <4>1. last = <<when[1], 12, 31>>
        BY <2>1, <2>2, <3>1
      <4>2. DayNumber(date) <= DayNumber(last) <=> Before(y, mo, d, when[1], 12, 31)
        <5>1. InRange(date) /\ InRange(last)
          BY <1>2, <2>1, <2>5, <4>1 DEF InRange
        <5>2. DayNumber(date) <= DayNumber(last) <=> InOrderOfDays(date, last)
          <6> HIDE DEF last
          <6>1. QED
            BY <5>1, DayOrder
        <5>3. QED
          BY <1>2, <2>1, <2>5, <4>1, <5>2 DEF InOrderOfDays
      <4>3. QED
        BY <1>2, <2>1, <3>1, <4>2 DEF Before
    <3>2. CASE when[2] = 0
      <4>1. last = <<when[1] - 1, 12, 31>>
        BY <2>1, <2>2, <3>2
      <4>2. DayNumber(date) <= DayNumber(last) <=> Before(y, mo, d, when[1] - 1, 12, 31)
        <5>1. InRange(date) /\ InRange(last)
          BY <1>2, <2>1, <2>5, <4>1 DEF InRange
        <5>2. DayNumber(date) <= DayNumber(last) <=> InOrderOfDays(date, last)
          <6> HIDE DEF last
          <6>1. QED
            BY <5>1, DayOrder
        <5>3. QED
          BY <1>2, <2>1, <2>5, <4>1, <5>2 DEF InOrderOfDays
      <4>3. QED
        BY <1>2, <2>1, <3>2, <4>2 DEF Before
    <3>3. CASE when[2] # 12 /\ when[2] # 0
      <4>1. next = <<when[1], when[2] + 1, 1>> /\ when[2] \in 1 .. 11 /\ when[2] \in 1 .. 12
        <5>1. next = <<when[1], when[2] + 1, 1>>
          BY <3>3
        <5>2. next[2] = when[2] + 1 /\ next[2] \in 1 .. 12
          BY <2>2, <5>1 DEF IsDate
        <5>3. when[2] \in 1 .. 11 /\ when[2] \in 1 .. 12
          <6>1. when[2] \in Nat /\ when[2] + 1 \in 1 .. 12 /\ when[2] # 0
            BY <2>1, <3>3, <5>2
          <6>2. \A k \in Nat : k + 1 \in 1 .. 12 /\ k # 0 => k \in 1 .. 11 /\ k \in 1 .. 12
            OBVIOUS
          <6>3. QED
            BY ONLY <6>1, <6>2
        <5>4. QED
          BY <5>1, <5>3
      <4>2. last = <<when[1], when[2], DaysIn(when[1], when[2])>>
        BY <2>1, <2>2, <3>3, <4>1
      <4>3. DaysIn(when[1], when[2]) \in {28, 29, 30, 31}
        BY DEF DaysIn
      <4>4. DaysIn(when[1], when[2]) \in 1 .. 31
        BY <4>3
      <4>5. DayNumber(date) <= DayNumber(last) <=>
                Before(y, mo, d, when[1], when[2], DaysIn(when[1], when[2]))
        <5>1. InRange(date) /\ InRange(last)
          BY <1>2, <2>1, <4>1, <4>2, <4>4 DEF InRange
        <5>2. DayNumber(date) <= DayNumber(last) <=> InOrderOfDays(date, last)
          <6> HIDE DEF last
          <6>1. QED
            BY <5>1, DayOrder
        <5>3. QED
          BY <1>2, <2>1, <4>1, <4>2, <4>4, <5>2 DEF InOrderOfDays
      <4>6. y = when[1] /\ mo = when[2] => d <= DaysIn(when[1], when[2])
        BY <1>2
      <4>7. QED
        <5> HIDE DEF last, next
        <5>1. QED
          BY <1>2, <2>1, <4>1, <4>5, <4>6 DEF Before
    <3>4. QED
      BY <3>1, <3>2, <3>3
  <2>7. QED
    BY <2>4, <2>6 DEF date, cut
<1>5. CASE Len(when) = 1
  <2> DEFINE last == <<when[1], 12, 31>>
  <2>1. LastDay(when)[1] = last
    BY <1>5, <1>1 DEF LastDay, DateOpt
  <2>2. when[1] \in Nat /\ 12 \in 1 .. 12 /\ 31 \in 1 .. 31
    BY <1>1, <1>5
  <2>3. DayNumber(date) <= DayNumber(last) <=> Before(y, mo, d, when[1], 12, 31)
    <3>1. InRange(date) /\ InRange(last)
      BY <1>2, <2>2 DEF InRange
    <3>2. DayNumber(date) <= DayNumber(last) <=> InOrderOfDays(date, last)
      <4> HIDE DEF last
      <4>1. QED
        BY <3>1, DayOrder
    <3>3. QED
      BY <1>2, <2>2, <3>2 DEF InOrderOfDays
  <2>4. cut[1] = y
    BY <1>1, <1>5 DEF y
  <2>5. Upto(cut, when) <=> y <= when[1]
    BY <1>1, <1>5, <2>4, UptoIs
  <2>6. Before(y, mo, d, when[1], 12, 31) <=> y <= when[1]
    BY <1>2, <2>2 DEF Before
  <2>7. QED
    BY <2>1, <2>3, <2>5, <2>6 DEF date, cut
<1>6. QED
  BY <1>1, <1>3, <1>4, <1>5

LEMMA DateFilterMeans ==
  ASSUME NEW m \in Messages, NEW token \in Token, token.kind = "date", DateFilter(token) # <<>>
  PROVE  MatchesDate(m, DateFilter(token)[1]) <=> DateHolds(m, token)
<1> DEFINE date == DateOf[m]
           cut == Cut(m, token.when)
<1>1. token.when \in When /\ (token.op = "range" => token.to \in When)
  BY TokenKinds
<1>2. /\ date \in Seq(Nat) /\ Len(date) = 3 /\ IsDate(date)
      /\ token.when \in Seq(Nat)
      /\ cut \in Seq(Nat) /\ Len(cut) = Len(token.when)
      /\ \A i \in 1 .. Len(token.when) : cut[i] = date[i]
  BY <1>1, MessageDate
<1>3. DayNumber(date) \in Int
  BY <1>2, DateHasNumber
<1>4. CASE token.op = "range"
  <2>1. /\ FirstDay(token.when) # <<>> /\ LastDay(token.to) # <<>>
        /\ DateFilter(token)[1] = <<"Range", FirstDay(token.when)[1], LastDay(token.to)[1]>>
    BY <1>4, DateFilterIs
  <2> DEFINE first == FirstDay(token.when)[1]
             last == LastDay(token.to)[1]
  <2>2. MatchesDate(m, <<"Range", first, last>>) <=>
            DayNumber(date) >= DayNumber(first) /\ DayNumber(date) <= DayNumber(last)
    BY DEF MatchesDate
  <2>3. DayNumber(first) <= DayNumber(date) <=> Upto(token.when, cut)
    BY <1>1, <2>1, FirstDayMeans
  <2>4. DayNumber(date) <= DayNumber(last) <=> Upto(Cut(m, token.to), token.to)
    BY <1>1, <1>4, <2>1, LastDayMeans
  <2>5. DayNumber(date) >= DayNumber(first) <=> DayNumber(first) <= DayNumber(date)
    OBVIOUS
  <2>6. DateHolds(m, token) <=> Upto(token.when, cut) /\ Upto(Cut(m, token.to), token.to)
    BY <1>4 DEF DateHolds
  <2>7. QED
    BY <2>1, <2>2, <2>3, <2>4, <2>5, <2>6
<1>5. CASE token.op \in {"before", "after"}
  <2> DEFINE when == token.when
  <2>1. /\ Len(when) = 3 /\ IsDate(when)
        /\ token.op = "before" => DateFilter(token)[1] = <<"Before", when>>
        /\ token.op = "after" => DateFilter(token)[1] = <<"After", when>>
    BY <1>5, DateFilterIs
  <2>2. FirstDay(when) = <<when>> /\ FirstDay(when)[1] = when
    BY <2>1 DEF FirstDay, DateOpt
  <2>3. DayNumber(when) <= DayNumber(date) <=> Upto(when, cut)
    BY <1>1, <2>2, FirstDayMeans
  <2>4. cut = date
    <3> HIDE DEF cut, date
    <3>1. cut = [i \in 1 .. 3 |-> cut[i]] /\ date = [i \in 1 .. 3 |-> date[i]]
      BY <1>2, <2>1
    <3>2. QED
      BY <1>2, <2>1, <3>1
  <2>5. DayNumber(when) \in Int
    BY <1>2, <2>1, DateHasNumber
  <2>6. CASE token.op = "before"
    <3>1. MatchesDate(m, <<"Before", when>>) <=> DayNumber(date) < DayNumber(when)
      BY DEF MatchesDate
    <3>2. DayNumber(date) < DayNumber(when) <=> ~(DayNumber(when) <= DayNumber(date))
      BY <1>3, <2>5
    <3>3. DateHolds(m, token) <=> ~Upto(when, date)
      BY <2>6 DEF DateHolds
    <3>4. QED
      BY <2>1, <2>3, <2>4, <2>6, <3>1, <3>2, <3>3
  <2>7. CASE token.op = "after"
    <3>1. MatchesDate(m, <<"After", when>>) <=> DayNumber(date) >= DayNumber(when)
      BY DEF MatchesDate
    <3>2. DayNumber(date) >= DayNumber(when) <=> DayNumber(when) <= DayNumber(date)
      BY <1>3, <2>5
    <3>3. DateHolds(m, token) <=> Upto(when, date)
      BY <2>7 DEF DateHolds
    <3>4. QED
      BY <2>1, <2>3, <2>4, <2>7, <3>1, <3>2, <3>3
  <2>8. QED
    BY <1>5, <2>6, <2>7
<1>6. CASE token.op = "date"
  <2> DEFINE when == token.when
  <2>1. DateHolds(m, token) <=> cut = when
    BY <1>6 DEF DateHolds
  <2>2. CASE Len(when) = 3
    <3>1. DateFilter(token)[1] = <<"Exact", when>>
      BY <1>6, <2>2, DateFilterIs, SMTT(30)
    <3>2. MatchesDate(m, <<"Exact", when>>) <=> date = when
      BY DEF MatchesDate
    <3>3. cut = date
      <4> HIDE DEF cut, date
      <4>1. cut = [i \in 1 .. 3 |-> cut[i]] /\ date = [i \in 1 .. 3 |-> date[i]]
        BY <1>2, <2>2
      <4>2. QED
        BY <1>2, <2>2, <4>1
    <3>4. QED
      BY <2>1, <3>1, <3>2, <3>3
  <2>3. CASE Len(when) = 2
    <3>1. DateFilter(token)[1] = <<"Month", when>>
      BY <1>6, <2>3, DateFilterIs
    <3>2. MatchesDate(m, <<"Month", when>>) <=> <<date[1], date[2]>> = when
      BY DEF MatchesDate
    <3>3. cut = <<date[1], date[2]>>
      <4> HIDE DEF cut, date
      <4>1. cut = [i \in 1 .. 2 |-> cut[i]]
        BY <1>2, <2>3
      <4>2. \A i \in 1 .. 2 : i = 1 \/ i = 2
        OBVIOUS
      <4>3. <<date[1], date[2]>> = [i \in 1 .. 2 |-> <<date[1], date[2]>>[i]]
        OBVIOUS
      <4>4. \A i \in 1 .. 2 : cut[i] = <<date[1], date[2]>>[i]
        BY <1>2, <2>3, <4>2
      <4>5. QED
        BY <4>1, <4>3, <4>4
    <3>4. QED
      BY <2>1, <3>1, <3>2, <3>3
  <2>4. CASE Len(when) = 1
    <3>1. DateFilter(token)[1] = <<"Year", when>>
      BY <1>6, <2>4, DateFilterIs
    <3>2. MatchesDate(m, <<"Year", when>>) <=> <<date[1]>> = when
      BY DEF MatchesDate
    <3>3. cut = <<date[1]>>
      <4> HIDE DEF cut, date
      <4>1. cut = [i \in 1 .. 1 |-> cut[i]]
        BY <1>2, <2>4
      <4>2. <<date[1]>> = [i \in 1 .. 1 |-> <<date[1]>>[i]]
        OBVIOUS
      <4>3. \A i \in 1 .. 1 : cut[i] = <<date[1]>>[i]
        BY <1>2, <2>4
      <4>4. QED
        BY <4>1, <4>2, <4>3
    <3>4. QED
      BY <2>1, <3>1, <3>2, <3>3
  <2>5. Len(when) \in {1, 2, 3}
    BY <1>1, MessageDate
  <2>6. QED
    BY <2>2, <2>3, <2>4, <2>5
<1>7. QED
  BY <1>4, <1>5, <1>6, TokenKinds

(* A size that a u64 cannot hold makes no filter; the product is never     *)
(* less than the number.                                                   *)
LEMMA SizeFilterMeans ==
  ASSUME NEW m \in Messages, NEW token \in Token, token.kind = "size"
  PROVE  /\ SizeFilter(token) # <<>> <=> token.number * token.unit <= MaxBytes
         /\ SizeFilter(token) # <<>> =>
                (MatchesSize(m, SizeFilter(token)[1]) <=> FilterHolds(m, token))
<1>1. token.number \in Nat /\ token.unit \in Nat \ {0} /\ token.greater \in BOOLEAN
  BY TokenKinds
<1>2. token.number <= token.number * token.unit /\ token.number * token.unit \in Nat
  <2>1. \A a \in Nat, b \in Nat \ {0} : a <= a * b /\ a * b \in Nat
    OBVIOUS
  <2>2. QED
    BY <1>1, <2>1
<1>3. MaxBytes \in Nat
  BY SearchAssumption
<1> DEFINE bytes == token.number * token.unit
<1>4. bytes \in Nat /\ token.number <= bytes
  BY <1>2
<1>5. SizeFilter(token) = IF token.number > MaxBytes \/ bytes > MaxBytes THEN <<>>
                          ELSE << [greater |-> token.greater, bytes |-> bytes] >>
  BY DEF SizeFilter
<1>6. FilterHolds(m, token) <=>
          (bytes <= MaxBytes => IF token.greater THEN LengthOf[m] > bytes ELSE LengthOf[m] < bytes)
  BY DEF FilterHolds
<1> HIDE DEF bytes
<1>7. token.number > MaxBytes \/ bytes > MaxBytes <=> ~(bytes <= MaxBytes)
  BY <1>1, <1>3, <1>4
<1>8. SizeFilter(token) # <<>> <=> bytes <= MaxBytes
  BY <1>5, <1>7
<1>9. ASSUME SizeFilter(token) # <<>>
      PROVE  MatchesSize(m, SizeFilter(token)[1]) <=> FilterHolds(m, token)
  <2>1. SizeFilter(token)[1] = [greater |-> token.greater, bytes |-> bytes]
    BY <1>5, <1>9
  <2>2. QED
    BY <1>6, <1>8, <1>9, <2>1 DEF MatchesSize
<1>10. QED
  BY <1>8, <1>9 DEF bytes

-----------------------------------------------------------------------------
(* What the parsed query makes of a message, and what its tokens mean.     *)

FiltersMatch(m) ==
    /\ \A i \in DOMAIN date_filters : MatchesDate(m, date_filters[i])
    /\ \A i \in DOMAIN size_filters : MatchesSize(m, size_filters[i])
    /\ has_attachment # <<>> => (m \in HasAttachments) = has_attachment[1]

LEMMA DateFiltersMean ==
  ASSUME QueryTypes, FiltersKept, pos = Len(tokens), NEW m \in Messages
  PROVE  (\A f \in DOMAIN date_filters : MatchesDate(m, date_filters[f]))
         <=> \A i \in DOMAIN tokens : tokens[i].kind = "date" => FilterHolds(m, tokens[i])
<1>1. DOMAIN tokens = 1 .. pos /\ \A i \in DOMAIN tokens : tokens[i] \in Token
  BY DEF QueryTypes
<1>2. \A i \in DOMAIN tokens :
          MadeDates[i] = IF tokens[i].kind = "date" THEN DateFilter(tokens[i]) ELSE <<>>
  BY DEF MadeDates
<1>3. /\ \A f \in DOMAIN date_filters : \E i \in 1 .. pos : MadeDates[i] = <<date_filters[f]>>
      /\ \A i \in 1 .. pos : MadeDates[i] # <<>> =>
             \E f \in DOMAIN date_filters : MadeDates[i] = <<date_filters[f]>>
  BY DEF FiltersKept, Collects
<1>4. ASSUME NEW i \in DOMAIN tokens, tokens[i].kind = "date", DateFilter(tokens[i]) # <<>>
      PROVE  FilterHolds(m, tokens[i]) <=> MatchesDate(m, DateFilter(tokens[i])[1])
  <2>1. FilterHolds(m, tokens[i]) <=> DateHolds(m, tokens[i])
    BY <1>4 DEF FilterHolds
  <2>2. MatchesDate(m, DateFilter(tokens[i])[1]) <=> DateHolds(m, tokens[i])
    BY <1>1, <1>4, DateFilterMeans
  <2>3. QED
    BY <2>1, <2>2
<1>5. ASSUME \A f \in DOMAIN date_filters : MatchesDate(m, date_filters[f]),
             NEW i \in DOMAIN tokens, tokens[i].kind = "date"
      PROVE  FilterHolds(m, tokens[i])
  <2>1. CASE DateFilter(tokens[i]) = <<>>
    BY <1>5, <2>1 DEF FilterHolds
  <2>2. CASE DateFilter(tokens[i]) # <<>>
    <3>1. MadeDates[i] = DateFilter(tokens[i]) /\ i \in 1 .. pos
      BY <1>1, <1>2, <1>5
    <3>2. PICK f \in DOMAIN date_filters : DateFilter(tokens[i]) = <<date_filters[f]>>
      BY <1>3, <2>2, <3>1
    <3>3. DateFilter(tokens[i])[1] = date_filters[f]
      BY <3>2
    <3>4. QED
      BY <1>4, <1>5, <2>2, <3>3
  <2>3. QED
    BY <2>1, <2>2
<1>6. ASSUME \A i \in DOMAIN tokens : tokens[i].kind = "date" => FilterHolds(m, tokens[i]),
             NEW f \in DOMAIN date_filters
      PROVE  MatchesDate(m, date_filters[f])
  <2>1. PICK i \in DOMAIN tokens : MadeDates[i] = <<date_filters[f]>>
    BY <1>1, <1>3
  <2>2. tokens[i].kind = "date" /\ DateFilter(tokens[i]) = <<date_filters[f]>>
    <3>1. <<date_filters[f]>> # <<>>
      OBVIOUS
    <3>2. MadeDates[i] = IF tokens[i].kind = "date" THEN DateFilter(tokens[i]) ELSE <<>>
      BY <1>2
    <3>3. QED
      BY <2>1, <3>1, <3>2
  <2>3. DateFilter(tokens[i]) # <<>> /\ DateFilter(tokens[i])[1] = date_filters[f]
    BY <2>2
  <2>4. QED
    BY <1>4, <1>6, <2>2, <2>3
<1>7. QED
  BY <1>5, <1>6

LEMMA SizeFiltersMean ==
  ASSUME QueryTypes, FiltersKept, pos = Len(tokens), NEW m \in Messages
  PROVE  (\A f \in DOMAIN size_filters : MatchesSize(m, size_filters[f]))
         <=> \A i \in DOMAIN tokens : tokens[i].kind = "size" => FilterHolds(m, tokens[i])
<1>1. DOMAIN tokens = 1 .. pos /\ \A i \in DOMAIN tokens : tokens[i] \in Token
  BY DEF QueryTypes
<1>2. \A i \in DOMAIN tokens :
          MadeSizes[i] = IF tokens[i].kind = "size" THEN SizeFilter(tokens[i]) ELSE <<>>
  BY DEF MadeSizes
<1>3. /\ \A f \in DOMAIN size_filters : \E i \in 1 .. pos : MadeSizes[i] = <<size_filters[f]>>
      /\ \A i \in 1 .. pos : MadeSizes[i] # <<>> =>
             \E f \in DOMAIN size_filters : MadeSizes[i] = <<size_filters[f]>>
  BY DEF FiltersKept, Collects
<1>4. ASSUME NEW i \in DOMAIN tokens, tokens[i].kind = "size", SizeFilter(tokens[i]) # <<>>
      PROVE  FilterHolds(m, tokens[i]) <=> MatchesSize(m, SizeFilter(tokens[i])[1])
  BY <1>1, <1>4, SizeFilterMeans
<1>5. ASSUME \A f \in DOMAIN size_filters : MatchesSize(m, size_filters[f]),
             NEW i \in DOMAIN tokens, tokens[i].kind = "size"
      PROVE  FilterHolds(m, tokens[i])
  <2>1. CASE SizeFilter(tokens[i]) = <<>>
    <3>1. ~(tokens[i].number * tokens[i].unit <= MaxBytes)
      BY <1>1, <1>5, <2>1, SizeFilterMeans
    <3>2. QED
      BY <1>5, <3>1 DEF FilterHolds
  <2>2. CASE SizeFilter(tokens[i]) # <<>>
    <3>1. MadeSizes[i] = SizeFilter(tokens[i]) /\ i \in 1 .. pos
      BY <1>1, <1>2, <1>5
    <3>2. PICK f \in DOMAIN size_filters : SizeFilter(tokens[i]) = <<size_filters[f]>>
      BY <1>3, <2>2, <3>1
    <3>3. SizeFilter(tokens[i])[1] = size_filters[f]
      BY <3>2
    <3>4. QED
      BY <1>4, <1>5, <2>2, <3>3
  <2>3. QED
    BY <2>1, <2>2
<1>6. ASSUME \A i \in DOMAIN tokens : tokens[i].kind = "size" => FilterHolds(m, tokens[i]),
             NEW f \in DOMAIN size_filters
      PROVE  MatchesSize(m, size_filters[f])
  <2>1. PICK i \in DOMAIN tokens : MadeSizes[i] = <<size_filters[f]>>
    BY <1>1, <1>3
  <2>2. tokens[i].kind = "size" /\ SizeFilter(tokens[i]) = <<size_filters[f]>>
    <3>1. <<size_filters[f]>> # <<>>
      OBVIOUS
    <3>2. MadeSizes[i] = IF tokens[i].kind = "size" THEN SizeFilter(tokens[i]) ELSE <<>>
      BY <1>2
    <3>3. QED
      BY <2>1, <3>1, <3>2
  <2>3. SizeFilter(tokens[i]) # <<>> /\ SizeFilter(tokens[i])[1] = size_filters[f]
    BY <2>2
  <2>4. QED
    BY <1>4, <1>6, <2>2, <2>3
<1>7. QED
  BY <1>5, <1>6

LEMMA AttachmentMeans ==
  ASSUME QueryTypes, AttachmentKept, pos = Len(tokens), NEW m \in Messages
  PROVE  (has_attachment # <<>> => (m \in HasAttachments) = has_attachment[1])
         <=> AttachmentHolds(m)
<1>1. DOMAIN tokens = 1 .. pos /\ pos \in Nat
  BY DEF QueryTypes
<1>2. AttachmentHolds(m) <=>
          \A i \in 1 .. pos :
              Known(i) /\ (\A j \in i + 1 .. pos : ~Known(j))
              => ((m \in HasAttachments) <=> Wants(i))
  <2>1. \A i \in 1 .. pos :
            (\A j \in i + 1 .. Len(tokens) : tokens[j].kind = "has" => tokens[j].value = "other")
            <=> \A j \in i + 1 .. pos : ~Known(j)
    BY DEF Known
  <2>2. QED
    BY <1>1, <2>1 DEF AttachmentHolds, Known, Wants
<1>3. CASE has_attachment = <<>> /\ \A i \in 1 .. pos : ~Known(i)
  BY <1>2, <1>3
<1>4. ASSUME NEW i \in 1 .. pos, Known(i), \A j \in i + 1 .. pos : ~Known(j),
             has_attachment \in {<<TRUE>>, <<FALSE>>}, has_attachment[1] <=> Wants(i)
      PROVE  (has_attachment # <<>> => (m \in HasAttachments) = has_attachment[1])
             <=> AttachmentHolds(m)
  <2>1. has_attachment # <<>> /\ has_attachment[1] \in BOOLEAN
    <3>1. CASE has_attachment = <<TRUE>>
      BY <3>1
    <3>2. CASE has_attachment = <<FALSE>>
      BY <3>2
    <3>3. QED
      BY <1>4, <3>1, <3>2
  <2>2. \A k \in 1 .. pos : Known(k) /\ (\A j \in k + 1 .. pos : ~Known(j)) => k = i
    <3>1. SUFFICES ASSUME NEW k \in 1 .. pos, Known(k), \A j \in k + 1 .. pos : ~Known(j), k # i
                   PROVE  FALSE
      OBVIOUS
    <3>2. k \in i + 1 .. pos \/ i \in k + 1 .. pos
      BY <1>1, <3>1
    <3>3. QED
      BY <1>4, <3>1, <3>2
  <2>3. AttachmentHolds(m) <=> ((m \in HasAttachments) <=> Wants(i))
    BY <1>2, <1>4, <2>2
  <2>4. ((m \in HasAttachments) = has_attachment[1]) <=> ((m \in HasAttachments) <=> has_attachment[1])
    BY <2>1
  <2>5. QED
    BY <1>4, <2>1, <2>3, <2>4
<1>5. QED
  BY <1>3, <1>4 DEF AttachmentKept

LEMMA FiltersMean ==
  ASSUME QueryTypes, FiltersKept, AttachmentKept, pos = Len(tokens), NEW m \in Messages
  PROVE  FiltersMatch(m) <=>
             /\ \A i \in DOMAIN tokens : ~IsTerm(i) => FilterHolds(m, tokens[i])
             /\ AttachmentHolds(m)
<1>1. \A i \in DOMAIN tokens : tokens[i] \in Token
  BY DEF QueryTypes
<1>2. \A i \in DOMAIN tokens :
          ~IsTerm(i) => tokens[i].kind \in {"or", "has"} \/ tokens[i].kind = "date"
                        \/ tokens[i].kind = "size"
  BY <1>1, TokenKinds DEF IsTerm
<1>3. \A i \in DOMAIN tokens : tokens[i].kind \in {"or", "has"} => FilterHolds(m, tokens[i])
  BY DEF FilterHolds
<1>4. \A i \in DOMAIN tokens : tokens[i].kind \in {"date", "size"} => ~IsTerm(i)
  BY DEF IsTerm
<1>5. (\A i \in DOMAIN tokens : ~IsTerm(i) => FilterHolds(m, tokens[i])) <=>
          /\ \A i \in DOMAIN tokens : tokens[i].kind = "date" => FilterHolds(m, tokens[i])
          /\ \A i \in DOMAIN tokens : tokens[i].kind = "size" => FilterHolds(m, tokens[i])
  BY <1>2, <1>3, <1>4
<1>6. QED
  BY <1>5, DateFiltersMean, SizeFiltersMean, AttachmentMeans DEF FiltersMatch

(* The groups are the terms with their alternatives. *)
LEMMA GroupsMean ==
  ASSUME QueryTypes, Grouped, pos = Len(tokens), NEW Good
  PROVE  (\A g \in DOMAIN groups : \E k \in DOMAIN groups[g] : groups[g][k] \in Good)
         <=> \A i \in DOMAIN tokens : IsTerm(i) =>
                 \E j \in DOMAIN tokens : IsTerm(j) /\ Alternatives(i, j) /\ tokens[j] \in Good
<1>1. \A i : i \in Terms(pos) <=> i \in DOMAIN tokens /\ IsTerm(i)
  <2>1. DOMAIN tokens = 1 .. pos
    BY DEF QueryTypes
  <2>2. QED
    BY <2>1 DEF Terms
<1>2. PICK at : IsGrouping(at)
  BY DEF Grouped
<1>3. /\ \A i \in Terms(pos) : at[i] \in DOMAIN groups
      /\ \A i \in Terms(pos) : \E n \in DOMAIN groups[at[i]] : groups[at[i]][n] = tokens[i]
      /\ \A g \in DOMAIN groups : \A n \in DOMAIN groups[g] :
             \E i \in Terms(pos) : at[i] = g /\ tokens[i] = groups[g][n]
      /\ \A i, j \in Terms(pos) : at[i] = at[j] <=> Alternatives(i, j)
  BY <1>2 DEF IsGrouping
<1>4. \A g \in DOMAIN groups : 1 \in DOMAIN groups[g]
  <2>1. \A g \in DOMAIN groups : groups[g] \in Seq(Term) /\ groups[g] # <<>>
    BY DEF QueryTypes
  <2>2. \A group \in Seq(Term) : group # <<>> => 1 \in DOMAIN group
    OBVIOUS
  <2>3. QED
    BY <2>1, <2>2
<1>5. ASSUME \A g \in DOMAIN groups : \E k \in DOMAIN groups[g] : groups[g][k] \in Good,
             NEW i \in Terms(pos)
      PROVE  \E j \in Terms(pos) : Alternatives(i, j) /\ tokens[j] \in Good
  <2>1. PICK k \in DOMAIN groups[at[i]] : groups[at[i]][k] \in Good
    BY <1>3, <1>5
  <2>2. PICK j \in Terms(pos) : at[j] = at[i] /\ tokens[j] = groups[at[i]][k]
    BY <1>3, <2>1
  <2>3. QED
    BY <1>3, <2>1, <2>2
<1>6. ASSUME \A i \in Terms(pos) :
                 \E j \in Terms(pos) : Alternatives(i, j) /\ tokens[j] \in Good,
             NEW g \in DOMAIN groups
      PROVE  \E k \in DOMAIN groups[g] : groups[g][k] \in Good
  <2>1. PICK i \in Terms(pos) : at[i] = g
    BY <1>3, <1>4
  <2>2. PICK j \in Terms(pos) : Alternatives(i, j) /\ tokens[j] \in Good
    BY <1>6
  <2>3. at[j] = g
    BY <1>3, <2>1, <2>2
  <2>4. QED
    BY <1>3, <2>2, <2>3
<1>7. QED
  BY <1>1, <1>5, <1>6

(* Once the query is read. *)
QueryRead ==
    QueryTypes /\ Grouped /\ FiltersKept /\ AttachmentKept /\ pos = Len(tokens)

LEMMA GroupsAreTerms ==
  ASSUME QueryTypes, NEW g \in DOMAIN groups, NEW k \in DOMAIN groups[g]
  PROVE  groups[g][k] \in Term
<1>1. groups[g] \in Seq(Term)
  BY DEF QueryTypes
<1> DEFINE group == groups[g]
<1> HIDE DEF group
<1>2. \A i \in DOMAIN group : group[i] \in Term
  BY <1>1 DEF group
<1>3. QED
  BY <1>2 DEF group

LEMMA MeansInGroups ==
  ASSUME QueryRead, NEW m \in Messages
  PROVE  Means(m) <=>
             /\ FiltersMatch(m)
             /\ \A g \in DOMAIN groups : \E k \in DOMAIN groups[g] : Holds(m, groups[g][k])
<1> DEFINE Good == {term \in Term : Holds(m, term)}
<1>1. \A i \in DOMAIN tokens : IsTerm(i) => tokens[i] \in Term
  <2>1. \A i \in DOMAIN tokens : tokens[i] \in Token
    BY DEF QueryRead, QueryTypes
  <2>2. QED
    BY <2>1, TokenKinds DEF IsTerm
<1>2. \A g \in DOMAIN groups : \A k \in DOMAIN groups[g] :
          groups[g][k] \in Good <=> Holds(m, groups[g][k])
  BY GroupsAreTerms DEF QueryRead
<1>3. \A j \in DOMAIN tokens : IsTerm(j) => (tokens[j] \in Good <=> Holds(m, tokens[j]))
  BY <1>1
<1> HIDE DEF Good
<1>4. (\A g \in DOMAIN groups : \E k \in DOMAIN groups[g] : groups[g][k] \in Good)
      <=> \A i \in DOMAIN tokens : IsTerm(i) =>
              \E j \in DOMAIN tokens : IsTerm(j) /\ Alternatives(i, j) /\ tokens[j] \in Good
  BY GroupsMean DEF QueryRead
<1>5. (\A g \in DOMAIN groups : \E k \in DOMAIN groups[g] : Holds(m, groups[g][k]))
      <=> \A g \in DOMAIN groups : \E k \in DOMAIN groups[g] : groups[g][k] \in Good
  BY <1>2
<1>6. (\A i \in DOMAIN tokens : IsTerm(i) =>
           \E j \in DOMAIN tokens : IsTerm(j) /\ Alternatives(i, j) /\ tokens[j] \in Good)
      <=> \A i \in DOMAIN tokens : IsTerm(i) =>
              \E j \in DOMAIN tokens : IsTerm(j) /\ Alternatives(i, j) /\ Holds(m, tokens[j])
  BY <1>3
<1>7. FiltersMatch(m) <=>
          /\ \A i \in DOMAIN tokens : ~IsTerm(i) => FilterHolds(m, tokens[i])
          /\ AttachmentHolds(m)
  BY FiltersMean DEF QueryRead
<1>8. Means(m) <=>
          /\ \A i \in DOMAIN tokens : IsTerm(i) =>
                 \E j \in DOMAIN tokens : IsTerm(j) /\ Alternatives(i, j) /\ Holds(m, tokens[j])
          /\ \A i \in DOMAIN tokens : ~IsTerm(i) => FilterHolds(m, tokens[i])
          /\ AttachmentHolds(m)
  BY DEF Means
<1>9. QED
  BY <1>4, <1>5, <1>6, <1>7, <1>8

(* Every term of a group was typed, and every term typed is in a group. *)
LEMMA TermsAreTyped ==
  ASSUME QueryRead
  PROVE  /\ \A g \in DOMAIN groups : \A k \in DOMAIN groups[g] :
                \E i \in Terms(pos) : i \in DOMAIN tokens /\ IsTerm(i) /\ tokens[i] = groups[g][k]
         /\ \A i \in DOMAIN tokens : IsTerm(i) =>
                \E g \in DOMAIN groups : \E k \in DOMAIN groups[g] : groups[g][k] = tokens[i]
<1>1. \A i : i \in Terms(pos) <=> i \in DOMAIN tokens /\ IsTerm(i)
  <2>1. DOMAIN tokens = 1 .. pos
    BY DEF QueryRead, QueryTypes
  <2>2. QED
    BY <2>1 DEF Terms
<1>2. PICK at : IsGrouping(at)
  BY DEF QueryRead, Grouped
<1>3. /\ \A i \in Terms(pos) : at[i] \in DOMAIN groups
      /\ \A i \in Terms(pos) : \E n \in DOMAIN groups[at[i]] : groups[at[i]][n] = tokens[i]
      /\ \A g \in DOMAIN groups : \A n \in DOMAIN groups[g] :
             \E i \in Terms(pos) : at[i] = g /\ tokens[i] = groups[g][n]
  BY <1>2 DEF IsGrouping
<1>4. QED
  BY <1>1, <1>3

LEMMA BodiesNeeded ==
  ASSUME QueryRead
  PROVE  ReadsBodies <=> NeedsBodyScan
BY TermsAreTyped DEF ReadsBodies, NeedsBodyScan, NeedsBody

-----------------------------------------------------------------------------
(* What the two passes make of a term. *)

LEMMA Negation ==
  ASSUME NEW negated \in BOOLEAN, NEW P \in BOOLEAN
  PROVE  (negated # P) <=> (negated <=> ~P)
OBVIOUS

LEMMA TermMeans ==
  ASSUME NEW m \in Messages, NEW term \in Term
  PROVE  /\ TermMatchesBody(m, term) <=> Holds(m, term)
         /\ term.field \in MetadataFields => (TermMatchesEntry(m, term) <=> Holds(m, term))
         /\ term.field = "All" /\ ~term.negated => (TermMatchesEntry(m, term) => Holds(m, term))
<1> DEFINE inHeader == \E f \in {"Subject", "From", "To"} : term.needle \in Has[m][f]
           inFile == \E file \in Attachments[m] :
                         term.needle \in IF term.exact THEN file.is ELSE file.has
           inBody == term.needle \in BodyHas[m]
           inField == term.needle \in Has[m][term.field]
<1>1. term.field \in Fields /\ term.negated \in BOOLEAN
  BY DEF Term
<1>2. \A f \in MetadataFields : f # "All" /\ f # "Body" /\ f # "Filename"
  BY DEF MetadataFields
<1>3. (inHeader \/ inBody) \in BOOLEAN /\ inHeader \in BOOLEAN /\ inFile \in BOOLEAN
      /\ inBody \in BOOLEAN /\ inField \in BOOLEAN
  OBVIOUS
<1>4. CASE term.field = "All"
  <2>1. term.needle \notin BodyHas[m] \cup UNION {Has[m][f] : f \in {"Subject", "From", "To"}}
        <=> ~(inHeader \/ inBody)
    OBVIOUS
  <2>2. Holds(m, term) <=> (term.negated <=> ~(inHeader \/ inBody))
    <3> HIDE DEF inHeader, inBody
    <3>1. QED
      BY <1>4, <2>1 DEF Holds
  <2>3. TermMatchesBody(m, term) <=> (term.negated # (inHeader \/ inBody))
    BY <1>4 DEF TermMatchesBody, AllMatchesMetadata
  <2>4. TermMatchesEntry(m, term) <=> (term.negated # inHeader)
    <3>1. TermMatchesEntry(m, term) <=> (term.negated # AllMatchesMetadata(m, term))
      BY <1>2, <1>4 DEF TermMatchesEntry
    <3>2. AllMatchesMetadata(m, term) = inHeader
      BY DEF AllMatchesMetadata
    <3>3. QED
      BY <3>1, <3>2
  <2> HIDE DEF inHeader, inBody
  <2>5. TermMatchesBody(m, term) <=> (term.negated <=> ~(inHeader \/ inBody))
    <3> DEFINE inText == inHeader \/ inBody
    <3>1. (TermMatchesBody(m, term) <=> (term.negated # inText)) /\ inText \in BOOLEAN
      BY <1>3, <2>3
    <3> HIDE DEF inText
    <3>2. TermMatchesBody(m, term) <=> (term.negated <=> ~inText)
      BY <1>1, <3>1, Negation
    <3>3. QED
      BY <3>2 DEF inText
  <2>6. TermMatchesEntry(m, term) <=> (term.negated <=> ~inHeader)
    BY <1>1, <1>3, <2>4, Negation
  <2>7. term.field \notin MetadataFields
    BY <1>2, <1>4
  <2>8. QED
    BY <2>2, <2>5, <2>6, <2>7
<1>5. CASE term.field = "Body"
  <2>1. Holds(m, term) <=> (term.negated <=> ~inBody)
    BY <1>5 DEF Holds
  <2>2. TermMatchesBody(m, term) <=> (term.negated # inBody)
    BY <1>5 DEF TermMatchesBody
  <2> HIDE DEF inBody
  <2>3. TermMatchesBody(m, term) <=> (term.negated <=> ~inBody)
    BY <1>1, <1>3, <2>2, Negation
  <2>4. term.field \notin MetadataFields /\ term.field # "All"
    BY <1>2, <1>5
  <2>5. QED
    BY <2>1, <2>3, <2>4
<1>6. CASE term.field = "Filename"
  <2>1. term.needle \notin UNION {IF term.exact THEN f.is ELSE f.has : f \in Attachments[m]}
        <=> ~inFile
    OBVIOUS
  <2>2. TermMatchesBody(m, term) <=> (term.negated # inFile)
    BY <1>6 DEF TermMatchesBody
  <2> HIDE DEF inFile
  <2>3. Holds(m, term) <=> (term.negated <=> ~inFile)
    BY <1>6, <2>1 DEF Holds
  <2>4. TermMatchesBody(m, term) <=> (term.negated <=> ~inFile)
    BY <1>1, <1>3, <2>2, Negation
  <2>5. term.field \notin MetadataFields /\ term.field # "All"
    BY <1>2, <1>6
  <2>6. QED
    BY <2>3, <2>4, <2>5
<1>7. CASE term.field \in MetadataFields
  <2>1. term.field # "All" /\ term.field # "Body" /\ term.field # "Filename"
    BY <1>2, <1>7
  <2>2. Holds(m, term) <=> (term.negated <=> ~inField)
    BY <2>1 DEF Holds
  <2>3. TermMatchesEntry(m, term) <=> (term.negated # inField)
    BY <1>7, <2>1 DEF TermMatchesEntry
  <2>4. TermMatchesBody(m, term) <=> TermMatchesEntry(m, term)
    BY <2>1 DEF TermMatchesBody
  <2> HIDE DEF inField
  <2>5. TermMatchesEntry(m, term) <=> (term.negated <=> ~inField)
    BY <1>1, <1>3, <2>3, Negation
  <2>6. QED
    BY <2>1, <2>2, <2>4, <2>5
<1>8. QED
  BY <1>1, <1>4, <1>5, <1>6, <1>7 DEF Fields

LEMMA FieldKinds ==
  ASSUME NEW term \in Term
  PROVE  term.field \in MetadataFields \/ term.field \in {"Body", "Filename", "All"}
BY DEF Term, Fields

LEMMA EntryMatchesIs ==
  ASSUME NEW m \in Messages, NEW defer \in BOOLEAN
  PROVE  EntryMatches(m, defer) <=>
             FiltersMatch(m) /\ \A g \in DOMAIN groups : GroupMatches(m, groups[g], defer)
BY DEF EntryMatches, FiltersMatch

(* The metadata pass alone finds the meaning of a query without bodies. *)
LEMMA MetadataFinds ==
  ASSUME QueryRead, ~NeedsBodyScan, NEW m \in Messages
  PROVE  EntryMatches(m, FALSE) <=> Found(m)
<1>1. \A g \in DOMAIN groups : \A k \in DOMAIN groups[g] :
          TermMatchesEntry(m, groups[g][k]) <=> Holds(m, groups[g][k])
  <2>1. \A g \in DOMAIN groups : \A k \in DOMAIN groups[g] :
            groups[g][k] \in Term /\ groups[g][k].field \in MetadataFields
    BY GroupsAreTerms, FieldKinds DEF QueryRead, NeedsBodyScan, NeedsBody
  <2>2. QED
    BY <2>1, TermMeans
<1>2. \A g \in DOMAIN groups :
          GroupMatches(m, groups[g], FALSE) <=>
              \E k \in DOMAIN groups[g] : TermMatchesEntry(m, groups[g][k])
  BY DEF GroupMatches
<1>3. (\A g \in DOMAIN groups : GroupMatches(m, groups[g], FALSE)) <=>
      \A g \in DOMAIN groups : \E k \in DOMAIN groups[g] : Holds(m, groups[g][k])
  BY <1>1, <1>2
<1>4. Found(m) <=> Means(m)
  BY BodiesNeeded DEF Found
<1>5. QED
  BY <1>3, <1>4, EntryMatchesIs, MeansInGroups

(* The groups that the metadata pass defers, the body pass judges, and     *)
(* between them they find the meaning.                                     *)
LEMMA BodyPassFinds ==
  ASSUME QueryRead, NeedsBodyScan, NEW m \in Messages
  PROVE  EntryMatches(m, TRUE) /\ CheckBodyMatch(m) <=> Found(m)
<1>1. ASSUME NEW g \in DOMAIN groups, NEW k \in DOMAIN groups[g]
      PROVE  /\ TermMatchesBody(m, groups[g][k]) <=> Holds(m, groups[g][k])
             /\ ~NeedsBody(groups[g]) =>
                    (TermMatchesEntry(m, groups[g][k]) <=> Holds(m, groups[g][k]))
  <2>1. groups[g][k] \in Term
    BY GroupsAreTerms DEF QueryRead
  <2>2. ~NeedsBody(groups[g]) => groups[g][k].field \in MetadataFields
    BY <2>1, FieldKinds DEF NeedsBody
  <2>3. QED
    BY <2>1, <2>2, TermMeans
<1>2. \A g \in DOMAIN groups :
          GroupMatches(m, groups[g], TRUE) <=>
              \/ NeedsBody(groups[g])
              \/ \E k \in DOMAIN groups[g] : TermMatchesEntry(m, groups[g][k])
  BY DEF GroupMatches
<1>3. CheckBodyMatch(m) <=>
          /\ m \in Readable
          /\ \A g \in DOMAIN groups : NeedsBody(groups[g]) =>
                 \E k \in DOMAIN groups[g] : TermMatchesBody(m, groups[g][k])
  BY DEF CheckBodyMatch
<1>4. (/\ \A g \in DOMAIN groups : GroupMatches(m, groups[g], TRUE)
       /\ \A g \in DOMAIN groups : NeedsBody(groups[g]) =>
              \E k \in DOMAIN groups[g] : TermMatchesBody(m, groups[g][k]))
      <=> \A g \in DOMAIN groups : \E k \in DOMAIN groups[g] : Holds(m, groups[g][k])
  BY <1>1, <1>2
<1>5. Found(m) <=> Means(m) /\ m \in Readable
  BY BodiesNeeded DEF Found
<1>6. QED
  BY <1>3, <1>4, <1>5, EntryMatchesIs, MeansInGroups

(* A query of nothing finds every message. *)
LEMMA EmptyQueryFindsAll ==
  ASSUME QueryRead, IsEmptyQuery, NEW m \in Messages
  PROVE  Found(m) /\ ~NeedsBodyScan
<1>1. DOMAIN groups = {} /\ DOMAIN date_filters = {} /\ DOMAIN size_filters = {}
  BY DEF IsEmptyQuery
<1>2. ~NeedsBodyScan
  BY <1>1 DEF NeedsBodyScan
<1>3. EntryMatches(m, FALSE)
  BY <1>1 DEF EntryMatches, IsEmptyQuery
<1>4. QED
  BY <1>2, <1>3, MetadataFinds

-----------------------------------------------------------------------------
(* The token loop keeps its invariant. *)

ParseInv == QueryTypes /\ Grouped /\ FiltersKept /\ AttachmentKept

LEMMA ParseInvInit == Init => ParseInv
<1> SUFFICES ASSUME Init PROVE ParseInv
  OBVIOUS
<1>1. /\ tokens \in Seq(Token) /\ pos = 0 /\ join_previous = FALSE /\ needs_fulltext = FALSE
      /\ groups = <<>> /\ date_filters = <<>> /\ size_filters = <<>> /\ has_attachment = <<>>
  BY SearchAssumption DEF Init
<1>2. /\ DOMAIN groups = {} /\ DOMAIN date_filters = {} /\ DOMAIN size_filters = {}
      /\ 1 .. pos = {}
  BY <1>1
<1>3. QueryTypes
  <2>1. pos \in 0 .. Len(tokens)
    BY <1>1
  <2>2. /\ groups \in Seq(Seq(Term)) /\ \A g \in DOMAIN groups : groups[g] # <<>>
        /\ date_filters \in Seq(DateFilters) /\ size_filters \in Seq(SizeFilters)
    BY <1>1, <1>2
  <2>3. QED
    BY <1>1, <2>1, <2>2 DEF QueryTypes
<1>4. Terms(pos) = {}
  BY <1>2 DEF Terms
<1>5. Grouped
  <2>1. PICK at : at = [i \in {} |-> 0]
    OBVIOUS
  <2>2. at \in [{} -> {}]
    BY <2>1
  <2>3. IsGrouping(at)
    BY <1>2, <1>4, <2>2 DEF IsGrouping
  <2>4. ~(pos > 0)
    BY <1>1
  <2>5. QED
    BY <1>1, <1>4, <2>3, <2>4 DEF Grouped
<1>6. FiltersKept
  BY <1>2 DEF FiltersKept, Collects
<1>7. AttachmentKept
  BY <1>1, <1>2 DEF AttachmentKept
<1>8. QED
  BY <1>3, <1>5, <1>6, <1>7 DEF ParseInv

LEMMA ParseInvStep ==
  ASSUME ParseInv, [Next]_vars
  PROVE  ParseInv'
<1> USE DEF ParseInv
<1>1. ASSUME NEW kind, ReadToken(kind)
      PROVE  tokens' \in Seq(Token) /\ pos' \in 0 .. Len(tokens')
  <2>1. tokens' = tokens /\ pos' = pos + 1 /\ pos \in Nat /\ pos + 1 \in 1 .. Len(tokens)
    BY <1>1, ReadFacts
  <2>2. tokens \in Seq(Token)
    BY DEF QueryTypes
  <2>3. QED
    BY <2>1, <2>2
<1>2. CASE OrToken
  <2>1. /\ ReadToken("or") /\ join_previous' = TRUE /\ groups' = groups
        /\ date_filters' = date_filters /\ size_filters' = size_filters
        /\ has_attachment' = has_attachment /\ needs_fulltext' = needs_fulltext
    BY <1>2 DEF OrToken, queryVars
  <2>2. join_previous' = ("or" = "or")
    BY <2>1
  <2>3. Grouped'
    BY <2>1, <2>2, GroupsAfterNoTerm
  <2>4. FiltersKept' /\ date_filters' \in Seq(DateFilters) /\ size_filters' \in Seq(SizeFilters)
    BY <2>1, FiltersStep
  <2>5. AttachmentKept' /\ has_attachment' \in {<<>>, <<TRUE>>, <<FALSE>>}
    BY <2>1, AttachmentStep
  <2>6. QueryTypes'
    BY <1>1, <2>1, <2>4, <2>5 DEF QueryTypes
  <2>7. QED
    BY <2>3, <2>4, <2>5, <2>6
<1>3. CASE TermToken
  <2>1. /\ ReadToken("term") /\ join_previous' = FALSE
        /\ date_filters' = date_filters /\ size_filters' = size_filters
        /\ has_attachment' = has_attachment
        /\ needs_fulltext' = (needs_fulltext \/ WantsFulltext(tokens[pos + 1]))
    BY <1>3 DEF TermToken
  <2>2. Grouped' /\ groups' \in Seq(Seq(Term)) /\ \A g \in DOMAIN groups' : groups'[g] # <<>>
    BY <1>3, GroupsAfterTerm
  <2>3. FiltersKept' /\ date_filters' \in Seq(DateFilters) /\ size_filters' \in Seq(SizeFilters)
    BY <2>1, FiltersStep
  <2>4. AttachmentKept' /\ has_attachment' \in {<<>>, <<TRUE>>, <<FALSE>>}
    BY <2>1, AttachmentStep
  <2>5. needs_fulltext' \in BOOLEAN /\ join_previous' \in BOOLEAN
    BY <2>1
  <2>6. QueryTypes'
    BY <1>1, <2>1, <2>2, <2>3, <2>4, <2>5 DEF QueryTypes
  <2>7. QED
    BY <2>2, <2>3, <2>4, <2>6
<1>4. CASE HasToken
  <2>1. /\ ReadToken("has") /\ join_previous' = FALSE /\ groups' = groups
        /\ date_filters' = date_filters /\ size_filters' = size_filters
        /\ needs_fulltext' = needs_fulltext
    BY <1>4 DEF HasToken
  <2>2. join_previous' = ("has" = "or")
    BY <2>1
  <2>3. Grouped'
    BY <2>1, <2>2, GroupsAfterNoTerm
  <2>4. FiltersKept' /\ date_filters' \in Seq(DateFilters) /\ size_filters' \in Seq(SizeFilters)
    BY <2>1, FiltersStep
  <2>5. AttachmentKept' /\ has_attachment' \in {<<>>, <<TRUE>>, <<FALSE>>}
    BY <1>4, <2>1, AttachmentStep
  <2>6. QueryTypes'
    BY <1>1, <2>1, <2>4, <2>5 DEF QueryTypes
  <2>7. QED
    BY <2>3, <2>4, <2>5, <2>6
<1>5. CASE DateToken
  <2>1. /\ ReadToken("date") /\ join_previous' = FALSE /\ groups' = groups
        /\ size_filters' = size_filters
        /\ has_attachment' = has_attachment /\ needs_fulltext' = needs_fulltext
    BY <1>5 DEF DateToken
  <2>2. join_previous' = ("date" = "or")
    BY <2>1
  <2>3. Grouped'
    BY <2>1, <2>2, GroupsAfterNoTerm
  <2>4. FiltersKept' /\ date_filters' \in Seq(DateFilters) /\ size_filters' \in Seq(SizeFilters)
    BY <1>5, <2>1, FiltersStep
  <2>5. AttachmentKept' /\ has_attachment' \in {<<>>, <<TRUE>>, <<FALSE>>}
    BY <2>1, AttachmentStep
  <2>6. QueryTypes'
    BY <1>1, <2>1, <2>4, <2>5 DEF QueryTypes
  <2>7. QED
    BY <2>3, <2>4, <2>5, <2>6
<1>6. CASE SizeToken
  <2>1. /\ ReadToken("size") /\ join_previous' = FALSE /\ groups' = groups
        /\ date_filters' = date_filters
        /\ has_attachment' = has_attachment /\ needs_fulltext' = needs_fulltext
    BY <1>6 DEF SizeToken
  <2>2. join_previous' = ("size" = "or")
    BY <2>1
  <2>3. Grouped'
    BY <2>1, <2>2, GroupsAfterNoTerm
  <2>4. FiltersKept' /\ date_filters' \in Seq(DateFilters) /\ size_filters' \in Seq(SizeFilters)
    BY <1>6, <2>1, FiltersStep
  <2>5. AttachmentKept' /\ has_attachment' \in {<<>>, <<TRUE>>, <<FALSE>>}
    BY <2>1, AttachmentStep
  <2>6. QueryTypes'
    BY <1>1, <2>1, <2>4, <2>5 DEF QueryTypes
  <2>7. QED
    BY <2>3, <2>4, <2>5, <2>6
<1>7. CASE Execute \/ ScanMessage \/ EndScan \/ Cancel \/ UNCHANGED vars
  <2>1. UNCHANGED <<tokens, pos, join_previous, queryVars>>
    BY <1>7 DEF Execute, ScanMessage, EndScan, Cancel, vars
  <2>2. QED
    BY <2>1, NothingIsRead
<1>8. QED
  BY <1>2, <1>3, <1>4, <1>5, <1>6, <1>7 DEF Next

-----------------------------------------------------------------------------
(* The invariant of the two passes. *)

Reached == {candidates[k] : k \in 1 .. scanned}

AllFound == InOrder({m \in Messages : Found(m)})

KeptSoFar == InOrder({m \in Reached : CheckBodyMatch(m)})

ScanInv ==
    /\ pc \in {"parse", "scan", "done"} /\ cancel \in BOOLEAN
    /\ pc = "parse" => ~cancel /\ results = <<>> /\ candidates = <<>> /\ scanned = 0
    /\ pc # "parse" => pos = Len(tokens)
    /\ pc # "parse" /\ ~NeedsBodyScan =>
           /\ pc = "done" /\ ~cancel
           /\ results = AllFound
           /\ candidates = <<>> /\ scanned = 0
    /\ pc # "parse" /\ NeedsBodyScan =>
           /\ candidates = SearchMetadataCandidates /\ scanned \in 0 .. Len(candidates)
           /\ results = KeptSoFar
           /\ pc = "done" => cancel \/ scanned = Len(candidates)

SearchInv == ParseInv /\ ScanInv

(* What is parsed no longer changes. *)
LEMMA TheQueryStays ==
  ASSUME UNCHANGED <<tokens, pos, queryVars>>
  PROVE  /\ NeedsBodyScan' <=> NeedsBodyScan
         /\ SearchMetadataCandidates' = SearchMetadataCandidates
         /\ \A m : CheckBodyMatch(m)' <=> CheckBodyMatch(m)
         /\ AllFound' = AllFound
<1> USE DEF queryVars
<1>1. NeedsBodyScan' <=> NeedsBodyScan
  BY DEF NeedsBodyScan
<1>2. SearchMetadataCandidates' = SearchMetadataCandidates
  <2>1. \A m : EntryMatches(m, TRUE)' <=> EntryMatches(m, TRUE)
    BY DEF EntryMatches
  <2>2. {m \in Messages : EntryMatches(m, TRUE)}' = {m \in Messages : EntryMatches(m, TRUE)}
    BY <2>1
  <2>3. QED
    BY <2>2 DEF SearchMetadataCandidates
<1>3. \A m : CheckBodyMatch(m)' <=> CheckBodyMatch(m)
  BY DEF CheckBodyMatch
<1>4. \A m : Found(m)' <=> Found(m)
  <2>1. \A m : Means(m)' <=> Means(m)
    <3>1. \A i : IsTerm(i)' <=> IsTerm(i)
      BY DEF IsTerm
    <3>2. \A i, j : Alternatives(i, j)' <=> Alternatives(i, j)
      BY DEF Alternatives, IsTerm
    <3>3. \A m : AttachmentHolds(m)' <=> AttachmentHolds(m)
      BY DEF AttachmentHolds
    <3>4. QED
      BY <3>1, <3>2, <3>3 DEF Means
  <2>2. ReadsBodies' <=> ReadsBodies
    BY DEF ReadsBodies, IsTerm
  <2>3. QED
    BY <2>1, <2>2 DEF Found
<1>5. AllFound' = AllFound
  <2>1. {m \in Messages : Found(m)}' = {m \in Messages : Found(m)}
    BY <1>4
  <2>2. QED
    BY <2>1 DEF AllFound
<1>6. QED
  BY <1>1, <1>2, <1>3, <1>5

LEMMA CandidatesAre ==
  /\ SearchMetadataCandidates \in Seq(Messages)
  /\ Range(SearchMetadataCandidates) = {m \in Messages : EntryMatches(m, TRUE)}
  /\ Increases(SearchMetadataCandidates)
<1> DEFINE set == {m \in Messages : EntryMatches(m, TRUE)}
<1>1. set \in SUBSET Messages
  OBVIOUS
<1> HIDE DEF set
<1>2. InOrder(set) \in Seq(Messages) /\ Range(InOrder(set)) = set /\ Increases(InOrder(set))
  BY <1>1, ListedInOrder
<1>3. QED
  BY <1>2 DEF SearchMetadataCandidates, set

LEMMA ExecuteStep ==
  ASSUME SearchInv, Execute
  PROVE  ScanInv'
<1>1. QueryRead /\ pc = "parse" /\ ~cancel /\ cancel \in BOOLEAN /\ results = <<>> /\ candidates = <<>> /\ scanned = 0
  BY DEF SearchInv, ParseInv, ScanInv, Execute, QueryRead
<1>2. /\ tokens' = tokens /\ pos' = pos /\ cancel' = cancel /\ scanned' = scanned
      /\ UNCHANGED <<tokens, pos, queryVars>> /\ pos = Len(tokens)
  BY DEF Execute
<1>3. /\ NeedsBodyScan' <=> NeedsBodyScan
      /\ SearchMetadataCandidates' = SearchMetadataCandidates
      /\ AllFound' = AllFound
  BY <1>2, TheQueryStays
<1>5. ASSUME pc' = "done", candidates' = candidates, ~NeedsBodyScan,
             results' = AllFound
      PROVE  ScanInv'
  BY <1>1, <1>2, <1>3, <1>5 DEF ScanInv
<1>6. CASE IsEmptyQuery /\ results' = AllMessages /\ pc' = "done" /\ UNCHANGED candidates
  <2>1. \A m \in Messages : Found(m)
    BY <1>1, <1>6, EmptyQueryFindsAll
  <2>2. {m \in Messages : Found(m)} = Messages
    BY <2>1
  <2>3. ~NeedsBodyScan
    BY <1>6 DEF IsEmptyQuery, NeedsBodyScan
  <2>4. QED
    BY <1>5, <1>6, <2>2, <2>3, AllInOrder DEF AllFound
<1>7. CASE ~NeedsBodyScan /\ results' = SearchMetadata /\ pc' = "done" /\ UNCHANGED candidates
  <2>1. \A m \in Messages : EntryMatches(m, FALSE) <=> Found(m)
    BY <1>1, <1>7, MetadataFinds
  <2>2. {m \in Messages : EntryMatches(m, FALSE)} = {m \in Messages : Found(m)}
    BY <2>1
  <2>3. QED
    BY <1>5, <1>7, <2>2 DEF SearchMetadata, AllFound
<1>8. CASE NeedsBodyScan /\ candidates' = SearchMetadataCandidates /\ pc' = "scan"
           /\ UNCHANGED results
  <2>1. candidates' = SearchMetadataCandidates' /\ NeedsBodyScan'
    BY <1>3, <1>8
  <2>2. scanned' \in 0 .. Len(candidates')
    BY <1>1, <1>2, <1>8, CandidatesAre
  <2>3. results' = KeptSoFar'
    <3>1. Reached' = {}
      BY <1>1, <1>2 DEF Reached
    <3>2. {m \in Reached : CheckBodyMatch(m)}' = {}
      BY <3>1
    <3>3. QED
      BY <1>1, <1>8, <3>2, NothingInOrder DEF KeptSoFar
  <2>4. QED
    BY <1>1, <1>2, <1>8, <2>1, <2>2, <2>3 DEF ScanInv
<1>9. QED
  BY <1>6, <1>7, <1>8 DEF Execute

LEMMA ScanMessageStep ==
  ASSUME SearchInv, ScanMessage
  PROVE  ScanInv'
<1> DEFINE next == scanned + 1
           top == candidates[next]
<1>1. /\ pc = "scan" /\ ~cancel /\ cancel \in BOOLEAN /\ pos = Len(tokens) /\ NeedsBodyScan
      /\ candidates = SearchMetadataCandidates /\ scanned \in 0 .. Len(candidates)
      /\ results = KeptSoFar /\ scanned < Len(candidates)
  BY DEF SearchInv, ScanInv, ScanMessage
<1>2. /\ scanned' = next /\ pc' = pc /\ cancel' = cancel /\ candidates' = candidates
      /\ UNCHANGED <<tokens, pos, queryVars>> /\ tokens' = tokens /\ pos' = pos
      /\ results' = IF CheckBodyMatch(top) THEN Append(results, top) ELSE results
  BY DEF ScanMessage
<1>3. /\ NeedsBodyScan' <=> NeedsBodyScan
      /\ SearchMetadataCandidates' = SearchMetadataCandidates
      /\ \A m : CheckBodyMatch(m)' <=> CheckBodyMatch(m)
  BY <1>2, TheQueryStays
<1>4. candidates \in Seq(Messages) /\ Increases(candidates)
  BY <1>1, CandidatesAre
<1>5. /\ Len(candidates) \in Nat /\ next \in 1 .. Len(candidates) /\ top \in Messages
      /\ \A k \in 1 .. scanned : k \in 1 .. Len(candidates) /\ candidates[k] \in Messages
                                  /\ candidates[k] < top
  <2>1. /\ Len(candidates) \in Nat /\ next \in 1 .. Len(candidates)
        /\ \A k \in 1 .. scanned : k \in 1 .. Len(candidates) /\ k < next
    BY <1>1, <1>4
  <2>2. \A k \in 1 .. Len(candidates) : candidates[k] \in Messages
    BY <1>4
  <2> HIDE DEF next
  <2>3. \A k \in 1 .. scanned : candidates[k] < top
    BY <1>4, <2>1 DEF Increases
  <2>4. QED
    BY <2>1, <2>2, <2>3
<1>6. Reached' = Reached \cup {top}
  <2>1. \A k \in 1 .. next : k \in 1 .. scanned \/ k = next
    BY <1>1
  <2>2. next \in 1 .. next /\ \A k \in 1 .. scanned : k \in 1 .. next
    BY <1>1
  <2> HIDE DEF next
  <2>3. {candidates[k] : k \in 1 .. next} = {candidates[k] : k \in 1 .. scanned} \cup {top}
    BY <2>1, <2>2
  <2>4. QED
    BY <1>2, <2>3 DEF Reached
<1> DEFINE kept == {m \in Reached : CheckBodyMatch(m)}
<1>7. kept \in SUBSET Messages /\ \A k \in kept : k < top
  BY <1>5 DEF Reached
<1>8. KeptSoFar = InOrder(kept)
  BY DEF KeptSoFar
<1>9. KeptSoFar' = InOrder({m \in Reached \cup {top} : CheckBodyMatch(m)})
  <2>1. {m \in Reached : CheckBodyMatch(m)}' = {m \in Reached \cup {top} : CheckBodyMatch(m)}
    BY <1>3, <1>6
  <2>2. QED
    BY <2>1 DEF KeptSoFar
<1>10. results' = KeptSoFar'
  <2> HIDE DEF top, next
  <2>1. CASE CheckBodyMatch(top)
    <3>1. {m \in Reached \cup {top} : CheckBodyMatch(m)} = kept \cup {top}
      BY <2>1
    <3> HIDE DEF kept
    <3>2. InOrder(kept \cup {top}) = Append(InOrder(kept), top)
      BY <1>5, <1>7, AppendedInOrder
    <3>3. QED
      BY <1>1, <1>2, <1>8, <1>9, <2>1, <3>1, <3>2
  <2>2. CASE ~CheckBodyMatch(top)
    <3>1. {m \in Reached \cup {top} : CheckBodyMatch(m)} = kept
      BY <2>2
    <3> HIDE DEF kept
    <3>2. QED
      BY <1>1, <1>2, <1>8, <1>9, <2>2, <3>1
  <2>3. QED
    BY <2>1, <2>2
<1>11. scanned' \in 0 .. Len(candidates') /\ candidates' = SearchMetadataCandidates'
  BY <1>1, <1>2, <1>3, <1>5
<1>12. QED
  BY <1>1, <1>2, <1>3, <1>10, <1>11 DEF ScanInv

LEMMA OtherScanSteps ==
  ASSUME SearchInv, EndScan \/ Cancel \/ UNCHANGED vars
  PROVE  ScanInv'
<1>1. /\ UNCHANGED <<tokens, pos, queryVars>> /\ tokens' = tokens /\ pos' = pos
      /\ candidates' = candidates /\ scanned' = scanned /\ results' = results
  BY DEF EndScan, Cancel, vars
<1>2. /\ NeedsBodyScan' <=> NeedsBodyScan
      /\ SearchMetadataCandidates' = SearchMetadataCandidates
      /\ AllFound' = AllFound /\ \A m : CheckBodyMatch(m)' <=> CheckBodyMatch(m)
  BY <1>1, TheQueryStays
<1>3. KeptSoFar' = KeptSoFar
  <2>1. Reached' = Reached
    BY <1>1 DEF Reached
  <2>2. {m \in Reached : CheckBodyMatch(m)}' = {m \in Reached : CheckBodyMatch(m)}
    BY <1>2, <2>1
  <2>3. QED
    BY <2>2 DEF KeptSoFar
<1>4. ScanInv
  BY DEF SearchInv
<1>5. CASE EndScan
  <2>1. pc = "scan" /\ pc' = "done" /\ cancel' = cancel /\ (cancel \/ scanned = Len(candidates))
    BY <1>5 DEF EndScan
  <2>2. QED
    BY <1>1, <1>2, <1>3, <1>4, <2>1 DEF ScanInv
<1>6. CASE Cancel
  <2>1. pc = "scan" /\ pc' = pc /\ cancel' = TRUE
    BY <1>6 DEF Cancel
  <2>2. QED
    BY <1>1, <1>2, <1>3, <1>4, <2>1 DEF ScanInv
<1>7. CASE UNCHANGED vars
  <2>1. pc' = pc /\ cancel' = cancel
    BY <1>7 DEF vars
  <2>2. QED
    BY <1>1, <1>2, <1>3, <1>4, <2>1 DEF ScanInv
<1>8. QED
  BY <1>5, <1>6, <1>7

LEMMA Searches == Spec => []SearchInv
<1>1. Init => SearchInv
  <2>1. Init => ScanInv
    BY DEF Init, ScanInv
  <2>2. QED
    BY <2>1, ParseInvInit DEF SearchInv
<1>2. SearchInv /\ [Next]_vars => SearchInv'
  <2>1. SUFFICES ASSUME SearchInv, [Next]_vars
                 PROVE  SearchInv'
    OBVIOUS
  <2>2. ParseInv'
    BY <2>1, ParseInvStep DEF SearchInv
  <2>3. CASE OrToken \/ TermToken \/ HasToken \/ DateToken \/ SizeToken
    <3>1. PICK kind : ReadToken(kind)
      BY <2>3 DEF OrToken, TermToken, HasToken, DateToken, SizeToken
    <3>2. /\ pc = "parse" /\ UNCHANGED <<pc, cancel, candidates, scanned, results>>
      BY <3>1 DEF ReadToken
    <3>3. ScanInv'
      BY <2>1, <3>2 DEF SearchInv, ScanInv
    <3>4. QED
      BY <2>2, <3>3 DEF SearchInv
  <2>4. CASE Execute \/ ScanMessage \/ EndScan \/ Cancel \/ UNCHANGED vars
    <3>1. ScanInv'
      BY <2>1, <2>4, ExecuteStep, ScanMessageStep, OtherScanSteps
    <3>2. QED
      BY <2>2, <3>1 DEF SearchInv
  <2>5. QED
    BY <2>1, <2>3, <2>4 DEF Next
<1>3. QED
  BY <1>1, <1>2, PTL DEF Spec

-----------------------------------------------------------------------------
(* Every variable of a search has its type, whatever the query.  This is   *)
(* about the state of parse_query and of the two passes                    *)
(* (search/query.rs:185-377, search/fulltext.rs:24-71).                    *)
THEOREM TypeCorrect == Spec => []TypeOK
<1>1. SearchInv => TypeOK
  <2>1. SUFFICES ASSUME SearchInv
                 PROVE  TypeOK
    OBVIOUS
  <2>2. \A g \in Range(groups) : g # <<>>
    BY <2>1 DEF SearchInv, ParseInv, QueryTypes, Range
  <2>3. candidates \in Seq(Messages) /\ results \in Seq(Messages) /\ scanned \in 0 .. Len(candidates)
    <3>1. CASE pc = "parse"
      BY <2>1, <3>1 DEF SearchInv, ScanInv
    <3>2. CASE pc # "parse" /\ ~NeedsBodyScan
      <4>1. {m \in Messages : Found(m)} \in SUBSET Messages
        OBVIOUS
      <4>2. AllFound \in Seq(Messages)
        BY <4>1, ListedInOrder DEF AllFound
      <4>3. QED
        BY <2>1, <3>2, <4>2 DEF SearchInv, ScanInv
    <3>3. CASE pc # "parse" /\ NeedsBodyScan
      <4>1. /\ candidates = SearchMetadataCandidates /\ scanned \in 0 .. Len(candidates)
            /\ results = KeptSoFar
        BY <2>1, <3>3 DEF SearchInv, ScanInv
      <4>2. candidates \in Seq(Messages)
        BY <4>1, CandidatesAre
      <4>3. \A k \in 1 .. scanned : candidates[k] \in Messages
        <5>1. \A k \in 1 .. scanned : k \in 1 .. Len(candidates)
          BY <4>1, <4>2
        <5>2. QED
          BY <4>2, <5>1
      <4>4. {m \in Reached : CheckBodyMatch(m)} \in SUBSET Messages
        BY <4>3 DEF Reached
      <4>5. QED
        BY <4>1, <4>2, <4>4, ListedInOrder DEF KeptSoFar
    <3>4. QED
      BY <3>1, <3>2, <3>3
  <2>4. QED
    BY <2>1, <2>2, <2>3 DEF TypeOK, SearchInv, ParseInv, QueryTypes, ScanInv
<1>2. QED
  BY <1>1, Searches, PTL

(* A search ends with the messages its query means, in the order of the    *)
(* index, and a search that is under way or was cancelled has found those  *)
(* that it has read: for every mailbox and every query of any length, with *)
(* any dates, alternatives and negations                                   *)
(* (search/mod.rs:27-62, search/fulltext.rs:24-71).                        *)
THEOREM TheMeaningIsFound == Spec => []FindsTheMeaning
<1>1. SearchInv => FindsTheMeaning
  <2>1. SUFFICES ASSUME SearchInv
                 PROVE  FindsTheMeaning
    OBVIOUS
  <2>2. ASSUME pc # "parse", NeedsBodyScan
        PROVE  /\ QueryRead /\ candidates = SearchMetadataCandidates
               /\ scanned \in 0 .. Len(candidates) /\ results = KeptSoFar
               /\ candidates \in Seq(Messages)
               /\ Reached \in SUBSET {m \in Messages : EntryMatches(m, TRUE)}
    <3>1. /\ QueryRead /\ candidates = SearchMetadataCandidates
          /\ scanned \in 0 .. Len(candidates) /\ results = KeptSoFar
      BY <2>1, <2>2 DEF SearchInv, ParseInv, ScanInv, QueryRead
    <3>2. candidates \in Seq(Messages) /\ Range(candidates) = {m \in Messages : EntryMatches(m, TRUE)}
      BY <3>1, CandidatesAre
    <3>3. \A k \in 1 .. scanned : k \in DOMAIN candidates
      BY <3>1, <3>2
    <3>4. Reached \subseteq Range(candidates)
      BY <3>3 DEF Reached, Range
    <3>5. QED
      BY <3>1, <3>2, <3>4
  <2>3. ASSUME pc # "parse", NeedsBodyScan, NEW m \in Reached
        PROVE  CheckBodyMatch(m) <=> Found(m)
    BY <2>2, <2>3, BodyPassFinds
  <2>4. ASSUME pc = "done", ~cancel
        PROVE  results = InOrder({m \in Messages : Found(m)})
    <3>1. CASE ~NeedsBodyScan
      BY <2>1, <2>4, <3>1 DEF SearchInv, ScanInv, AllFound
    <3>2. CASE NeedsBodyScan
      <4>1. scanned = Len(candidates) /\ candidates \in Seq(Messages)
        BY <2>1, <2>2, <2>4, <3>2 DEF SearchInv, ScanInv
      <4>2. Reached = Range(candidates)
        BY <4>1 DEF Reached, Range
      <4>3. Range(candidates) = {m \in Messages : EntryMatches(m, TRUE)}
        BY <2>2, <2>4, <3>2, CandidatesAre
      <4>4. QueryRead
        BY <2>2, <2>4, <3>2
      <4>5. \A m \in Messages : EntryMatches(m, TRUE) /\ CheckBodyMatch(m) <=> Found(m)
        BY <3>2, <4>4, BodyPassFinds
      <4>6. {m \in Reached : CheckBodyMatch(m)} = {m \in Messages : Found(m)}
        BY <4>2, <4>3, <4>5
      <4>7. QED
        BY <2>2, <2>4, <3>2, <4>6 DEF KeptSoFar
    <3>3. QED
      BY <3>1, <3>2
  <2>5. ASSUME pc = "scan" \/ cancel, NEW m \in Messages
        PROVE  (m \in Range(results)) <=>
                   (Found(m) /\ m \in Range(SubSeq(candidates, 1, scanned)))
    <3>1. pc # "parse" /\ NeedsBodyScan
      BY <2>1, <2>5 DEF SearchInv, ScanInv
    <3>2. Range(results) = {k \in Reached : CheckBodyMatch(k)}
      <4>1. {k \in Reached : CheckBodyMatch(k)} \in SUBSET Messages
        BY <2>2, <3>1
      <4>2. QED
        BY <2>2, <3>1, <4>1, ListedInOrder DEF KeptSoFar
    <3>3. Range(SubSeq(candidates, 1, scanned)) = Reached
      <4> DEFINE first == SubSeq(candidates, 1, scanned)
      <4>1. /\ first \in Seq(Messages) /\ Len(first) = scanned
            /\ \A i \in 1 .. scanned : first[i] = candidates[i]
        BY <2>2, <3>1, Prefix
      <4> HIDE DEF first
      <4>2. DOMAIN first = 1 .. scanned
        BY <4>1
      <4>3. Range(first) = Reached
        BY <4>1, <4>2 DEF Range, Reached
      <4>4. QED
        BY <4>3 DEF first
    <3>4. QED
      BY <2>3, <3>1, <3>2, <3>3
  <2>6. QED
    BY <2>4, <2>5 DEF FindsTheMeaning
<1>2. QED
  BY <1>1, Searches, PTL

(* No pass that reads metadata only meets a body: or filename: term.       *)
(* (search/metadata.rs:93-121, tui/app.rs:985-1001).                       *)
THEOREM BodyTermsReadTheBody == Spec => []BodyTermsNeedTheBody
<1>1. SearchInv => BodyTermsNeedTheBody
  <2>1. SUFFICES ASSUME SearchInv, pc # "parse", ~NeedsBodyScan \/ ~needs_fulltext,
                        NEW g \in DOMAIN groups, NEW i \in DOMAIN groups[g]
                 PROVE  groups[g][i].field \notin {"Body", "Filename"}
    BY DEF BodyTermsNeedTheBody
  <2>2. QueryRead
    BY <2>1 DEF SearchInv, ParseInv, ScanInv, QueryRead
  <2>3. CASE ~NeedsBodyScan
    BY <2>1, <2>3 DEF NeedsBodyScan, NeedsBody
  <2>4. CASE ~needs_fulltext
    <3>1. \A j \in Terms(pos) : ~WantsFulltext(tokens[j])
      BY <2>2, <2>4 DEF QueryRead, Grouped
    <3>2. QED
      BY <2>1, <2>2, <3>1, TermsAreTyped DEF WantsFulltext
  <2>5. QED
    BY <2>1, <2>3, <2>4
<1>2. QED
  BY <1>1, Searches, PTL

(* What the list shows while a query is typed is part of what the query    *)
(* means, unless free text is negated (tui/app.rs:985-1001).               *)
THEOREM TypingIsPartOfTheMeaning == Spec => []TypingShowsNoStrangers
<1>1. SearchInv => TypingShowsNoStrangers
  <2>1. SUFFICES ASSUME SearchInv, pc # "parse", ~needs_fulltext,
                        \A i \in DOMAIN tokens :
                            IsTerm(i) => ~(tokens[i].negated /\ tokens[i].field = "All"),
                        NEW m \in Range(SearchMetadata)
                 PROVE  Means(m)
    BY DEF TypingShowsNoStrangers
  <2>2. QueryRead
    BY <2>1 DEF SearchInv, ParseInv, ScanInv, QueryRead
  <2>3. m \in Messages /\ EntryMatches(m, FALSE)
    <3>1. {k \in Messages : EntryMatches(k, FALSE)} \in SUBSET Messages
      OBVIOUS
    <3>2. QED
      BY <2>1, <3>1, ListedInOrder DEF SearchMetadata
  <2>4. \A j \in Terms(pos) : ~WantsFulltext(tokens[j])
    BY <2>1, <2>2 DEF QueryRead, Grouped
  <2>5. ASSUME NEW g \in DOMAIN groups, NEW k \in DOMAIN groups[g],
               TermMatchesEntry(m, groups[g][k])
        PROVE  Holds(m, groups[g][k])
    <3>1. groups[g][k] \in Term
      BY <2>2, GroupsAreTerms DEF QueryRead
    <3>2. /\ groups[g][k].field \notin {"Body", "Filename"}
          /\ ~(groups[g][k].negated /\ groups[g][k].field = "All")
      BY <2>1, <2>2, <2>4, TermsAreTyped DEF WantsFulltext
    <3>3. QED
      BY <2>3, <2>5, <3>1, <3>2, FieldKinds, TermMeans
  <2>6. FiltersMatch(m) /\ \A g \in DOMAIN groups : GroupMatches(m, groups[g], FALSE)
    BY <2>3, EntryMatchesIs
  <2>7. \A g \in DOMAIN groups : \E k \in DOMAIN groups[g] : Holds(m, groups[g][k])
    BY <2>5, <2>6 DEF GroupMatches
  <2>8. QED
    BY <2>2, <2>3, <2>6, <2>7, MeansInGroups
<1>2. QED
  BY <1>1, Searches, PTL

-----------------------------------------------------------------------------
(* Where the queries come from: the search bar and the filter popup of     *)
(* SearchForm, with the fields of the popup called fields here.            *)
CONSTANTS Typed, LabelLists, SizeOptions, MaxChanges

VARIABLES
    all_labels, draft, show_search_filter, focus, fields, size_selected, filter_has_attachment,
    label_selected, filter_within_results, changes

Form == INSTANCE SearchForm WITH filter <- fields

(* A list of different entries, none of them empty.                        *)
IsHistory(list) ==
    /\ Len(list) \in Nat /\ list = [i \in 1 .. Len(list) |-> list[i]]
    /\ \A i, j \in 1 .. Len(list) : list[i] = list[j] => i = j
    /\ \A i \in 1 .. Len(list) : list[i] # <<>>

(* What stays true in the bar and the popup, of which one is open at most. *)
BarInv ==
    /\ IsHistory(history) /\ Len(history) <= MaxHistory
    /\ ~(search_active /\ show_search_filter)
    /\ history_index # <<>> =>
           /\ search_active /\ history_index[1] \in 1 .. Len(history)
           /\ search_query = history[history_index[1]]

(* What is kept of the history when a query is confirmed again: all its    *)
(* entries but that one, each once.                                        *)
LEMMA OthersFacts ==
  ASSUME IsHistory(history), NEW query
  PROVE  /\ IsHistory(Others(query))
         /\ \A i \in 1 .. Len(Others(query)) : Others(query)[i] # query
<1> DEFINE set == {i \in DOMAIN history : history[i] # query}
           kept == Ascending(set)
           others == [k \in DOMAIN kept |-> history[kept[k]]]
<1>1. DOMAIN history = 1 .. Len(history) /\ Len(history) \in Nat
  BY DEF IsHistory
<1>2. set \in SUBSET (1 .. Len(history)) /\ set \in SUBSET Nat /\ IsFiniteSet(set)
  <2>1. set \in SUBSET (1 .. Len(history)) /\ set \in SUBSET Nat
    BY <1>1
  <2> HIDE DEF set
  <2>2. IsFiniteSet(1 .. Len(history))
    BY <1>1, FS_Interval
  <2>3. QED
    BY <2>1, <2>2, FS_Subset
<1>3. \A i \in set : history[i] # query
  OBVIOUS
<1> HIDE DEF set
<1>4. /\ Cardinality(set) \in Nat /\ kept \in [1 .. Cardinality(set) -> set]
      /\ \A i, j \in 1 .. Cardinality(set) : kept[i] = kept[j] => i = j
  BY <1>2, AscendingListsTheSet
<1> HIDE DEF kept
<1>5. /\ others = [k \in 1 .. Cardinality(set) |-> history[kept[k]]]
      /\ Len(others) = Cardinality(set)
  <2>1. others = [k \in 1 .. Cardinality(set) |-> history[kept[k]]]
    BY <1>4
  <2>2. \A k \in 1 .. Cardinality(set) : history[kept[k]] \in {history[i] : i \in set}
    BY <1>4
  <2>3. QED
    BY <1>4, <2>1, <2>2
<1>6. \A k \in 1 .. Cardinality(set) :
          others[k] = history[kept[k]] /\ kept[k] \in set /\ kept[k] \in 1 .. Len(history)
  BY <1>2, <1>4, <1>5
<1>7. others = Others(query)
  BY DEF Others, kept, set
<1> HIDE DEF others
<1>8. \A i, j \in 1 .. Len(others) : others[i] = others[j] => i = j
  BY <1>4, <1>5, <1>6 DEF IsHistory
<1>9. \A i \in 1 .. Len(others) : others[i] # <<>> /\ others[i] # query
  BY <1>3, <1>5, <1>6 DEF IsHistory
<1>10. others = [i \in 1 .. Len(others) |-> others[i]]
  BY <1>5
<1>11. QED
  BY <1>4, <1>5, <1>7, <1>8, <1>9, <1>10 DEF IsHistory

(* A confirmed query goes to the front of the history, and what is beyond  *)
(* the limit falls off its end.                                            *)
LEMMA PushedFacts ==
  ASSUME IsHistory(history), Len(history) <= MaxHistory, NEW query
  PROVE  IsHistory(Pushed(query)) /\ Len(Pushed(query)) <= MaxHistory
<1>1. CASE query = <<>>
  BY <1>1 DEF Pushed
<1>2. CASE query # <<>>
  <2> DEFINE others == Others(query)
             S == {query} \cup {others[i] : i \in 1 .. Len(others)}
             all == <<query>> \o others
             last == IF Len(all) < MaxHistory THEN Len(all) ELSE MaxHistory
             pushed == SubSeq(all, 1, last)
  <2>1. IsHistory(others) /\ \A i \in 1 .. Len(others) : others[i] # query
    BY OthersFacts
  <2>2. Pushed(query) = pushed
    BY <1>2 DEF Pushed
  <2> HIDE DEF others
  <2>3. others \in Seq(S) /\ <<query>> \in Seq(S) /\ Len(<<query>>) = 1 /\ <<query>>[1] = query
    <3>1. others = [i \in 1 .. Len(others) |-> others[i]] /\ Len(others) \in Nat
      BY <2>1 DEF IsHistory
    <3>2. \A i \in 1 .. Len(others) : others[i] \in S
      OBVIOUS
    <3>3. others \in [1 .. Len(others) -> S]
      BY <3>1, <3>2
    <3>4. QED
      BY <3>1, <3>3
  <2>4. /\ Len(all) = Len(others) + 1 /\ Len(others) \in Nat
        /\ \A i \in 1 .. Len(others) + 1 : all[i] = IF i <= 1 THEN query ELSE others[i - 1]
    <3> HIDE DEF S
    <3>1. QED
      BY <2>1, <2>3, ConcatProperties DEF IsHistory
  <2> HIDE DEF all
  <2>5. /\ \A i \in 1 .. Len(all) : all[i] # <<>>
        /\ \A i, j \in 1 .. Len(all) : all[i] = all[j] => i = j
    <3>1. ASSUME NEW i \in 1 .. Len(all)
          PROVE  \/ i = 1 /\ all[i] = query
                 \/ i - 1 \in 1 .. Len(others) /\ all[i] = others[i - 1] /\ i # 1
      BY <2>4
    <3>2. QED
      BY <1>2, <2>1, <2>4, <3>1 DEF IsHistory
  <2>6. last \in Nat /\ last <= Len(all) /\ last <= MaxHistory
    BY <2>4, HistoryAssumption
  <2> HIDE DEF last
  <2>7. /\ Len(pushed) = last /\ pushed = [i \in 1 .. last |-> pushed[i]]
        /\ \A i \in 1 .. last : pushed[i] = all[i] /\ i \in 1 .. Len(all)
    <3> DEFINE T == {all[i] : i \in 1 .. Len(all)}
    <3>1. \A i \in 1 .. last : i \in 1 .. Len(all) /\ all[i] \in T
      BY <2>4, <2>6
    <3> HIDE DEF T
    <3>2. /\ pushed \in Seq(T)
          /\ Len(pushed) = IF 1 <= last THEN last - 1 + 1 ELSE 0
          /\ \A i \in 1 .. last - 1 + 1 : pushed[i] = all[1 + i - 1]
      BY <2>6, <3>1, SubSeqProperties
    <3> HIDE DEF pushed
    <3>3. Len(pushed) = last
      BY <2>6, <3>2
    <3>4. \A i \in 1 .. last : pushed[i] = all[i]
      BY <2>6, <3>2
    <3>5. QED
      BY <3>1, <3>2, <3>3, <3>4
  <2> HIDE DEF pushed
  <2>8. IsHistory(pushed)
    BY <2>5, <2>6, <2>7 DEF IsHistory
  <2>9. QED
    BY <2>2, <2>6, <2>7, <2>8
<1>3. QED
  BY <1>1, <1>2

(* The instance pushes as this module does. *)
LEMMA FormPushes ==
  ASSUME NEW query
  PROVE  Form!Pushed(query) = Pushed(query)
<1>1. Form!Others(query) = Others(query)
  BY Zenon DEF Form!Others, Others, Form!Ascending, Ascending, Form!Cardinality, Cardinality
<1>2. QED
  BY <1>1 DEF Form!Pushed, Pushed

LEMMA BarInvInit ==
  ASSUME Form!Init
  PROVE  BarInv
<1>1. history = <<>> /\ history_index = <<>> /\ ~search_active
  BY DEF Form!Init
<1>2. Len(history) = 0 /\ 1 .. 0 = {} /\ history = [i \in 1 .. 0 |-> history[i]]
  BY <1>1
<1>3. QED
  BY <1>1, <1>2, HistoryAssumption DEF BarInv, IsHistory

LEMMA BarInvKept ==
  ASSUME BarInv, [Form!Next]_(Form!vars)
  PROVE  BarInv'
<1>0. \A query : IsHistory(Pushed(query)) /\ Len(Pushed(query)) <= MaxHistory
  BY PushedFacts DEF BarInv
<1>1. Len(history) \in Nat
  BY DEF BarInv, IsHistory
<1>2. ASSUME history' = history, history_index' = <<>>,
             ~(search_active' /\ show_search_filter')
      PROVE  BarInv'
  BY <1>2 DEF BarInv, IsHistory
<1>3. ASSUME history' = history, history_index' = history_index, search_query' = search_query,
             search_active' = search_active, search_active => ~show_search_filter'
      PROVE  BarInv'
  BY <1>3 DEF BarInv, IsHistory
<1>4. CASE Form!OpenSearch
  <2>1. /\ history' = history /\ history_index' = history_index
        /\ ~search_active /\ ~show_search_filter /\ show_search_filter' = show_search_filter
    BY <1>4 DEF Form!OpenSearch
  <2>2. history_index = <<>>
    BY <2>1 DEF BarInv
  <2>3. QED
    BY <1>2, <2>1, <2>2
<1>5. CASE Form!Type \/ Form!Erase \/ Form!LeaveSearch
  <2>1. /\ history' = history /\ history_index' = <<>> /\ search_active
        /\ show_search_filter' = show_search_filter
    BY <1>5 DEF Form!Type, Form!Erase, Form!LeaveSearch, Form!BarKey
  <2>2. QED
    BY <1>2, <2>1 DEF BarInv
<1>6. CASE Form!Older
  <2>1. PICK next : /\ next = IF history_index = <<>> THEN 1 ELSE history_index[1] + 1
                    /\ next <= Len(history) /\ history_index' = <<next>>
                    /\ search_query' = history[next]
    BY <1>6 DEF Form!Older
  <2>2. /\ history' = history /\ search_active' = search_active /\ search_active
        /\ show_search_filter' = show_search_filter
    BY <1>6 DEF Form!Older, Form!BarKey
  <2>3. next \in 1 .. Len(history) /\ history_index'[1] = next
    BY <1>1, <2>1 DEF BarInv
  <2>4. QED
    BY <2>1, <2>2, <2>3 DEF BarInv, IsHistory
<1>7. CASE Form!Newer
  <2>1. /\ history' = history /\ search_active' = search_active /\ search_active
        /\ show_search_filter' = show_search_filter /\ history_index # <<>>
    BY <1>7 DEF Form!Newer, Form!BarKey
  <2>2. history_index[1] \in 1 .. Len(history)
    BY <2>1 DEF BarInv
  <2>3. CASE history_index[1] = 1
    <3>1. history_index' = <<>>
      BY <1>7, <2>3 DEF Form!Newer
    <3>2. QED
      BY <1>2, <2>1, <3>1 DEF BarInv
  <2>4. CASE history_index[1] # 1
    <3>1. /\ history_index' = <<history_index[1] - 1>>
          /\ search_query' = history[history_index[1] - 1]
      BY <1>7, <2>4 DEF Form!Newer
    <3>2. history_index'[1] \in 1 .. Len(history) /\ search_query' = history[history_index'[1]]
      BY <1>1, <2>2, <2>4, <3>1
    <3>3. QED
      BY <2>1, <3>2 DEF BarInv, IsHistory
  <2>5. QED
    BY <2>3, <2>4
<1>8. CASE Form!ConfirmSearch
  <2>1. history' = Pushed(search_query) /\ history_index' = <<>> /\ ~search_active'
    BY <1>8, FormPushes DEF Form!ConfirmSearch
  <2>2. QED
    BY <1>0, <2>1 DEF BarInv, IsHistory
<1>9. CASE Form!SubmitFilter
  <2>1. /\ history' = Pushed(Form!BuildQuery) /\ history_index' = history_index
        /\ show_search_filter /\ ~show_search_filter'
    BY <1>9, FormPushes DEF Form!SubmitFilter, Form!PopupKey
  <2>2. history_index' = <<>>
    BY <2>1 DEF BarInv
  <2>3. QED
    BY <1>0, <2>1, <2>2 DEF BarInv, IsHistory
<1>10. CASE Form!OpenFilter
  <2>1. /\ history' = history /\ history_index' = history_index /\ search_query' = search_query
        /\ search_active' = search_active /\ ~search_active
    BY <1>10 DEF Form!OpenFilter, Form!barVars
  <2>2. QED
    BY <1>3, <2>1
<1>11. CASE \/ Form!CloseFilter \/ Form!MoveFocus \/ Form!TypeInField \/ Form!EraseInField
            \/ Form!Toggle \/ Form!TurnSelector
  <2>1. /\ history' = history /\ history_index' = history_index /\ search_query' = search_query
        /\ search_active' = search_active /\ show_search_filter
    BY <1>11 DEF Form!CloseFilter, Form!MoveFocus, Form!TypeInField, Form!EraseInField,
                 Form!Toggle, Form!TurnSelector, Form!PopupKey
  <2>2. ~search_active
    BY <2>1 DEF BarInv
  <2>3. QED
    BY <1>3, <2>1, <2>2
<1>12. CASE UNCHANGED Form!vars
  BY <1>3, <1>12 DEF BarInv, Form!vars, Form!barVars
<1>13. QED
  BY <1>4, <1>5, <1>6, <1>7, <1>8, <1>9, <1>10, <1>11, <1>12 DEF Form!Next

(* While the user browses the history of the search bar, the bar shows the *)
(* entry that its index names, and the entries are different, not empty    *)
(* and no more than the limit, whatever was typed, confirmed, left or      *)
(* submitted before (tui/event.rs:838-878, tui/app.rs:1090-1101).          *)
THEOREM HistoryStaysBrowsable == Form!Spec => []HistoryIsBrowsable
<1>1. Form!Init => BarInv
  BY BarInvInit
<1>2. BarInv /\ [Form!Next]_(Form!vars) => BarInv'
  BY BarInvKept
<1>3. BarInv => HistoryIsBrowsable
  <2>1. SUFFICES ASSUME BarInv PROVE HistoryIsBrowsable
    OBVIOUS
  <2>2. DOMAIN history = 1 .. Len(history)
    BY <2>1 DEF BarInv, IsHistory
  <2>3. QED
    BY <2>1, <2>2 DEF BarInv, IsHistory, HistoryIsBrowsable, Range
<1>4. QED
  BY <1>1, <1>2, <1>3, PTL DEF Form!Spec
=============================================================================
