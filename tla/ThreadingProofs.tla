--------------------------- MODULE ThreadingProofs ---------------------------
(***************************************************************************)
(* Theorems about the linking of messages into conversations, for every    *)
(* mailbox, every set of ids and every MaxChain.                           *)
(***************************************************************************)
EXTENDS Threading, SequenceTheorems, CountingProofs

LEMMA MailboxIsSeq == ASSUME mail \in Mailboxes PROVE mail \in Seq(Mail)
  BY ThreadingAssumption

(* The ids a message names are ids of the mailbox. *)
LEMMA ChainType ==
  ASSUME LinkTypes, NEW i \in DOMAIN mail, NEW id \in Ids
  PROVE  Append(ReferenceChain(mail[i]), id) \in Seq(Ids)
<1>1. mail[i] \in Mail
  BY DEF LinkTypes
<1>2. mail[i].references \in Seq(Names)
  BY <1>1 DEF Mail
<1>3. mail[i].in_reply_to \in Seq(Names)
  <2>1. mail[i].in_reply_to \in {<<>>} \cup {<<n>> : n \in Names}
    BY <1>1 DEF Mail
  <2>2. CASE mail[i].in_reply_to = <<>>
    BY <2>2
  <2>3. ASSUME NEW n \in Names, mail[i].in_reply_to = <<n>>
        PROVE  mail[i].in_reply_to \in Seq(Names)
    <3>1. <<n>> \in Seq(Names)
      OBVIOUS
    <3>2. QED
      BY <2>3, <3>1
  <2>4. QED
    BY <2>1, <2>2, <2>3
<1>4. ReferenceChain(mail[i]) \in Seq(Names)
  BY <1>2, <1>3 DEF ReferenceChain
<1>5. ReferenceChain(mail[i]) \in Seq(Ids)
  BY <1>4 DEF Ids
<1>6. QED
  BY <1>5

(* retain, on a list without repetitions: it removes the child and nothing *)
(* else.                                                                   *)
LEMMA RemoveFirstFacts ==
  ASSUME NEW S, NEW s \in Seq(S), IsInjective(s), NEW e \in Range(s)
  PROVE  /\ RemoveFirst(s, e) \in Seq(S)
         /\ IsInjective(RemoveFirst(s, e))
         /\ Range(RemoveFirst(s, e)) = Range(s) \ {e}
<1>1. PICK i \in 1 .. Len(s) : s[i] = e
  BY DEF Range
<1>2. {k \in 1 .. Len(s) : s[k] = e} = {i}
  BY <1>1 DEF IsInjective
<1>3. Min({i}) = i
  BY <1>1 DEF Min
<1>4. RemoveFirst(s, e) = RemoveAt(s, i)
  BY <1>1, <1>2, <1>3 DEF RemoveFirst, SelectInSeq
<1> DEFINE t == [k \in 1 .. Len(s) - 1 |-> IF k < i THEN s[k] ELSE s[k + 1]]
<1>5. RemoveAt(s, i) = t
  <2> DEFINE before == SubSeq(s, 1, i - 1)
             after == SubSeq(s, i + 1, Len(s))
  <2>1. /\ before \in Seq(S) /\ Len(before) = i - 1
        /\ \A k \in 1 .. i - 1 : before[k] = s[k]
    BY <1>1
  <2>2. /\ after \in Seq(S) /\ Len(after) = Len(s) - i
        /\ \A k \in 1 .. Len(s) - i : after[k] = s[i + k]
    BY <1>1
  <2> HIDE DEF before, after
  <2>3. before \o after \in Seq(S) /\ Len(before \o after) = Len(s) - 1
    <3>1. before \o after \in Seq(S) /\ Len(before \o after) = Len(before) + Len(after)
      BY <2>1, <2>2, ConcatProperties
    <3>2. Len(s) \in Nat /\ i \in Nat
      BY <1>1
    <3>3. QED
      BY <2>1, <2>2, <3>1, <3>2
  <2>4. ASSUME NEW k \in 1 .. Len(s) - 1 PROVE (before \o after)[k] = t[k]
    <3>1. CASE k < i
      <4>1. (before \o after)[k] = before[k]
        BY <1>1, <2>1, <2>2, <3>1
      <4>2. QED
        BY <1>1, <2>1, <3>1, <4>1
    <3>2. CASE k >= i
      <4>1. (before \o after)[k] = after[k - (i - 1)]
        BY <1>1, <2>1, <2>2, <3>2
      <4>2. after[k - (i - 1)] = s[k + 1]
        BY <1>1, <2>2, <3>2
      <4>3. QED
        BY <1>1, <3>2, <4>1, <4>2
    <3>3. k < i \/ k >= i
      <4>1. k \in Nat /\ i \in Nat
        BY <1>1
      <4>2. QED
        BY <4>1
    <3>4. QED
      BY <3>1, <3>2, <3>3, Zenon
  <2>5. t \in Seq(S) /\ Len(t) = Len(s) - 1
    BY <1>1
  <2>6. before \o after = t
    <3> HIDE DEF t
    <3>1. QED
      BY <2>3, <2>4, <2>5, SeqEqual
  <2>7. QED
    BY <2>6 DEF RemoveAt, before, after
<1>6. t \in Seq(S)
  BY <1>1
<1>7. IsInjective(t)
  BY <1>1 DEF IsInjective
<1>8. Range(t) = Range(s) \ {e}
  <2>1. ASSUME NEW x \in Range(t) PROVE x \in Range(s) \ {e}
    BY <1>1, <2>1 DEF Range, IsInjective
  <2>2. ASSUME NEW x \in Range(s), x # e PROVE x \in Range(t)
    <3>1. PICK k \in 1 .. Len(s) : s[k] = x
      BY DEF Range
    <3>2. CASE k < i
      <4>1. k \in 1 .. Len(s) - 1 /\ t[k] = s[k]
        BY <1>1, <3>1, <3>2
      <4>2. QED
        BY <3>1, <4>1 DEF Range
    <3>3. CASE k > i
      <4>1. k - 1 \in 1 .. Len(s) - 1 /\ t[k - 1] = s[k]
        BY <1>1, <3>1, <3>3
      <4>2. QED
        BY <3>1, <4>1 DEF Range
    <3>4. k # i /\ k \in Nat /\ i \in Nat
      BY <1>1, <2>2, <3>1
    <3>5. QED
      BY <3>2, <3>3, <3>4
  <2>3. QED
    BY <2>1, <2>2
<1>9. QED
  BY <1>4, <1>5, <1>6, <1>7, <1>8

(* Every step leaves the mailbox, and with it the ids, as they are. *)
LEMMA IdsStay == ASSUME [Next]_vars PROVE mail' = mail /\ Ids' = Ids
  BY DEF Next, Claim, ClaimAs, Link, Gather, Finish, vars, Ids

LEMMA WindowType ==
  ASSUME LinkTypes, ~ChainLinked
  PROVE  chain[at] \in Ids /\ chain[at + 1] \in Ids
  BY DEF LinkTypes, ChainLinked

LEMMA RangeOfAppend ==
  ASSUME NEW S, NEW s \in Seq(S), NEW e \in S
  PROVE  Range(Append(s, e)) = Range(s) \cup {e}
<1> DEFINE t == Append(s, e)
<1>1. /\ DOMAIN t = 1 .. Len(s) + 1 /\ t[Len(s) + 1] = e
      /\ \A k \in 1 .. Len(s) : t[k] = s[k]
  OBVIOUS
<1>2. Len(s) \in Nat /\ DOMAIN s = 1 .. Len(s)
  OBVIOUS
<1> HIDE DEF t
<1>3. \A x \in Range(t) : x \in Range(s) \cup {e}
  BY <1>1, <1>2 DEF Range
<1>4. Range(s) \subseteq Range(t)
  BY <1>1, <1>2 DEF Range
<1>5. e \in Range(t)
  BY <1>1, <1>2 DEF Range
<1>6. QED
  BY <1>3, <1>4, <1>5 DEF t

(* The link step: what it makes of the two directions of a link, from two  *)
(* facts about the window and the list invariant.                          *)
LEMMA AdoptedFacts ==
  ASSUME LinkTypes, LinksAgree,
         NEW p \in Ids, NEW c \in Ids, p # c,
         parent' = [parent EXCEPT ![c] = <<p>>],
         children' = Adopted(p, c)
  PROVE  /\ children' \in [Ids -> Seq(Ids)]
         /\ \A id \in Ids :
                /\ IsInjective(children'[id])
                /\ \A x \in Ids : x \in Range(children'[id]) <=> parent'[x] = <<id>>
<1>1. ASSUME NEW id \in Ids
      PROVE  /\ children'[id] \in Seq(Ids)
             /\ IsInjective(children'[id])
             /\ \A x \in Ids : x \in Range(children'[id]) <=> parent'[x] = <<id>>
  <2>1. /\ children[id] \in Seq(Ids) /\ IsInjective(children[id])
        /\ \A x \in Ids : x \in Range(children[id]) <=> parent[x] = <<id>>
    BY DEF LinkTypes, LinksAgree
  <2>2. \A x \in Ids : parent'[x] = IF x = c THEN <<p>> ELSE parent[x]
    BY DEF LinkTypes
  <2>3. \A x : <<p>> = <<x>> <=> p = x
    OBVIOUS
  <2>4. CASE id = p /\ c \in Range(children[id])
    <3>1. children'[id] = children[id]
      BY <2>4 DEF Adopted
    <3>2. QED
      BY <2>1, <2>2, <2>4, <3>1
  <2>5. CASE id = p /\ c \notin Range(children[id])
    <3>1. children'[id] = Append(children[id], c)
      BY <2>5 DEF Adopted
    <3>2. Append(children[id], c) \in Seq(Ids) /\ IsInjective(Append(children[id], c))
      BY <2>1, <2>5 DEF IsInjective, Range
    <3>3. Range(Append(children[id], c)) = Range(children[id]) \cup {c}
      BY <2>1, RangeOfAppend
    <3>4. QED
      BY <2>1, <2>2, <2>5, <3>1, <3>2, <3>3
  <2>6. CASE id # p /\ parent[c] = <<id>>
    <3>1. children'[id] = RemoveFirst(children[id], c)
      BY <2>6 DEF Adopted
    <3>2. c \in Range(children[id])
      BY <2>1, <2>6
    <3>3. /\ children'[id] \in Seq(Ids) /\ IsInjective(children'[id])
          /\ Range(children'[id]) = Range(children[id]) \ {c}
      BY <2>1, <3>1, <3>2, RemoveFirstFacts
    <3>4. QED
      BY <2>1, <2>2, <2>3, <2>6, <3>3
  <2>7. CASE id # p /\ parent[c] # <<id>>
    <3>1. children'[id] = children[id]
      BY <2>7 DEF Adopted
    <3>2. QED
      BY <2>1, <2>2, <2>3, <2>7, <3>1
  <2>8. QED
    BY <2>4, <2>5, <2>6, <2>7
<1>2. DOMAIN children' = Ids /\ children' = [id \in Ids |-> children'[id]]
  BY DEF Adopted
<1>3. children' \in [Ids -> Seq(Ids)]
  BY <1>1, <1>2
<1>4. QED
  BY <1>1, <1>3

(* The walk that would_create_cycle makes protects the forest: the ids on  *)
(* it keep their parents, and the moved child is not among them.           *)
LEMMA LinkKeepsForest ==
  ASSUME LinkTypes, Forest,
         NEW p \in Ids, NEW c \in Ids, ~WouldCreateCycle(p, c),
         parent' = [parent EXCEPT ![c] = <<p>>], Ids' = Ids
  PROVE  Forest'
<1>1. PICK walk \in SUBSET Ids :
          /\ p \in walk /\ c \notin walk
          /\ \A id \in walk : parent[id] # <<>> => parent[id][1] \in walk
  BY DEF WouldCreateCycle
<1>2. \A x \in Ids : parent'[x] = IF x = c THEN <<p>> ELSE parent[x]
  BY DEF LinkTypes
<1>3. SUFFICES ASSUME NEW set \in SUBSET Ids, set # {},
                      \A id \in set : parent'[id] # <<>> /\ parent'[id][1] \in set
               PROVE  FALSE
  BY DEF Forest
<1>4. CASE c \notin set
  <2>1. \A id \in set : parent[id] # <<>> /\ parent[id][1] \in set
    BY <1>2, <1>3, <1>4
  <2>2. QED
    BY <1>3, <2>1 DEF Forest
<1>5. CASE c \in set
  <2>1. p \in set
    BY <1>2, <1>3, <1>5
  <2>2. set \cap walk \in (SUBSET Ids) \ {{}}
    BY <1>1, <1>3, <2>1
  <2>3. PICK id \in set \cap walk :
            parent[id] = <<>> \/ parent[id][1] \notin set \cap walk
    BY <2>2 DEF Forest
  <2>4. parent'[id] = parent[id]
    BY <1>1, <1>2, <2>3
  <2>5. parent[id] # <<>> /\ parent[id][1] \in set /\ parent[id][1] \in walk
    BY <1>1, <1>3, <2>3, <2>4
  <2>6. QED
    BY <2>3, <2>5
<1>6. QED
  BY <1>4, <1>5

(* The inductive invariant.  The forest needs the types, and the type of   *)
(* the child lists needs LinksAgree: what retain leaves is known of lists  *)
(* without repetitions only.                                               *)
LinkInv == LinkTypes /\ LinksAgree /\ Forest

LEMMA InitLinkInv == Init => LinkInv
<1>1. SUFFICES ASSUME Init PROVE LinkInv
  OBVIOUS
<1>2. mail \in Seq(Mail)
  BY <1>1, MailboxIsSeq DEF Init
<1>3. LinkTypes
  <2>1. taken \in 0 .. Len(mail) /\ chain \in Seq(Ids) /\ at \in 1 .. Len(chain) + 1
    BY <1>1, <1>2 DEF Init
  <2>2. QED
    BY <1>1, <1>2, <2>1 DEF Init, LinkTypes
<1>4. LinksAgree
  BY <1>1 DEF Init, LinksAgree, IsInjective, Range
<1>5. Forest
  BY <1>1 DEF Init, Forest
<1>6. QED
  BY <1>3, <1>4, <1>5 DEF LinkInv

LEMMA NextLinkInv == LinkInv /\ [Next]_vars => LinkInv'
<1>1. SUFFICES ASSUME LinkInv, [Next]_vars PROVE LinkInv'
  OBVIOUS
<1>2. mail' = mail /\ Ids' = Ids
  BY <1>1, IdsStay
<1>3. CASE Claim
  <2>1. PICK id \in Ids : ClaimAs(taken + 1, id)
    <3>1. taken + 1 \in DOMAIN mail
      BY <1>1, <1>3 DEF Claim, LinkInv, LinkTypes
    <3>2. mail[taken + 1].id # <<>> => mail[taken + 1].id[1] \in Names
      <4>1. mail[taken + 1] \in Mail
        BY <1>1, <3>1 DEF LinkInv, LinkTypes
      <4>2. mail[taken + 1].id \in {<<>>} \cup {<<n>> : n \in Names}
        BY <4>1 DEF Mail
      <4>3. QED
        BY <4>2
    <3> DEFINE m == mail[taken + 1]
               own == IF IsUnclaimed(m) THEN m.id[1] ELSE taken + 1
    <3>3. own \in Ids
      BY <3>1, <3>2 DEF Ids, IsUnclaimed
    <3>4. ClaimAs(taken + 1, own)
      BY <1>3 DEF Claim
    <3>5. QED
      BY <3>3, <3>4
  <2>2. taken + 1 \in DOMAIN mail
    BY <1>1, <1>3 DEF Claim, LinkInv, LinkTypes
  <2>3. chain' \in Seq(Ids) /\ at' \in 1 .. Len(chain') + 1
    <3>1. Append(ReferenceChain(mail[taken + 1]), id) \in Seq(Ids)
      BY <1>1, <2>2, ChainType DEF LinkInv
    <3>2. chain' \in Seq(Ids)
      BY <2>1, <3>1 DEF ClaimAs
    <3>3. QED
      BY <2>1, <3>2 DEF ClaimAs
  <2>4. entry' \in [Ids -> {<<>>} \cup {<<i>> : i \in DOMAIN mail}]
    BY <1>1, <2>1, <2>2 DEF ClaimAs, LinkInv, LinkTypes
  <2>5. taken' \in 0 .. Len(mail) /\ UNCHANGED <<parent, children>>
    BY <1>1, <2>1, <2>2 DEF ClaimAs, LinkInv, LinkTypes
  <2>6. QED
    BY <1>1, <1>2, <2>3, <2>4, <2>5 DEF LinkInv, LinkTypes, LinksAgree, Forest
<1>4. CASE Link
  <2> DEFINE p == chain[at]
             c == chain[at + 1]
  <2>1. p \in Ids /\ c \in Ids
    BY <1>1, <1>4, WindowType DEF Link, LinkInv
  <2>2. /\ at' \in 1 .. Len(chain') + 1 /\ UNCHANGED <<mail, taken, chain, entry>>
    BY <1>1, <1>4 DEF Link, ChainLinked, LinkInv, LinkTypes
  <2>3. CASE Refused(p, c)
    <3>1. UNCHANGED <<parent, children>>
      BY <1>4, <2>3 DEF Link
    <3>2. QED
      BY <1>1, <1>2, <2>2, <3>1 DEF LinkInv, LinkTypes, LinksAgree, Forest
  <2>4. CASE ~Refused(p, c)
    <3>1. /\ parent' = [parent EXCEPT ![c] = <<p>>]
          /\ children' = Adopted(p, c)
          /\ p # c /\ ~WouldCreateCycle(p, c)
      BY <1>4, <2>4 DEF Link, Refused
    <3> HIDE DEF p, c
    <3>2. parent' \in [Ids -> {<<>>} \cup {<<id>> : id \in Ids}]
      BY <1>1, <2>1, <3>1 DEF LinkInv, LinkTypes
    <3>3. /\ children' \in [Ids -> Seq(Ids)]
          /\ \A id \in Ids :
                 /\ IsInjective(children'[id])
                 /\ \A x \in Ids : x \in Range(children'[id]) <=> parent'[x] = <<id>>
      BY <1>1, <2>1, <3>1, AdoptedFacts DEF LinkInv
    <3>4. Forest'
      BY <1>1, <1>2, <2>1, <3>1, LinkKeepsForest DEF LinkInv
    <3>5. LinksAgree'
      BY <1>2, <3>3 DEF LinksAgree
    <3>6. LinkTypes'
      BY <1>1, <1>2, <2>2, <3>2, <3>3 DEF LinkInv, LinkTypes
    <3>7. QED
      BY <3>4, <3>5, <3>6 DEF LinkInv
  <2>5. QED
    BY <2>3, <2>4
<1>5. CASE Gather \/ Finish \/ UNCHANGED vars
  <2>1. UNCHANGED <<mail, taken, chain, at, entry, parent, children>>
    BY <1>5 DEF Gather, Finish, vars, linkVars
  <2>2. QED
    BY <1>1, <1>2, <2>1 DEF LinkInv, LinkTypes, LinksAgree, Forest
<1>6. QED
  BY <1>1, <1>3, <1>4, <1>5 DEF Next

LEMMA AlwaysLinkInv == Spec => []LinkInv
  BY InitLinkInv, NextLinkInv, PTL DEF Spec

(* Whatever ids and references a mailbox holds, linking it never makes a   *)
(* container its own ancestor (tui/threading.rs:244-264).                  *)
THEOREM LinkingStaysAForest == Spec => []Forest
<1>1. LinkInv => Forest
  BY DEF LinkInv
<1>2. QED
  BY <1>1, AlwaysLinkInv, PTL

(* A container is in the child list of its parent exactly once and in no   *)
(* other, however often it is moved (tui/threading.rs:135-152).            *)
THEOREM LinksAlwaysAgree == Spec => []LinksAgree
<1>1. LinkInv => LinksAgree
  BY DEF LinkInv
<1>2. QED
  BY <1>1, AlwaysLinkInv, PTL
-----------------------------------------------------------------------------
(* The containers above one, itself among them: the least set with it that *)
(* has the parents of its members.                                         *)
HasItsParents(set) == \A id \in set : parent[id] # <<>> => parent[id][1] \in set

Above(id) == {x \in Ids : \A set \in SUBSET Ids : id \in set /\ HasItsParents(set) => x \in set}

LEMMA AboveFacts ==
  ASSUME LinkTypes, NEW id \in Ids
  PROVE  /\ id \in Above(id) /\ Above(id) \in SUBSET Ids
         /\ HasItsParents(Above(id))
         /\ \A x \in Above(id) : Above(x) \subseteq Above(id)
         /\ Above(id) = {id} \cup IF parent[id] = <<>> THEN {} ELSE Above(parent[id][1])
<1>1. \A x \in Ids : parent[x] # <<>> => parent[x][1] \in Ids
  BY DEF LinkTypes
<1>2. id \in Above(id) /\ Above(id) \in SUBSET Ids
  BY DEF Above
<1>3. HasItsParents(Above(id))
  BY <1>1 DEF Above, HasItsParents
<1>4. \A x \in Above(id) : Above(x) \subseteq Above(id)
  BY <1>2, <1>3 DEF Above
<1>5. CASE parent[id] = <<>>
  <2>1. {id} \in SUBSET Ids /\ HasItsParents({id})
    BY <1>5 DEF HasItsParents
  <2>2. Above(id) = {id}
    BY <1>2, <2>1 DEF Above
  <2>3. QED
    BY <1>2, <1>3, <1>4, <1>5, <2>2
<1>6. CASE parent[id] # <<>>
  <2> DEFINE up == parent[id][1]
  <2>1. up \in Ids /\ up \in Above(id)
    BY <1>1, <1>2, <1>3, <1>6 DEF HasItsParents
  <2>2. /\ up \in Above(up) /\ Above(up) \in SUBSET Ids /\ HasItsParents(Above(up))
    BY <1>1, <2>1 DEF Above, HasItsParents
  <2>3. {id} \cup Above(up) \in SUBSET Ids /\ HasItsParents({id} \cup Above(up))
    BY <1>6, <2>2 DEF HasItsParents
  <2>4. Above(id) \subseteq {id} \cup Above(up)
    <3> DEFINE set == {id} \cup Above(up)
    <3>1. set \in SUBSET Ids /\ id \in set /\ HasItsParents(set)
      BY <2>3
    <3> HIDE DEF set
    <3>2. Above(id) \subseteq set
      BY <3>1 DEF Above
    <3>3. QED
      BY <3>2 DEF set
  <2>5. Above(up) \subseteq Above(id)
    BY <1>4, <2>1
  <2>6. QED
    BY <1>2, <1>3, <1>4, <1>6, <2>4, <2>5
<1>7. QED
  BY <1>5, <1>6

(* In a forest the recursion of Ancestors is one, and gives this set.      *)
LEMMA AncestorsAreAbove ==
  ASSUME LinkTypes, Forest, NEW start \in Ids
  PROVE  Ancestors(start) = Above(start)
<1> DEFINE Body(f) == [id \in Ids |->
                          {id} \cup IF parent[id] = <<>> THEN {} ELSE f[parent[id][1]]]
           up == CHOOSE f : f = Body(f)
           above == [id \in Ids |-> Above(id)]
<1>1. Ancestors(start) = up[start]
  BY DEF Ancestors
<1>2. \A id \in Ids : parent[id] # <<>> => parent[id][1] \in Ids
  BY DEF LinkTypes
<1>3. above = Body(above)
  <2>1. \A id \in Ids : Above(id) = {id} \cup IF parent[id] = <<>> THEN {}
                                             ELSE above[parent[id][1]]
    BY <1>2, AboveFacts
  <2>2. QED
    BY <2>1
<1>4. up = Body(up)
  <2> HIDE DEF Body, above
  <2>1. QED
    BY <1>3
<1> HIDE DEF up
<1>5. \A id \in Ids : up[id] = {id} \cup IF parent[id] = <<>> THEN {} ELSE up[parent[id][1]]
  <2>1. \A id \in Ids : up[id] = Body(up)[id]
    BY <1>4
  <2>2. QED
    BY <2>1
<1> DEFINE wrong == {id \in Ids : up[id] # Above(id)}
<1>6. SUFFICES ASSUME wrong # {}
               PROVE  FALSE
  BY <1>1
<1>7. wrong \in (SUBSET Ids) \ {{}}
  BY <1>6
<1> HIDE DEF wrong
<1>8. PICK id \in wrong : parent[id] = <<>> \/ parent[id][1] \notin wrong
  BY <1>7 DEF Forest
<1>9. id \in Ids /\ up[id] # Above(id)
  BY <1>8 DEF wrong
<1>10. Above(id) = {id} \cup IF parent[id] = <<>> THEN {} ELSE Above(parent[id][1])
  BY <1>9, AboveFacts
<1>11. parent[id] # <<>> => up[parent[id][1]] = Above(parent[id][1])
  BY <1>2, <1>8, <1>9 DEF wrong
<1>12. QED
  BY <1>5, <1>9, <1>10, <1>11

(* The tree below a root.  In a forest every container is in one.          *)
Tree(root) == {id \in Ids : root \in Above(id) /\ parent[root] = <<>>}

LEMMA RootFacts ==
  ASSUME LinkTypes, Forest, NEW id \in Ids
  PROVE  /\ \E root \in Ids : id \in Tree(root)
         /\ \A x, y \in Ids : id \in Tree(x) /\ id \in Tree(y) => x = y
<1>1. \E root \in Ids : id \in Tree(root)
  <2>1. Above(id) \in (SUBSET Ids) \ {{}} /\ HasItsParents(Above(id))
    BY AboveFacts
  <2>2. PICK root \in Above(id) : parent[root] = <<>> \/ parent[root][1] \notin Above(id)
    BY <2>1 DEF Forest
  <2>3. QED
    BY <2>1, <2>2 DEF HasItsParents, Tree
<1> DEFINE wrong == {z \in Ids : \E x, y \in Ids : z \in Tree(x) /\ z \in Tree(y) /\ x # y}
<1>2. wrong = {}
  <2>1. SUFFICES ASSUME wrong # {}
                 PROVE  FALSE
    OBVIOUS
  <2>2. wrong \in (SUBSET Ids) \ {{}}
    BY <2>1
  <2> HIDE DEF wrong
  <2>3. PICK z \in wrong : parent[z] = <<>> \/ parent[z][1] \notin wrong
    BY <2>2 DEF Forest
  <2>4. PICK x, y \in Ids : z \in Ids /\ z \in Tree(x) /\ z \in Tree(y) /\ x # y
    BY <2>3 DEF wrong
  <2>5. Above(z) = {z} \cup IF parent[z] = <<>> THEN {} ELSE Above(parent[z][1])
    BY <2>4, AboveFacts
  <2>6. parent[z] # <<>> /\ parent[z][1] \in Ids
    BY <2>4, <2>5 DEF Tree, LinkTypes
  <2>7. parent[z][1] \in Tree(x) /\ parent[z][1] \in Tree(y)
    BY <2>4, <2>5, <2>6 DEF Tree
  <2>8. parent[z][1] \in wrong
    BY <2>4, <2>6, <2>7 DEF wrong
  <2>9. QED
    BY <2>3, <2>6, <2>8
<1>3. QED
  BY <1>1, <1>2

(* What one message joined so far has one root.  The walk that was too     *)
(* long to make is the only way to be refused and left apart.              *)
ChainHasARoot ==
    Cardinality(Ids) <= MaxChain /\ chain # <<>> =>
        \E root \in Ids : \A k \in 1 .. at : k <= Len(chain) => chain[k] \in Tree(root)

LEMMA IdsAreFinite == ASSUME mail \in Seq(Mail) PROVE IsFiniteSet(Ids)
<1>1. IsFiniteSet(DOMAIN mail)
  <2>1. DOMAIN mail = 1 .. Len(mail) /\ Len(mail) \in Int
    OBVIOUS
  <2>2. QED
    BY <2>1, FS_Interval
<1>2. QED
  BY <1>1, FS_Union, ThreadingAssumption DEF Ids

(* A root of the new parent stays the root of all that it was the root of, *)
(* and becomes the child's.                                                *)
LEMMA LinkKeepsRoot ==
  ASSUME LinkTypes, Ids' = Ids,
         NEW p \in Ids, NEW c \in Ids, ~WouldCreateCycle(p, c),
         parent' = [parent EXCEPT ![c] = <<p>>],
         NEW root \in Ids, p \in Tree(root)
  PROVE  Tree(root) \subseteq Tree(root)' /\ c \in Tree(root)'
<1>1. PICK walk \in SUBSET Ids :
          /\ p \in walk /\ c \notin walk
          /\ \A id \in walk : parent[id] # <<>> => parent[id][1] \in walk
  BY DEF WouldCreateCycle
<1>2. \A x \in Ids : parent'[x] = IF x = c THEN <<p>> ELSE parent[x]
  BY DEF LinkTypes
<1>3. root \in walk /\ parent'[root] = <<>>
  BY <1>1, <1>2 DEF Tree, Above, HasItsParents
<1>4. ASSUME NEW set \in SUBSET Ids, HasItsParents(set)', c \in set
      PROVE  root \in set
  <2>1. p \in set
    BY <1>2, <1>4 DEF HasItsParents
  <2>2. HasItsParents(set \cap walk)
    BY <1>1, <1>2, <1>4 DEF HasItsParents
  <2> DEFINE both == set \cap walk
  <2>3. both \in SUBSET Ids /\ p \in both /\ HasItsParents(both)
    BY <1>1, <2>1, <2>2
  <2> HIDE DEF both
  <2>4. root \in both
    BY <2>3 DEF Tree, Above
  <2>5. QED
    BY <2>4 DEF both
<1>5. ASSUME NEW x \in Ids, x \in Tree(root),
             NEW set \in SUBSET Ids, HasItsParents(set)', x \in set
      PROVE  root \in set
  <2>1. CASE c \in set
    BY <1>4, <1>5, <2>1
  <2>2. CASE c \notin set
    <3>1. HasItsParents(set)
      BY <1>2, <1>5, <2>2 DEF HasItsParents
    <3>2. QED
      BY <1>5, <3>1 DEF Tree, Above
  <2>3. QED
    BY <2>1, <2>2
<1>6. Tree(root) \subseteq Tree(root)'
  BY <1>3, <1>5 DEF Tree, Above
<1>7. c \in Tree(root)'
  BY <1>3, <1>4 DEF Tree, Above
<1>8. QED
  BY <1>6, <1>7

LEMMA RefusedIsAbove ==
  ASSUME LinkTypes, Cardinality(Ids) <= MaxChain,
         NEW p \in Ids, NEW c \in Ids, WouldCreateCycle(p, c)
  PROVE  c \in Above(p)
<1>1. /\ p \in Above(p) /\ Above(p) \in SUBSET Ids
      /\ \A id \in Above(p) : parent[id] # <<>> => parent[id][1] \in Above(p)
  BY AboveFacts DEF HasItsParents
<1>2. Cardinality(Above(p)) <= MaxChain
  <2>1. IsFiniteSet(Ids)
    BY IdsAreFinite DEF LinkTypes
  <2>2. /\ Cardinality(Above(p)) <= Cardinality(Ids) /\ IsFiniteSet(Above(p))
    BY <1>1, <2>1, FS_Subset
  <2>3. Cardinality(Above(p)) \in Nat /\ Cardinality(Ids) \in Nat /\ MaxChain \in Nat
    BY <2>1, <2>2, FS_CardinalityType, ThreadingAssumption
  <2>4. QED
    BY <2>2, <2>3
<1>3. QED
  BY <1>1, <1>2 DEF WouldCreateCycle

ChainInv == LinkInv /\ ChainHasARoot

LEMMA ChainHasARootStep ==
  ASSUME ChainInv, [Next]_vars, LinkInv'
  PROVE  ChainHasARoot'
<1> SUFFICES ASSUME Cardinality(Ids) <= MaxChain, chain' # <<>>
             PROVE  \E root \in Ids : \A k \in 1 .. at' :
                        k <= Len(chain') => chain'[k] \in Tree(root)'
  BY IdsStay DEF ChainHasARoot
<1>1. mail' = mail /\ Ids' = Ids /\ LinkTypes /\ Forest /\ LinkTypes'
  BY IdsStay DEF ChainInv, LinkInv
<1>2. parent' = parent => \A root \in Ids : Tree(root)' = Tree(root)
  BY <1>1 DEF Tree, Above, HasItsParents
<1>3. CASE Claim
  <2>1. at' = 1 /\ parent' = parent
    BY <1>3 DEF Claim, ClaimAs
  <2>2. chain'[1] \in Ids
    BY <1>1 DEF LinkTypes
  <2>3. PICK root \in Ids : chain'[1] \in Tree(root)
    BY <1>1, <2>2, RootFacts
  <2>4. chain'[1] \in Tree(root)'
    BY <1>2, <2>1, <2>3
  <2>5. \A k \in 1 .. at' : k = 1
    BY <2>1
  <2>6. QED
    BY <2>4, <2>5
<1>4. CASE Link
  <2>1. PICK p, c \in Ids : p = chain[at] /\ c = chain[at + 1]
    BY <1>1, <1>4, WindowType DEF Link
  <2>2. at' = at + 1 /\ chain' = chain /\ at \in 1 .. at /\ at <= Len(chain) /\ at \in Nat
    BY <1>1, <1>4 DEF Link, ChainLinked, LinkTypes
  <2>3. PICK root \in Ids : \A k \in 1 .. at : k <= Len(chain) => chain[k] \in Tree(root)
    BY <2>2 DEF ChainInv, ChainHasARoot
  <2>4. p \in Tree(root)
    BY <2>1, <2>2, <2>3
  <2>5. Tree(root) \subseteq Tree(root)' /\ c \in Tree(root)'
    <3>1. CASE Refused(p, c)
      <4>1. Tree(root)' = Tree(root)
        BY <1>2, <1>4, <2>1, <3>1 DEF Link
      <4>2. CASE p = c
        BY <2>4, <4>1, <4>2
      <4>3. CASE p # c
        <5>1. c \in Above(p)
          BY <1>1, <3>1, <4>3, RefusedIsAbove DEF Refused
        <5>2. PICK other \in Ids : c \in Tree(other)
          BY <1>1, RootFacts
        <5>3. p \in Tree(other)
          BY <1>1, <5>1, <5>2, AboveFacts DEF Tree
        <5>4. other = root
          BY <1>1, <2>4, <5>3, RootFacts
        <5>5. QED
          BY <4>1, <5>2, <5>4
      <4>4. QED
        BY <4>2, <4>3
    <3>2. CASE ~Refused(p, c)
      <4>1. parent' = [parent EXCEPT ![c] = <<p>>] /\ ~WouldCreateCycle(p, c)
        BY <1>4, <2>1, <3>2 DEF Link, Refused
      <4>2. QED
        BY <1>1, <2>4, <4>1, LinkKeepsRoot
    <3>3. QED
      BY <3>1, <3>2
  <2>6. \A k \in 1 .. at' : k \in 1 .. at \/ k = at + 1
    BY <2>2
  <2>7. \A k \in 1 .. at' : k <= Len(chain') => chain'[k] \in Tree(root)'
    BY <2>1, <2>2, <2>3, <2>5, <2>6
  <2>8. QED
    BY <2>7
<1>5. CASE Gather \/ Finish \/ UNCHANGED vars
  <2>1. chain' = chain /\ at' = at /\ parent' = parent
    BY <1>5 DEF Gather, Finish, vars, linkVars
  <2>2. PICK root \in Ids : \A k \in 1 .. at : k <= Len(chain) => chain[k] \in Tree(root)
    BY <2>1 DEF ChainInv, ChainHasARoot
  <2>3. QED
    BY <1>2, <2>1, <2>2
<1>6. QED
  BY <1>3, <1>4, <1>5 DEF Next

LEMMA AlwaysChainInv == Spec => []ChainInv
<1>1. Init => ChainInv
  BY InitLinkInv DEF ChainInv, ChainHasARoot, Init
<1>2. ChainInv /\ [Next]_vars => ChainInv'
  BY NextLinkInv, ChainHasARootStep DEF ChainInv
<1>3. QED
  BY <1>1, <1>2, PTL DEF Spec

(* For every mailbox whose ids are no more than MAX_CHAIN, the ids that    *)
(* one message names stay in one tree while they are linked: moving a      *)
(* container to a new parent never tears apart what the same message       *)
(* joined (tui/threading.rs:118-153).                                      *)
THEOREM ChainsStayTogether == Spec => []ChainIsOneTree
<1>1. ChainInv => ChainIsOneTree
  <2>1. SUFFICES ASSUME ChainInv, Cardinality(Ids) <= MaxChain,
                        NEW k \in 1 .. at - 1, k < Len(chain)
                 PROVE  Ancestors(chain[k]) \cap Ancestors(chain[k + 1]) # {}
    BY DEF ChainIsOneTree
  <2>2. LinkTypes /\ Forest /\ chain \in Seq(Ids) /\ at \in Nat /\ Len(chain) \in Nat
    BY <2>1 DEF ChainInv, LinkInv, LinkTypes
  <2>3. /\ k \in 1 .. at /\ k + 1 \in 1 .. at /\ k <= Len(chain) /\ k + 1 <= Len(chain)
        /\ chain # <<>> /\ chain[k] \in Ids /\ chain[k + 1] \in Ids
    BY <2>1, <2>2
  <2>4. PICK root \in Ids : chain[k] \in Tree(root) /\ chain[k + 1] \in Tree(root)
    BY <2>1, <2>3 DEF ChainInv, ChainHasARoot
  <2>5. QED
    BY <2>2, <2>3, <2>4, AncestorsAreAbove DEF Tree
<1>2. QED
  BY <1>1, AlwaysChainInv, PTL
-----------------------------------------------------------------------------
(* Every message that has been taken is in one container, and a container  *)
(* with a synthetic id waits for its message.                              *)
ClaimInv ==
    /\ \A i \in 1 .. taken : \E id \in Ids : entry[id] = <<i>>
    /\ \A id \in Ids : entry[id] # <<>> => entry[id][1] \in 1 .. taken
    /\ \A x, y \in Ids : entry[x] # <<>> /\ entry[x] = entry[y] => x = y
    /\ \A i \in DOMAIN mail : i > taken => entry[i] = <<>>

LEMMA ClaimInvStep ==
  ASSUME LinkInv, ClaimInv, [Next]_vars
  PROVE  ClaimInv'
<1>1. mail' = mail /\ Ids' = Ids /\ LinkTypes
  BY IdsStay DEF LinkInv
<1>2. CASE Claim
  <2> DEFINE i == taken + 1
             m == mail[i]
             own == IF IsUnclaimed(m) THEN m.id[1] ELSE i
  <2>1. i \in DOMAIN mail /\ i \in Nat /\ i > taken /\ taken \in Nat
    BY <1>1, <1>2 DEF Claim, LinkTypes
  <2>2. m.id # <<>> => m.id[1] \in Names
    <3>1. m \in Mail
      BY <1>1, <2>1 DEF LinkTypes
    <3>2. m.id \in {<<>>} \cup {<<n>> : n \in Names}
      BY <3>1 DEF Mail
    <3>3. QED
      BY <3>2
  <2>3. /\ own \in Ids /\ entry[own] = <<>>
        /\ \A j \in DOMAIN mail : own = j => j = i
    <3>1. CASE IsUnclaimed(m)
      <4>1. own \in Names /\ entry[own] = <<>>
        BY <2>2, <3>1 DEF IsUnclaimed
      <4>2. \A j \in DOMAIN mail : j \in Nat
        BY <1>1 DEF LinkTypes
      <4>3. QED
        BY <4>1, <4>2, ThreadingAssumption DEF Ids
    <3>2. CASE ~IsUnclaimed(m)
      <4>1. own = i
        BY <3>2
      <4>2. QED
        BY <2>1, <4>1 DEF ClaimInv, Ids
    <3>3. QED
      BY <3>1, <3>2
  <2>4. taken' = i /\ entry' = [entry EXCEPT ![own] = <<i>>]
    BY <1>2 DEF Claim, ClaimAs
  <2> HIDE DEF own, i
  <2>5. \A id \in Ids : entry'[id] = IF id = own THEN <<i>> ELSE entry[id]
    BY <1>1, <2>4 DEF LinkTypes
  <2>6. \A j \in 1 .. taken' : j \in 1 .. taken \/ j = i
    BY <2>1, <2>4 DEF i
  <2>7. \A j \in 1 .. taken' : \E id \in Ids : entry'[id] = <<j>>
    <3>1. ASSUME NEW j \in 1 .. taken
          PROVE  \E id \in Ids : entry'[id] = <<j>>
      <4>1. PICK id \in Ids : entry[id] = <<j>>
        BY DEF ClaimInv
      <4>2. id # own
        BY <2>3, <4>1
      <4>3. QED
        BY <2>5, <4>1, <4>2
    <3>2. QED
      BY <2>3, <2>5, <2>6, <3>1
  <2>8. \A id \in Ids : entry'[id] # <<>> => entry'[id][1] \in 1 .. taken'
    <3>1. \A n \in 1 .. taken : n \in 1 .. taken'
      BY <2>1, <2>4 DEF i
    <3>2. i \in 1 .. taken'
      BY <2>1, <2>4
    <3>3. QED
      BY <2>5, <3>1, <3>2 DEF ClaimInv
  <2>9. ASSUME NEW x \in Ids, NEW y \in Ids, entry'[x] # <<>>, entry'[x] = entry'[y]
        PROVE  x = y
    <3>1. \A id \in Ids : entry[id] # <<i>>
      <4>1. i \notin 1 .. taken
        BY <2>1
      <4>2. <<i>> # <<>> /\ <<i>>[1] = i
        OBVIOUS
      <4>3. QED
        BY <4>1, <4>2 DEF ClaimInv
    <3>2. QED
      BY <2>5, <2>9, <3>1 DEF ClaimInv
  <2>10. ASSUME NEW j \in DOMAIN mail, j > taken'
         PROVE  entry'[j] = <<>>
    <3>1. j > taken /\ j # i /\ j \in Ids
      BY <1>1, <2>1, <2>4, <2>10 DEF i, Ids, LinkTypes
    <3>2. j # own
      BY <2>3, <3>1
    <3>3. QED
      BY <2>5, <3>1, <3>2 DEF ClaimInv
  <2>11. QED
    BY <1>1, <2>7, <2>8, <2>9, <2>10 DEF ClaimInv
<1>3. CASE Link \/ Gather \/ Finish \/ UNCHANGED vars
  <2>1. entry' = entry /\ taken' = taken
    BY <1>3 DEF Link, Gather, Finish, vars, linkVars
  <2>2. QED
    BY <1>1, <2>1 DEF ClaimInv
<1>4. QED
  BY <1>2, <1>3 DEF Next

LEMMA ClaimInvInit == ASSUME Init PROVE ClaimInv
<1>1. mail \in Seq(Mail)
  BY MailboxIsSeq DEF Init
<1>2. QED
  BY <1>1 DEF Init, ClaimInv, Ids
-----------------------------------------------------------------------------
(* Lists of rows: what they list, each message once.                       *)
Lists(list, rows) ==
    /\ list \in Seq(Row)
    /\ Range(list) = rows
    /\ \A m, n \in DOMAIN list : list[m][1] = list[n][1] => m = n

Apart(rows, others) == \A r \in rows, q \in others : r[1] # q[1]

LEMMA ListsNothing == Lists(<<>>, {})
  BY DEF Lists, Range

LEMMA ListsConcat ==
  ASSUME NEW s, NEW t, NEW rows, NEW others,
         Lists(s, rows), Lists(t, others), Apart(rows, others)
  PROVE  Lists(s \o t, rows \cup others)
<1> DEFINE all == s \o t
<1>1. s \in Seq(Row) /\ t \in Seq(Row) /\ Len(s) \in Nat /\ Len(t) \in Nat
  BY DEF Lists
<1>2. /\ all \in Seq(Row) /\ Len(all) = Len(s) + Len(t)
      /\ \A n \in 1 .. Len(s) : all[n] = s[n]
      /\ \A n \in Len(s) + 1 .. Len(s) + Len(t) : all[n] = t[n - Len(s)]
  BY <1>1, ConcatProperties
<1> HIDE DEF all
<1>3. \A n \in DOMAIN all :
          \/ n \in 1 .. Len(s) /\ all[n] = s[n]
          \/ /\ n \in Len(s) + 1 .. Len(s) + Len(t) /\ n - Len(s) \in 1 .. Len(t)
             /\ all[n] = t[n - Len(s)]
  <2>1. DOMAIN all = 1 .. Len(s) + Len(t)
    BY <1>2
  <2>2. ASSUME NEW n \in 1 .. Len(s) + Len(t)
        PROVE  \/ n \in 1 .. Len(s)
               \/ n \in Len(s) + 1 .. Len(s) + Len(t) /\ n - Len(s) \in 1 .. Len(t)
    BY <1>1
  <2>3. QED
    BY <1>2, <2>1, <2>2
<1>4. /\ \A n \in 1 .. Len(s) : n \in DOMAIN s /\ s[n] \in rows
      /\ \A n \in 1 .. Len(t) : n \in DOMAIN t /\ t[n] \in others
  BY <1>1 DEF Lists, Range
<1>5. Range(all) = rows \cup others
  <2>1. ASSUME NEW x \in Range(all)
        PROVE  x \in rows \cup others
    <3>1. PICK n \in DOMAIN all : all[n] = x
      BY DEF Range
    <3>2. QED
      BY <1>3, <1>4, <3>1
  <2>2. ASSUME NEW x \in rows
        PROVE  x \in Range(all)
    <3>1. PICK n \in 1 .. Len(s) : s[n] = x
      BY <1>1 DEF Lists, Range
    <3>2. n \in DOMAIN all /\ all[n] = x
      BY <1>1, <1>2, <3>1
    <3>3. QED
      BY <3>2 DEF Range
  <2>3. ASSUME NEW x \in others
        PROVE  x \in Range(all)
    <3>1. PICK n \in 1 .. Len(t) : t[n] = x
      BY <1>1 DEF Lists, Range
    <3>2. n + Len(s) \in Len(s) + 1 .. Len(s) + Len(t) /\ (n + Len(s)) - Len(s) = n
      BY <1>1, <3>1
    <3>3. n + Len(s) \in DOMAIN all
      <4>1. DOMAIN all = 1 .. Len(s) + Len(t)
        BY <1>2
      <4>2. QED
        BY <1>1, <3>1, <4>1
    <3>4. all[n + Len(s)] = x
      <4> DEFINE k == n + Len(s)
      <4>1. k \in Len(s) + 1 .. Len(s) + Len(t) /\ k - Len(s) = n
        BY <3>2
      <4> HIDE DEF k
      <4>2. all[k] = x
        BY <1>2, <3>1, <4>1
      <4>3. QED
        BY <4>2 DEF k
    <3>5. QED
      BY <3>3, <3>4 DEF Range
  <2>4. QED
    BY <2>1, <2>2, <2>3
<1>6. ASSUME NEW m \in DOMAIN all, NEW n \in DOMAIN all, all[m][1] = all[n][1]
      PROVE  m = n
  <2>1. CASE m \in 1 .. Len(s) /\ n \in 1 .. Len(s)
    BY <1>2, <1>4, <1>6, <2>1 DEF Lists
  <2>2. CASE m \in 1 .. Len(s) /\ n \notin 1 .. Len(s)
    BY <1>3, <1>4, <1>6, <2>2 DEF Apart
  <2>3. CASE m \notin 1 .. Len(s) /\ n \in 1 .. Len(s)
    BY <1>3, <1>4, <1>6, <2>3 DEF Apart
  <2>4. CASE m \notin 1 .. Len(s) /\ n \notin 1 .. Len(s)
    <3>1. /\ m - Len(s) \in DOMAIN t /\ n - Len(s) \in DOMAIN t
          /\ t[m - Len(s)][1] = t[n - Len(s)][1]
      BY <1>3, <1>4, <1>6, <2>4
    <3>2. m - Len(s) = n - Len(s) /\ m \in Nat /\ n \in Nat
      BY <1>2, <3>1 DEF Lists
    <3>3. QED
      BY <1>1, <3>2
  <2>5. QED
    BY <2>1, <2>2, <2>3, <2>4
<1>7. QED
  BY <1>2, <1>5, <1>6 DEF Lists, all

LEMMA FlattenLists ==
  ASSUME NEW seqs \in Seq(Seq(Row)), NEW rows,
         \A n \in 1 .. Len(seqs) : Lists(seqs[n], rows[n]),
         \A m, n \in 1 .. Len(seqs) : m # n => Apart(rows[m], rows[n]),
         NEW all, \A r : r \in all <=> \E n \in 1 .. Len(seqs) : r \in rows[n]
  PROVE  Lists(FlattenSeq(seqs), all)
<1> DEFINE last == Len(seqs)
           upTo(n) == UNION {rows[k] : k \in 1 .. n}
<1>1. PICK f \in [0 .. last -> Seq(Row)] :
          /\ f[0] = <<>>
          /\ \A n \in 1 .. last : f[n] = f[n - 1] \o seqs[n]
          /\ FlattenSeq(seqs) = f[last]
  BY FlattenPrefixes
<1>2. last \in Nat
  OBVIOUS
<1> HIDE DEF last
<1> DEFINE good == {n \in 0 .. last : Lists(f[n], upTo(n))}
<1>3. 0 \in good
  <2>1. upTo(0) = {} /\ 0 \in 0 .. last
    BY <1>2
  <2>2. QED
    BY <1>1, <2>1, ListsNothing
<1>4. ASSUME NEW n \in 0 .. last, n \in good /\ n < last
      PROVE  n + 1 \in good
  <2>1. n + 1 \in 1 .. last /\ n + 1 \in 0 .. last /\ (n + 1) - 1 = n
    BY <1>2, <1>4
  <2>2. Lists(f[n], upTo(n)) /\ Lists(seqs[n + 1], rows[n + 1]) /\ f[n + 1] = f[n] \o seqs[n + 1]
    BY <1>1, <1>4, <2>1 DEF last
  <2>3. upTo(n + 1) = upTo(n) \cup rows[n + 1]
    <3>1. n \in Nat
      BY <1>2
    <3>2. 1 .. n + 1 = (1 .. n) \cup {n + 1}
      BY <3>1
    <3>3. QED
      BY <3>2
  <2>4. Apart(upTo(n), rows[n + 1])
    <3>1. \A k \in 1 .. n : k \in 1 .. last /\ k # n + 1
      BY <1>2, <2>1
    <3>2. \A k \in 1 .. n : Apart(rows[k], rows[n + 1])
      BY <2>1, <3>1 DEF last
    <3>3. QED
      BY <3>2 DEF Apart
  <2>5. Lists(f[n] \o seqs[n + 1], upTo(n) \cup rows[n + 1])
    <3> HIDE DEF upTo
    <3>1. QED
      BY <2>2, <2>4, ListsConcat
  <2>6. Lists(f[n + 1], upTo(n + 1))
    <3> HIDE DEF upTo
    <3>1. QED
      BY <2>2, <2>3, <2>5
  <2>7. QED
    BY <2>1, <2>6
<1>5. \A n \in 0 .. last : n \in good
  <2> HIDE DEF good
  <2>1. QED
    BY <1>2, <1>3, <1>4, InductionUpTo
<1>6. last \in 0 .. last
  BY <1>2
<1>7. Lists(f[last], upTo(last))
  BY <1>5, <1>6
<1>8. upTo(last) = all
  BY DEF last
<1>9. QED
  BY <1>1, <1>7, <1>8 DEF last
-----------------------------------------------------------------------------
(* The order of a forest: no container is above its parent, the containers *)
(* above one are a line, and one of them is a child of any other that it   *)
(* is below.                                                               *)
LEMMA NotAboveItsParent ==
  ASSUME LinkTypes, Forest, NEW id \in Ids, parent[id] # <<>>
  PROVE  parent[id][1] \in Ids /\ id \notin Above(parent[id][1])
<1> DEFINE wrong == {z \in Ids : parent[z] # <<>> /\ z \in Above(parent[z][1])}
<1>1. \A x \in Ids : parent[x] # <<>> => parent[x][1] \in Ids
  BY DEF LinkTypes
<1>2. SUFFICES ASSUME wrong # {}
               PROVE  FALSE
  BY <1>1
<1>3. wrong \in (SUBSET Ids) \ {{}}
  BY <1>2
<1> HIDE DEF wrong
<1>4. PICK z \in wrong : parent[z] = <<>> \/ parent[z][1] \notin wrong
  BY <1>3 DEF Forest
<1>5. z \in Ids /\ parent[z] # <<>> /\ z \in Above(parent[z][1])
  BY <1>4 DEF wrong
<1> DEFINE up == parent[z][1]
<1>6. up \in Ids /\ up # z
  BY <1>1, <1>4, <1>5
<1>7. Above(up) = {up} \cup IF parent[up] = <<>> THEN {} ELSE Above(parent[up][1])
  BY <1>6, AboveFacts
<1>8. parent[up] # <<>> /\ z \in Above(parent[up][1])
  BY <1>5, <1>6, <1>7
<1>9. up \in Above(z)
  BY <1>5, AboveFacts DEF HasItsParents
<1>10. parent[up][1] \in Ids
  BY <1>1, <1>6, <1>8
<1>11. Above(z) \subseteq Above(parent[up][1])
  BY <1>8, <1>10, AboveFacts
<1>12. up \in wrong
  BY <1>6, <1>8, <1>9, <1>11 DEF wrong
<1>13. QED
  BY <1>4, <1>5, <1>12

LEMMA AboveIsALine ==
  ASSUME LinkTypes, Forest, NEW id \in Ids, NEW a \in Above(id), NEW b \in Above(id)
  PROVE  a \in Above(b) \/ b \in Above(a)
<1> DEFINE apart(z) == \E x, y \in Above(z) : x \notin Above(y) /\ y \notin Above(x)
           wrong == {z \in Ids : apart(z)}
<1>1. SUFFICES ASSUME wrong # {}
               PROVE  FALSE
  BY <1>1
<1>2. wrong \in (SUBSET Ids) \ {{}}
  BY <1>1
<1> HIDE DEF wrong
<1>3. PICK z \in wrong : parent[z] = <<>> \/ parent[z][1] \notin wrong
  BY <1>2 DEF Forest
<1>4. z \in Ids /\ apart(z)
  BY <1>3 DEF wrong
<1>5. PICK x, y \in Above(z) : x \notin Above(y) /\ y \notin Above(x)
  BY <1>4
<1>6. x # z /\ y # z
  BY <1>5
<1>7. Above(z) = {z} \cup IF parent[z] = <<>> THEN {} ELSE Above(parent[z][1])
  BY <1>4, AboveFacts
<1>8. parent[z] # <<>> /\ x \in Above(parent[z][1]) /\ y \in Above(parent[z][1])
  BY <1>5, <1>6, <1>7
<1>9. parent[z][1] \in Ids
  BY <1>4, <1>8 DEF LinkTypes
<1>10. parent[z][1] \in wrong
  BY <1>5, <1>8, <1>9 DEF wrong
<1>11. QED
  BY <1>3, <1>8, <1>10

LEMMA EitherIsAbove ==
  ASSUME LinkTypes, Forest, NEW a \in Ids, NEW b \in Above(a), a \in Above(b)
  PROVE  a = b
<1>1. SUFFICES ASSUME a # b
               PROVE  FALSE
  OBVIOUS
<1>2. Above(a) = {a} \cup IF parent[a] = <<>> THEN {} ELSE Above(parent[a][1])
  BY AboveFacts
<1>3. parent[a] # <<>> /\ b \in Above(parent[a][1])
  BY <1>1, <1>2
<1>4. parent[a][1] \in Ids /\ a \notin Above(parent[a][1])
  BY <1>3, NotAboveItsParent
<1>5. Above(b) \subseteq Above(parent[a][1])
  BY <1>3, <1>4, AboveFacts
<1>6. QED
  BY <1>4, <1>5

ChildTowards(id, x, c) == parent[c] = <<id>> /\ c \in Above(x)

LEMMA OneChildTowards ==
  ASSUME LinkTypes, Forest, NEW id \in Ids, NEW x \in Ids, id \in Above(x), x # id
  PROVE  /\ \E c \in Ids : ChildTowards(id, x, c)
         /\ \A c, d \in Ids : ChildTowards(id, x, c) /\ ChildTowards(id, x, d) => c = d
<1>1. \E c \in Ids : ChildTowards(id, x, c)
  <2> DEFINE wrong == {z \in Ids : /\ id \in Above(z) /\ z # id
                                   /\ ~ \E c \in Ids : ChildTowards(id, z, c)}
  <2>1. SUFFICES ASSUME wrong # {}
                 PROVE  FALSE
    OBVIOUS
  <2>2. wrong \in (SUBSET Ids) \ {{}}
    BY <2>1
  <2> HIDE DEF wrong
  <2>3. PICK z \in wrong : parent[z] = <<>> \/ parent[z][1] \notin wrong
    BY <2>2 DEF Forest
  <2>4. z \in Ids /\ id \in Above(z) /\ z # id /\ ~ \E c \in Ids : ChildTowards(id, z, c)
    BY <2>3 DEF wrong
  <2>5. /\ Above(z) = {z} \cup IF parent[z] = <<>> THEN {} ELSE Above(parent[z][1])
        /\ z \in Above(z)
    BY <2>4, AboveFacts
  <2>6. parent[z] # <<>> /\ id \in Above(parent[z][1])
    BY <2>4, <2>5
  <2>7. PICK up \in Ids : parent[z] = <<up>>
    BY <2>4, <2>6 DEF LinkTypes
  <2>8. up # id
    BY <2>4, <2>5, <2>7 DEF ChildTowards
  <2>9. id \in Above(up) /\ Above(up) \subseteq Above(z)
    BY <2>5, <2>6, <2>7
  <2>10. up \in wrong
    BY <2>4, <2>7, <2>8, <2>9 DEF wrong, ChildTowards
  <2>11. QED
    BY <2>3, <2>6, <2>7, <2>10
<1>2. ASSUME NEW c \in Ids, NEW d \in Ids, ChildTowards(id, x, c), ChildTowards(id, x, d)
      PROVE  c \in Above(d) => c = d
  <2>1. Above(d) = {d} \cup Above(id)
    <3>1. parent[d] # <<>> /\ parent[d][1] = id
      BY <1>2 DEF ChildTowards
    <3>2. QED
      BY <3>1, AboveFacts
  <2>2. c \notin Above(id)
    <3>1. parent[c] # <<>> /\ parent[c][1] = id
      BY <1>2 DEF ChildTowards
    <3>2. QED
      BY <3>1, NotAboveItsParent
  <2>3. QED
    BY <2>1, <2>2
<1>3. QED
  BY <1>1, <1>2, AboveIsALine DEF ChildTowards

(* How deep a container is: one deeper than its parent.                    *)
Level(id) == Cardinality(Above(id))

LEMMA LevelFacts ==
  ASSUME LinkTypes, Forest, NEW id \in Ids
  PROVE  /\ Level(id) \in 1 .. Cardinality(Ids) /\ Cardinality(Ids) \in Nat
         /\ \A c \in Ids : parent[c] = <<id>> => Level(c) = Level(id) + 1
<1>1. IsFiniteSet(Ids)
  BY IdsAreFinite DEF LinkTypes
<1>2. ASSUME NEW x \in Ids
      PROVE  IsFiniteSet(Above(x)) /\ Level(x) \in 1 .. Cardinality(Ids)
  <2>1. Above(x) \in SUBSET Ids /\ Above(x) # {}
    BY AboveFacts
  <2>2. IsFiniteSet(Above(x)) /\ Cardinality(Above(x)) <= Cardinality(Ids)
    BY <1>1, <2>1, FS_Subset
  <2>3. Cardinality(Above(x)) \in Nat /\ Cardinality(Above(x)) # 0 /\ Cardinality(Ids) \in Nat
    BY <1>1, <2>1, <2>2, FS_CardinalityType, FS_EmptySet
  <2>4. QED
    BY <2>2, <2>3 DEF Level
<1>3. ASSUME NEW c \in Ids, parent[c] = <<id>>
      PROVE  Level(c) = Level(id) + 1
  <2>1. parent[c] # <<>> /\ parent[c][1] = id
    BY <1>3
  <2>2. Above(c) = Above(id) \cup {c} /\ c \notin Above(id)
    BY <2>1, AboveFacts, NotAboveItsParent
  <2>3. QED
    BY <1>2, <2>2, FS_AddElement DEF Level
<1>4. Cardinality(Ids) \in Nat
  BY <1>1, FS_CardinalityType
<1>5. QED
  BY <1>2, <1>3, <1>4
-----------------------------------------------------------------------------
(* A sort moves the elements of a list and does nothing else.              *)
Rearranges(sorted, list) ==
    /\ DOMAIN sorted = DOMAIN list
    /\ \E place \in Bijection(DOMAIN list, DOMAIN list) :
           \A j \in DOMAIN list : sorted[place[j]] = list[j]

(* The ranking that StableSort makes of numbers. *)
KeyRanking(key, last) ==
    [j \in 1 .. last |-> {i \in (1 .. last) \ {j} : \/ key[i] < key[j]
                                                    \/ ~(key[j] < key[i]) /\ i < j}]

LEMMA KeyRankingFacts ==
  ASSUME NEW last \in Nat, NEW key \in [1 .. last -> Nat]
  PROVE  IsRanking(KeyRanking(key, last), 1 .. last)
<1> DEFINE before == KeyRanking(key, last)
           Goes(i, j) == \/ key[i] < key[j]
                         \/ ~(key[j] < key[i]) /\ i < j
<1>1. before \in [1 .. last -> SUBSET (1 .. last)]
  BY DEF KeyRanking
<1>2. \A i, j \in 1 .. last : i \in before[j] <=> i # j /\ Goes(i, j)
  BY DEF KeyRanking
<1>3. \A n \in 1 .. last : key[n] \in Nat /\ n \in Nat
  OBVIOUS
<1> HIDE DEF before
<1>4. \A i, j \in 1 .. last : i # j => Goes(i, j) \/ Goes(j, i)
  BY <1>3
<1>5. \A i, j, k \in 1 .. last : Goes(k, i) /\ Goes(i, j) => Goes(k, j)
  BY <1>3
<1>6. \A i, j \in 1 .. last : Goes(i, j) /\ Goes(j, i) => i = j
  BY <1>3
<1> HIDE DEF Goes
<1>7. ASSUME NEW i \in 1 .. last, NEW j \in 1 .. last, i \in before[j]
      PROVE  before[i] \subseteq before[j]
  <2>1. ASSUME NEW k \in before[i]
        PROVE  k \in before[j]
    <3>1. k \in 1 .. last
      BY <1>1
    <3>2. i # j /\ Goes(i, j) /\ k # i /\ Goes(k, i)
      BY <1>2, <1>7, <2>1, <3>1
    <3>3. k # j
      BY <1>6, <3>2
    <3>4. QED
      BY <1>2, <1>5, <3>1, <3>2, <3>3
  <2>2. QED
    BY <2>1
<1>8. QED
  BY <1>1, <1>2, <1>4, <1>7 DEF IsRanking, before

LEMMA SortByPlace ==
  ASSUME NEW S, NEW list \in Seq(S), NEW key \in [1 .. Len(list) -> Nat], NEW sorted,
         DOMAIN sorted = 1 .. Len(list),
         \A n \in 1 .. Len(list) :
             (\E j \in 1 .. Len(list) : PlaceIn(KeyRanking(key, Len(list)), j) = n) =>
             \E j \in 1 .. Len(list) : /\ PlaceIn(KeyRanking(key, Len(list)), j) = n
                                       /\ sorted[n] = list[j]
  PROVE  Rearranges(sorted, list)
<1> DEFINE last == Len(list)
           before == KeyRanking(key, last)
           place == [j \in 1 .. last |-> PlaceIn(before, j)]
<1>1. last \in Nat /\ DOMAIN list = 1 .. last
  OBVIOUS
<1>2. IsFiniteSet(1 .. last) /\ Cardinality(1 .. last) = last
  <2> HIDE DEF last
  <2>1. 1 \in Int /\ last \in Int
    BY <1>1
  <2>2. IsFiniteSet(1 .. last) /\ Cardinality(1 .. last) = IF 1 > last THEN 0 ELSE last - 1 + 1
    BY <2>1, FS_Interval
  <2>3. QED
    BY <1>1, <2>2
<1>3. IsRanking(before, 1 .. last)
  BY <1>1, KeyRankingFacts
<1> HIDE DEF before
<1>4. /\ \A j \in 1 .. last : PlaceIn(before, j) \in 1 .. last
      /\ \A i, j \in 1 .. last : PlaceIn(before, i) = PlaceIn(before, j) => i = j
      /\ \A n \in 1 .. last : \E j \in 1 .. last : PlaceIn(before, j) = n
  <2> DEFINE set == 1 .. last
  <2> HIDE DEF last, set
  <2>1. IsFiniteSet(set) /\ IsRanking(before, set) /\ Cardinality(set) = last
    BY <1>2, <1>3 DEF set
  <2>2. /\ \A j \in set : PlaceIn(before, j) \in 1 .. Cardinality(set)
        /\ \A i, j \in set : PlaceIn(before, i) = PlaceIn(before, j) => i = j
        /\ \A n \in 1 .. Cardinality(set) : \E j \in set : PlaceIn(before, j) = n
    BY <2>1, PlacesAreTaken
  <2>3. QED
    BY <2>1, <2>2 DEF set
<1>5. place \in Bijection(1 .. last, 1 .. last)
  <2> HIDE DEF last
  <2>1. place \in [1 .. last -> 1 .. last]
    BY <1>4
  <2>2. \A i, j \in 1 .. last : place[i] = place[j] => i = j
    BY <1>4
  <2>3. \A n \in 1 .. last : \E j \in 1 .. last : place[j] = n
    BY <1>4
  <2> HIDE DEF place
  <2>4. QED
    BY <2>1, <2>2, <2>3, Fun_IsBij
<1>6. ASSUME NEW j \in 1 .. last
      PROVE  sorted[place[j]] = list[j]
  <2>1. PICK k \in 1 .. last : PlaceIn(before, k) = place[j] /\ sorted[place[j]] = list[k]
    BY <1>4 DEF before
  <2>2. k = j
    BY <1>4, <2>1
  <2>3. QED
    BY <2>1, <2>2
<1> HIDE DEF place
<1>7. QED
  BY <1>1, <1>5, <1>6 DEF Rearranges

LEMMA RearrangedFacts ==
  ASSUME NEW S, NEW list \in Seq(S), NEW sorted, Rearranges(sorted, list),
         sorted = [n \in DOMAIN list |-> sorted[n]]
  PROVE  /\ sorted \in Seq(S) /\ Len(sorted) = Len(list)
         /\ Range(sorted) = Range(list)
         /\ IsInjective(list) => IsInjective(sorted)
<1>1. PICK place \in Bijection(DOMAIN list, DOMAIN list) :
          \A j \in DOMAIN list : sorted[place[j]] = list[j]
  BY DEF Rearranges
<1>2. /\ \A j \in DOMAIN list : place[j] \in DOMAIN list
      /\ \A n \in DOMAIN list : \E j \in DOMAIN list : place[j] = n
  BY <1>1 DEF Bijection, Injection, Surjection
<1>3. \A n \in DOMAIN list : \E j \in DOMAIN list : place[j] = n /\ sorted[n] = list[j]
  <2>1. ASSUME NEW n \in DOMAIN list
        PROVE  \E j \in DOMAIN list : place[j] = n /\ sorted[n] = list[j]
    <3>1. PICK j \in DOMAIN list : place[j] = n
      BY <1>2
    <3>2. sorted[place[j]] = list[j]
      BY <1>1
    <3>3. QED
      BY <3>1, <3>2
  <2>2. QED
    BY <2>1
<1>4. DOMAIN list = 1 .. Len(list) /\ Len(list) \in Nat
  OBVIOUS
<1>5. \A n \in 1 .. Len(list) : sorted[n] \in S
  BY <1>3, <1>4
<1>6. sorted \in [1 .. Len(list) -> S]
  BY <1>4, <1>5
<1>7. sorted \in Seq(S) /\ Len(sorted) = Len(list)
  BY <1>4, <1>6
<1>8. Range(sorted) = Range(list)
  <2>1. ASSUME NEW x \in Range(sorted)
        PROVE  x \in Range(list)
    BY <1>3 DEF Range, Rearranges
  <2>2. ASSUME NEW x \in Range(list)
        PROVE  x \in Range(sorted)
    <3>1. PICK j \in DOMAIN list : list[j] = x
      BY DEF Range
    <3>2. place[j] \in DOMAIN sorted /\ sorted[place[j]] = x
      BY <1>1, <1>2, <3>1 DEF Rearranges
    <3>3. QED
      BY <3>2 DEF Range
  <2>3. QED
    BY <2>1, <2>2
<1>9. ASSUME IsInjective(list)
      PROVE  IsInjective(sorted)
  <2>1. ASSUME NEW m \in DOMAIN list, NEW n \in DOMAIN list, sorted[m] = sorted[n]
        PROVE  m = n
    <3>1. PICK i, j \in DOMAIN list :
              place[i] = m /\ sorted[m] = list[i] /\ place[j] = n /\ sorted[n] = list[j]
      BY <1>3
    <3>2. i = j
      BY <1>9, <2>1, <3>1 DEF IsInjective
    <3>3. QED
      BY <3>1, <3>2
  <2>2. QED
    BY <2>1 DEF IsInjective, Rearranges
<1>10. QED
  BY <1>7, <1>8, <1>9

(* The sort of the children of a container. *)
Sorted(id) == StableSort(children[id], LAMBDA a, b : DateOf(a) < DateOf(b))

LEMMA DatesAreNumbers ==
  ASSUME LinkTypes, NEW id \in Ids PROVE DateOf(id) \in Nat
<1>1. CASE entry[id] = <<>>
  BY <1>1 DEF DateOf
<1>2. CASE entry[id] # <<>>
  <2>1. mail[entry[id][1]] \in Mail
    BY <1>2 DEF LinkTypes
  <2>2. QED
    BY <1>2, <2>1 DEF DateOf, Mail
<1>3. QED
  BY <1>1, <1>2

LEMMA SortedChildren ==
  ASSUME LinkTypes, LinksAgree, NEW id \in Ids
  PROVE  /\ Sorted(id) \in Seq(Ids) /\ IsInjective(Sorted(id))
         /\ \A c \in Ids : c \in Range(Sorted(id)) <=> parent[c] = <<id>>
<1> DEFINE list == children[id]
           last == Len(list)
           key == [n \in 1 .. last |-> DateOf(list[n])]
           before == KeyRanking(key, last)
           Place(j) == Cardinality({i \in DOMAIN list \ {j} :
                          \/ DateOf(list[i]) < DateOf(list[j])
                          \/ ~(DateOf(list[j]) < DateOf(list[i])) /\ i < j}) + 1
<1>1. list \in Seq(Ids) /\ DOMAIN list = 1 .. last /\ last \in Nat
  BY DEF LinkTypes
<1>2. Sorted(id) = [n \in DOMAIN list |-> list[CHOOSE j \in DOMAIN list : Place(j) = n]]
  BY DEF Sorted, StableSort
<1> HIDE DEF list
<1>3. key \in [1 .. last -> Nat]
  BY <1>1, DatesAreNumbers
<1>4. \A j \in 1 .. last : Place(j) = PlaceIn(before, j)
  <2>1. ASSUME NEW j \in 1 .. last
        PROVE  {i \in DOMAIN list \ {j} :
                    \/ DateOf(list[i]) < DateOf(list[j])
                    \/ ~(DateOf(list[j]) < DateOf(list[i])) /\ i < j} = before[j]
    <3>1. \A i \in 1 .. last : key[i] = DateOf(list[i])
      OBVIOUS
    <3>2. before[j] = {i \in (1 .. last) \ {j} :
                          \/ key[i] < key[j]
                          \/ ~(key[j] < key[i]) /\ i < j}
      BY DEF KeyRanking
    <3> HIDE DEF before, key
    <3>3. QED
      BY <1>1, <3>1, <3>2
  <2>2. QED
    BY <2>1 DEF PlaceIn
<1> HIDE DEF Place, key
<1>5. ASSUME NEW n \in 1 .. last, \E j \in 1 .. last : PlaceIn(before, j) = n
      PROVE  \E j \in 1 .. last : PlaceIn(before, j) = n /\ Sorted(id)[n] = list[j]
  <2> DEFINE j == CHOOSE k \in DOMAIN list : Place(k) = n
  <2>1. \E k \in DOMAIN list : Place(k) = n
    BY <1>1, <1>4, <1>5
  <2>2. j \in DOMAIN list /\ Place(j) = n
    BY <2>1
  <2>3. Sorted(id)[n] = list[j]
    BY <1>1, <1>2
  <2> HIDE DEF j
  <2>4. QED
    BY <1>1, <1>4, <2>2, <2>3
<1>6. Rearranges(Sorted(id), list) /\ Sorted(id) = [n \in DOMAIN list |-> Sorted(id)[n]]
  <2>1. DOMAIN Sorted(id) = DOMAIN list /\ Sorted(id) = [n \in DOMAIN list |-> Sorted(id)[n]]
    BY <1>2
  <2>2. QED
    BY <1>1, <1>3, <1>5, <2>1, SortByPlace
<1>7. QED
  BY <1>1, <1>6, RearrangedFacts DEF LinksAgree, list
-----------------------------------------------------------------------------
(* The rows of a container and of all that hangs below it: the recursion   *)
(* of flatten is one in a forest, since it ends at the deepest level.      *)
OwnRows(id) == IF entry[id] = <<>> THEN <<>> ELSE << <<entry[id][1], 0>> >>

RowsOfChildren(f, id) == [n \in DOMAIN Sorted(id) |-> f[Sorted(id)[n]]]

RowsFrom(f, id) == OwnRows(id) \o Indented(FlattenSeq(RowsOfChildren(f, id)), Indent(id))

LEMMA IndentedType ==
  ASSUME NEW rows \in Seq(Row), NEW by \in Nat
  PROVE  Indented(rows, by) \in Seq(Row) /\ Len(Indented(rows, by)) = Len(rows)
<1>1. \A n \in 1 .. Len(rows) : rows[n] \in Row
  OBVIOUS
<1>2. \A n \in 1 .. Len(rows) : <<rows[n][1], rows[n][2] + by>> \in Row
  BY <1>1 DEF Row
<1>3. Indented(rows, by) = [n \in 1 .. Len(rows) |-> <<rows[n][1], rows[n][2] + by>>]
  BY DEF Indented
<1>4. Indented(rows, by) \in [1 .. Len(rows) -> Row]
  BY <1>2, <1>3
<1>5. QED
  BY <1>4

LEMMA OwnRowsType ==
  ASSUME LinkTypes, NEW id \in Ids
  PROVE  OwnRows(id) \in Seq(Row) /\ Indent(id) \in Nat
<1>1. CASE entry[id] = <<>>
  BY <1>1 DEF OwnRows, Indent
<1>2. CASE entry[id] # <<>>
  <2>1. entry[id][1] \in Nat
    BY <1>2 DEF LinkTypes
  <2>2. <<entry[id][1], 0>> \in Row
    BY <2>1 DEF Row
  <2>3. << <<entry[id][1], 0>> >> \in Seq(Row)
    BY <2>2
  <2>4. QED
    BY <1>2, <2>3 DEF OwnRows, Indent
<1>3. QED
  BY <1>1, <1>2

LEMMA RowsFromType ==
  ASSUME LinkTypes, LinksAgree, NEW f \in [Ids -> Seq(Row)], NEW id \in Ids
  PROVE  RowsOfChildren(f, id) \in Seq(Seq(Row)) /\ RowsFrom(f, id) \in Seq(Row)
<1>1. Sorted(id) \in Seq(Ids)
  BY SortedChildren
<1> DEFINE State == Seq(Row)
<1>2. RowsOfChildren(f, id) \in Seq(State)
  <2>1. \A n \in 1 .. Len(Sorted(id)) : f[Sorted(id)[n]] \in State
    BY <1>1
  <2>2. RowsOfChildren(f, id) = [n \in 1 .. Len(Sorted(id)) |-> f[Sorted(id)[n]]]
    BY <1>1 DEF RowsOfChildren
  <2> HIDE DEF State
  <2>3. RowsOfChildren(f, id) \in [1 .. Len(Sorted(id)) -> State] /\ Len(Sorted(id)) \in Nat
    BY <1>1, <2>1, <2>2
  <2>4. QED
    BY <2>3
<1>3. FlattenSeq(RowsOfChildren(f, id)) \in Seq(Row)
  BY <1>2, FlattenType
<1>4. Indented(FlattenSeq(RowsOfChildren(f, id)), Indent(id)) \in Seq(Row)
  BY <1>3, OwnRowsType, IndentedType
<1>5. RowsFrom(f, id) \in Seq(Row)
  BY <1>4, OwnRowsType DEF RowsFrom
<1>6. QED
  BY <1>2, <1>5

LEMMA OneHasNoChildIn ==
  ASSUME LinkTypes, Forest, NEW set \in (SUBSET Ids) \ {{}}
  PROVE  \E id \in set : \A c \in Ids : parent[c] = <<id>> => c \notin set
<1> DEFINE last == Cardinality(Ids)
           heights == {last - Level(id) : id \in set}
<1>1. \A id \in set : id \in Ids /\ Level(id) \in 1 .. last /\ last \in Nat
  BY LevelFacts
<1> HIDE DEF last
<1>2. heights \in SUBSET Nat /\ heights # {}
  BY <1>1
<1>3. PICK h \in heights : \A k \in heights : h <= k
  <2> HIDE DEF heights
  <2>1. QED
    BY <1>2, HasLeast
<1>4. PICK id \in set : h = last - Level(id)
  BY <1>3
<1>5. ASSUME NEW c \in set, parent[c] = <<id>>
      PROVE  FALSE
  <2>1. c \in Ids /\ Level(c) = Level(id) + 1
    BY <1>1, <1>5, LevelFacts
  <2>2. last - Level(c) \in heights
    OBVIOUS
  <2>3. last - Level(id) <= last - Level(c)
    BY <1>3, <1>4, <2>2
  <2>4. QED
    BY <1>1, <2>1, <2>3
<1>6. QED
  BY <1>5

LEMMA RowsAreRecursive ==
  ASSUME LinkInv
  PROVE  \E f \in [Ids -> Seq(Row)] :
             \A id \in Ids : f[id] = RowsFrom(f, id) /\ Rows(id) = f[id]
<1> DEFINE last == Cardinality(Ids)
           State == [Ids -> Seq(Row)]
           Again(f) == [id \in Ids |-> RowsFrom(f, id)]
           none == [id \in Ids |-> <<>>]
           step == [x \in (1 .. last + 1) \X State |-> Again(x[2])]
<1>1. LinkTypes /\ LinksAgree /\ Forest
  BY DEF LinkInv
<1>2. last \in Nat /\ \A id \in Ids : Level(id) \in 1 .. last
  <2>1. IsFiniteSet(Ids)
    BY <1>1, IdsAreFinite DEF LinkTypes
  <2>2. QED
    BY <1>1, <2>1, FS_CardinalityType, LevelFacts
<1>3. ASSUME NEW f \in State
      PROVE  Again(f) \in State
  BY <1>1, RowsFromType
<1>4. none \in State
  OBVIOUS
<1>5. step \in [(1 .. last + 1) \X State -> State]
  <2> HIDE DEF State, Again
  <2>1. QED
    BY <1>3
<1>6. \A n \in 1 .. last + 1, f \in State : step[<<n, f>>] = Again(f)
  <2> HIDE DEF State, Again
  <2>1. QED
    OBVIOUS
<1> HIDE DEF State, Again, none, step, last
<1>7. last + 1 \in Nat
  BY <1>2
<1>8. PICK try \in [0 .. last + 1 -> State] : Follows(try, last + 1, none, step)
  BY <1>4, <1>5, <1>7, RecursionUpTo
<1>9. \A n \in 0 .. last : try[n] \in State /\ try[n + 1] = Again(try[n])
  <2>1. ASSUME NEW n \in 0 .. last
        PROVE  try[n] \in State /\ try[n + 1] = Again(try[n])
    <3>1. n \in 0 .. last + 1 /\ n + 1 \in 1 .. last + 1 /\ (n + 1) - 1 = n
      BY <1>2
    <3>2. try[n + 1] = step[<<n + 1, try[n]>>]
      BY <1>8, <3>1 DEF Follows
    <3>3. QED
      BY <1>6, <1>8, <3>1, <3>2
  <2>2. QED
    BY <2>1
(* What lies n levels from the bottom is settled after n rounds. *)
<1> DEFINE Settled(n) == \A id \in Ids : Level(id) > last - n => try[n][id] = try[n + 1][id]
           settled == {n \in 0 .. last : Settled(n)}
<1>10. 0 \in settled
  BY <1>2
<1>11. ASSUME NEW n \in 0 .. last, n \in settled /\ n < last
       PROVE  n + 1 \in settled
  <2>1. n + 1 \in 0 .. last /\ Settled(n)
    BY <1>2, <1>11
  <2>2. ASSUME NEW id \in Ids, Level(id) > last - (n + 1)
        PROVE  try[n + 1][id] = try[(n + 1) + 1][id]
    <3>1. /\ try[n] \in State /\ try[n + 1] = Again(try[n])
          /\ try[n + 1] \in State /\ try[(n + 1) + 1] = Again(try[n + 1])
      BY <1>9, <2>1
    <3>2. \A c \in Ids : parent[c] = <<id>> => try[n][c] = try[n + 1][c]
      <4>1. ASSUME NEW c \in Ids, parent[c] = <<id>>
            PROVE  try[n][c] = try[n + 1][c]
        <5>1. Level(c) = Level(id) + 1
          BY <1>1, <4>1, LevelFacts
        <5>2. Level(c) > last - n
          BY <1>2, <2>2, <5>1
        <5>3. QED
          BY <2>1, <5>2
      <4>2. QED
        BY <4>1
    <3>3. \A k \in DOMAIN Sorted(id) : Sorted(id)[k] \in Ids /\ parent[Sorted(id)[k]] = <<id>>
      BY <1>1, SortedChildren DEF Range
    <3>4. RowsOfChildren(try[n], id) = RowsOfChildren(try[n + 1], id)
      BY <3>2, <3>3 DEF RowsOfChildren
    <3>5. RowsFrom(try[n], id) = RowsFrom(try[n + 1], id)
      BY <3>4 DEF RowsFrom
    <3>6. Again(try[n])[id] = RowsFrom(try[n], id) /\ Again(try[n + 1])[id] = RowsFrom(try[n + 1], id)
      BY DEF Again
    <3>7. QED
      BY <3>1, <3>5, <3>6
  <2>3. QED
    BY <2>1, <2>2
<1>12. \A n \in 0 .. last : n \in settled
  <2> HIDE DEF settled
  <2>1. QED
    BY <1>2, <1>10, <1>11, InductionUpTo
<1> DEFINE f == try[last]
<1>13. f \in State /\ f = Again(f)
  <2>1. last \in 0 .. last /\ last - last = 0
    BY <1>2
  <2>2. f \in State /\ try[last + 1] = Again(f) /\ try[last + 1] \in State
    <3>1. last + 1 \in 0 .. last + 1
      BY <1>2
    <3>2. QED
      BY <1>8, <1>9, <2>1, <3>1
  <2>3. Settled(last)
    BY <1>12, <2>1
  <2>4. \A id \in Ids : f[id] = try[last + 1][id]
    BY <1>2, <2>1, <2>3
  <2> HIDE DEF f
  <2>5. f = try[last + 1]
    BY <2>2, <2>4 DEF State
  <2>6. QED
    BY <2>2, <2>5
<1> HIDE DEF f
<1> DEFINE flatten == CHOOSE g : g = [id \in Ids |-> RowsFrom(g, id)]
<1>14. \A id \in Ids : Rows(id) = flatten[id]
  BY DEF Rows, RowsFrom, RowsOfChildren, OwnRows, Sorted, StableSort
<1>15. flatten = [id \in Ids |-> RowsFrom(flatten, id)]
  BY <1>13 DEF Again
<1> HIDE DEF flatten
<1>16. \A id \in Ids : flatten[id] = RowsFrom(flatten, id)
  <2>1. ASSUME NEW id \in Ids
        PROVE  flatten[id] = RowsFrom(flatten, id)
    <3> DEFINE g == [x \in Ids |-> RowsFrom(flatten, x)]
    <3>1. g[id] = RowsFrom(flatten, id)
      OBVIOUS
    <3>2. QED
      BY <1>15, <3>1
  <2>2. QED
    BY <2>1
<1>17. \A id \in Ids : f[id] = RowsFrom(f, id)
  <2>1. ASSUME NEW id \in Ids
        PROVE  f[id] = RowsFrom(f, id)
    <3>1. Again(f)[id] = RowsFrom(f, id)
      BY DEF Again
    <3>2. QED
      BY <1>13, <3>1
  <2>2. QED
    BY <2>1
<1>18. \A id \in Ids : flatten[id] = f[id]
  <2> DEFINE wrong == {id \in Ids : flatten[id] # f[id]}
  <2>1. SUFFICES ASSUME wrong # {}
                 PROVE  FALSE
    OBVIOUS
  <2>2. wrong \in (SUBSET Ids) \ {{}}
    BY <2>1
  <2>3. PICK id \in wrong : \A c \in Ids : parent[c] = <<id>> => c \notin wrong
    <3> HIDE DEF wrong
    <3>1. QED
      BY <1>1, <2>2, OneHasNoChildIn
  <2>4. \A k \in DOMAIN Sorted(id) : Sorted(id)[k] \in Ids /\ parent[Sorted(id)[k]] = <<id>>
    BY <1>1, SortedChildren DEF Range
  <2>5. \A k \in DOMAIN Sorted(id) : flatten[Sorted(id)[k]] = f[Sorted(id)[k]]
    BY <2>3, <2>4
  <2>6. RowsOfChildren(flatten, id) = RowsOfChildren(f, id)
    BY <2>5 DEF RowsOfChildren
  <2>7. RowsFrom(flatten, id) = RowsFrom(f, id)
    BY <2>6 DEF RowsFrom
  <2>8. f[id] = RowsFrom(f, id)
    BY <1>17
  <2>9. QED
    BY <1>16, <2>7, <2>8
<1>19. QED
  BY <1>13, <1>14, <1>17, <1>18 DEF State
-----------------------------------------------------------------------------
(* What the rows of a container are to be: one for each message at it or   *)
(* below it, indented by the messages on the way down.                     *)
Between(x, id) == {a \in Above(x) \ {x} : entry[a] # <<>> /\ id \in Above(a)}

RowOf(x, id) == <<entry[x][1], Cardinality(Between(x, id))>>

MessagesBelow(id) == {x \in Ids : id \in Above(x) /\ entry[x] # <<>>}

RowsBelow(id) == {RowOf(x, id) : x \in MessagesBelow(id)}

LEMMA RowOfType ==
  ASSUME LinkTypes, NEW id \in Ids, NEW x \in MessagesBelow(id)
  PROVE  RowOf(x, id) \in Row /\ RowOf(x, id)[1] = entry[x][1]
<1>1. IsFiniteSet(Ids)
  BY IdsAreFinite DEF LinkTypes
<1>2. x \in Ids /\ entry[x] # <<>>
  BY DEF MessagesBelow
<1>3. Above(x) \in SUBSET Ids
  BY <1>2, AboveFacts
<1>4. Between(x, id) \in SUBSET Ids
  BY <1>3 DEF Between
<1>5. Cardinality(Between(x, id)) \in Nat
  BY <1>1, <1>4, FS_Subset, FS_CardinalityType
<1>6. entry[x][1] \in Nat
  BY <1>2 DEF LinkTypes
<1>7. QED
  BY <1>5, <1>6 DEF RowOf, Row

(* Rows of different containers are of different messages.                 *)
LEMMA DifferentMessages ==
  ASSUME LinkTypes, ClaimInv, NEW x \in Ids, NEW y \in Ids,
         entry[x] # <<>>, entry[y] # <<>>, entry[x][1] = entry[y][1]
  PROVE  x = y
<1>1. entry[x] = entry[y]
  BY DEF LinkTypes
<1>2. QED
  BY <1>1 DEF ClaimInv

(* One level down: the way from a child is a way from its parent, with the *)
(* parent's own message added.                                             *)
LEMMA RowsOneLevelDown ==
  ASSUME LinkTypes, Forest, NEW id \in Ids
  PROVE  RowsBelow(id) =
             (IF entry[id] = <<>> THEN {} ELSE { <<entry[id][1], 0>> }) \cup
             {<<r[1], r[2] + Indent(id)>> :
                 r \in UNION {RowsBelow(c) : c \in {d \in Ids : parent[d] = <<id>>}}}
<1> DEFINE own == IF entry[id] = <<>> THEN {} ELSE { <<entry[id][1], 0>> }
           kids == {d \in Ids : parent[d] = <<id>>}
           down == UNION {RowsBelow(c) : c \in kids}
           moved == {<<r[1], r[2] + Indent(id)>> : r \in down}
<1>1. IsFiniteSet(Ids)
  BY IdsAreFinite DEF LinkTypes
<1>2. id \in Above(id)
  BY AboveFacts
<1>3. entry[id] # <<>> => RowOf(id, id) = <<entry[id][1], 0>>
  <2>1. \A a \in Above(id) : id \in Above(a) => a = id
    BY EitherIsAbove
  <2>2. Between(id, id) = {}
    BY <2>1 DEF Between
  <2>3. QED
    BY <2>2, FS_EmptySet DEF RowOf
<1>4. ASSUME NEW x \in Ids, NEW c \in kids, c \in Above(x), entry[x] # <<>>
      PROVE  /\ id \in Above(x) /\ x # id
             /\ RowOf(x, id) = <<RowOf(x, c)[1], RowOf(x, c)[2] + Indent(id)>>
  <2>1. c \in Ids /\ parent[c] = <<id>> /\ parent[c] # <<>> /\ parent[c][1] = id
    OBVIOUS
  <2>2. Above(c) = {c} \cup Above(id) /\ c \notin Above(id) /\ Above(c) \subseteq Above(x)
    BY <1>4, <2>1, AboveFacts, NotAboveItsParent
  <2>3. id \in Above(x) /\ x # id
    BY <1>2, <1>4, <2>2
  <2>4. ASSUME NEW a \in Above(x)
        PROVE  id \in Above(a) <=> a = id \/ c \in Above(a)
    <3>1. a \in Ids /\ Above(a) \subseteq Above(x) /\ Above(x) \in SUBSET Ids
      BY AboveFacts
    <3>2. ASSUME c \in Above(a)
          PROVE  id \in Above(a)
      <4>1. Above(c) \subseteq Above(a)
        BY <3>1, <3>2, AboveFacts
      <4>2. QED
        BY <1>2, <2>2, <4>1
    <3>3. ASSUME id \in Above(a), a # id
          PROVE  c \in Above(a)
      <4>1. PICK d \in Ids : ChildTowards(id, a, d)
        BY <3>1, <3>3, OneChildTowards
      <4>2. ChildTowards(id, x, d) /\ ChildTowards(id, x, c)
        BY <1>4, <2>1, <3>1, <4>1 DEF ChildTowards
      <4>3. d = c
        BY <2>1, <2>3, <4>2, OneChildTowards
      <4>4. QED
        BY <4>1, <4>3 DEF ChildTowards
    <3>4. QED
      BY <1>2, <3>2, <3>3
  <2>5. Between(x, c) \in SUBSET Ids /\ IsFiniteSet(Between(x, c)) /\ id \notin Between(x, c)
    <3>1. Between(x, c) \in SUBSET Ids
      BY AboveFacts DEF Between
    <3>2. id \notin Between(x, c)
      BY <2>2 DEF Between
    <3>3. QED
      BY <1>1, <3>1, <3>2, FS_Subset
  <2>6. CASE entry[id] = <<>>
    <3>1. Between(x, id) = Between(x, c)
      BY <2>4, <2>6 DEF Between
    <3>2. Cardinality(Between(x, c)) \in Nat /\ Indent(id) = 0
      BY <2>5, <2>6, FS_CardinalityType DEF Indent
    <3>3. QED
      BY <2>3, <3>1, <3>2 DEF RowOf
  <2>7. CASE entry[id] # <<>>
    <3>1. Between(x, id) = Between(x, c) \cup {id}
      BY <2>3, <2>4, <2>7 DEF Between
    <3>2. Cardinality(Between(x, id)) = Cardinality(Between(x, c)) + 1
      BY <2>5, <3>1, FS_AddElement
    <3>3. QED
      BY <2>3, <2>7, <3>2 DEF RowOf, Indent
  <2>8. QED
    BY <2>6, <2>7
<1>5. ASSUME NEW x \in MessagesBelow(id)
      PROVE  RowOf(x, id) \in own \cup moved
  <2>1. x \in Ids /\ id \in Above(x) /\ entry[x] # <<>>
    BY DEF MessagesBelow
  <2>2. CASE x = id
    BY <1>3, <2>1, <2>2
  <2>3. CASE x # id
    <3>1. PICK c \in Ids : ChildTowards(id, x, c)
      BY <2>1, <2>3, OneChildTowards
    <3>2. c \in kids /\ c \in Above(x)
      BY <3>1 DEF ChildTowards
    <3>3. RowOf(x, c) \in RowsBelow(c)
      BY <2>1, <3>2 DEF RowsBelow, MessagesBelow
    <3>4. RowOf(x, c) \in down
      BY <3>2, <3>3
    <3>5. RowOf(x, id) = <<RowOf(x, c)[1], RowOf(x, c)[2] + Indent(id)>>
      BY <1>4, <2>1, <3>2
    <3> HIDE DEF down
    <3>6. QED
      BY <3>4, <3>5
  <2>4. QED
    BY <2>2, <2>3
<1>6. own \subseteq RowsBelow(id)
  BY <1>2, <1>3 DEF RowsBelow, MessagesBelow
<1>7. ASSUME NEW r \in down
      PROVE  <<r[1], r[2] + Indent(id)>> \in RowsBelow(id)
  <2>1. PICK c \in kids : r \in RowsBelow(c)
    OBVIOUS
  <2>2. PICK x \in MessagesBelow(c) : r = RowOf(x, c)
    BY <2>1 DEF RowsBelow
  <2>3. x \in Ids /\ c \in Above(x) /\ entry[x] # <<>>
    BY <2>2 DEF MessagesBelow
  <2>4. x \in MessagesBelow(id) /\ RowOf(x, id) = <<r[1], r[2] + Indent(id)>>
    BY <1>4, <2>2, <2>3 DEF MessagesBelow
  <2>5. QED
    BY <2>4 DEF RowsBelow
<1>8. RowsBelow(id) \subseteq own \cup moved
  <2> HIDE DEF own, moved
  <2>1. QED
    BY <1>5 DEF RowsBelow
<1>9. moved \subseteq RowsBelow(id)
  <2> HIDE DEF down
  <2>1. QED
    BY <1>7
<1>10. QED
  BY <1>6, <1>8, <1>9

(* Rows below different children are of different messages, and so are a   *)
(* container's own and those below it.                                     *)
LEMMA SiblingsApart ==
  ASSUME LinkTypes, Forest, ClaimInv, NEW id \in Ids, NEW c \in Ids, NEW d \in Ids,
         parent[c] = <<id>>, parent[d] = <<id>>, c # d
  PROVE  Apart(RowsBelow(c), RowsBelow(d))
<1>1. SUFFICES ASSUME NEW r \in RowsBelow(c), NEW q \in RowsBelow(d), r[1] = q[1]
               PROVE  FALSE
  BY DEF Apart
<1>2. PICK x \in MessagesBelow(c), y \in MessagesBelow(d) : r = RowOf(x, c) /\ q = RowOf(y, d)
  BY DEF RowsBelow
<1>3. x \in Ids /\ c \in Above(x) /\ y \in Ids /\ d \in Above(y)
  BY <1>2 DEF MessagesBelow
<1>4. x = y
  BY <1>1, <1>2, <1>3, DifferentMessages DEF RowOf, MessagesBelow
<1>5. ChildTowards(id, x, c) /\ ChildTowards(id, x, d)
  BY <1>3, <1>4 DEF ChildTowards
<1>6. id \in Above(x) /\ x # id
  <2>1. parent[c] # <<>> /\ parent[c][1] = id
    OBVIOUS
  <2>2. Above(c) = {c} \cup Above(id) /\ c \notin Above(id) /\ Above(c) \subseteq Above(x)
    BY <1>3, <2>1, AboveFacts, NotAboveItsParent
  <2>3. QED
    BY <1>3, <2>2, AboveFacts
<1>7. QED
  BY <1>3, <1>5, <1>6, OneChildTowards

LEMMA OwnRowApart ==
  ASSUME LinkTypes, Forest, ClaimInv, NEW id \in Ids, NEW c \in Ids,
         parent[c] = <<id>>, entry[id] # <<>>, NEW r \in RowsBelow(c)
  PROVE  r[1] # entry[id][1]
<1>1. PICK x \in MessagesBelow(c) : r = RowOf(x, c)
  BY DEF RowsBelow
<1>2. x \in Ids /\ c \in Above(x) /\ entry[x] # <<>> /\ r[1] = entry[x][1]
  BY <1>1 DEF MessagesBelow, RowOf
<1>3. c \notin Above(id)
  <2>1. parent[c] # <<>> /\ parent[c][1] = id
    OBVIOUS
  <2>2. QED
    BY <2>1, NotAboveItsParent
<1>4. QED
  BY <1>2, <1>3, DifferentMessages
-----------------------------------------------------------------------------
LEMMA IndentedLists ==
  ASSUME NEW list, NEW rows, Lists(list, rows), NEW by \in Nat
  PROVE  Lists(Indented(list, by), {<<r[1], r[2] + by>> : r \in rows})
<1> DEFINE t == Indented(list, by)
<1>1. list \in Seq(Row) /\ t \in Seq(Row) /\ DOMAIN t = DOMAIN list
  BY IndentedType DEF Lists, Indented
<1>2. \A n \in DOMAIN list : t[n] = <<list[n][1], list[n][2] + by>> /\ t[n][1] = list[n][1]
  BY DEF Indented
<1> HIDE DEF t
<1>3. Range(t) = {<<r[1], r[2] + by>> : r \in rows}
  <2>1. \A n \in DOMAIN list : list[n] \in rows
    BY DEF Lists, Range
  <2>2. \A r \in rows : \E n \in DOMAIN list : list[n] = r
    BY DEF Lists, Range
  <2>3. ASSUME NEW x \in Range(t)
        PROVE  \E r \in rows : x = <<r[1], r[2] + by>>
    <3>1. PICK n \in DOMAIN list : t[n] = x
      BY <1>1 DEF Range
    <3>2. QED
      BY <1>2, <2>1, <3>1
  <2>4. ASSUME NEW r \in rows
        PROVE  <<r[1], r[2] + by>> \in Range(t)
    <3>1. PICK n \in DOMAIN list : list[n] = r
      BY <2>2
    <3>2. n \in DOMAIN t /\ t[n] = <<r[1], r[2] + by>>
      BY <1>1, <1>2, <3>1
    <3>3. QED
      BY <3>2 DEF Range
  <2>5. QED
    BY <2>3, <2>4
<1>4. QED
  BY <1>1, <1>2, <1>3 DEF Lists, t

LEMMA OwnRowsList ==
  ASSUME LinkTypes, NEW id \in Ids
  PROVE  Lists(OwnRows(id), IF entry[id] = <<>> THEN {} ELSE { <<entry[id][1], 0>> })
<1>1. OwnRows(id) \in Seq(Row)
  BY OwnRowsType
<1>2. CASE entry[id] = <<>>
  BY <1>2, ListsNothing DEF OwnRows
<1>3. CASE entry[id] # <<>>
  <2> DEFINE row == <<entry[id][1], 0>>
  <2>1. OwnRows(id) = <<row>> /\ DOMAIN <<row>> = {1} /\ <<row>>[1] = row
    BY <1>3 DEF OwnRows
  <2> HIDE DEF row
  <2>2. Range(<<row>>) = {row}
    BY <2>1 DEF Range
  <2>3. Lists(<<row>>, {row})
    BY <1>1, <2>1, <2>2 DEF Lists
  <2>4. QED
    BY <1>3, <2>1, <2>3 DEF row
<1>4. QED
  BY <1>2, <1>3

(* flatten shows the messages at and below a container, each once and      *)
(* indented by those above it.                                             *)
LEMMA RowsListTheTree ==
  ASSUME LinkInv, ClaimInv
  PROVE  \A id \in Ids : Lists(Rows(id), RowsBelow(id))
<1>1. LinkTypes /\ LinksAgree /\ Forest
  BY DEF LinkInv
<1>2. PICK f \in [Ids -> Seq(Row)] :
          \A id \in Ids : f[id] = RowsFrom(f, id) /\ Rows(id) = f[id]
  BY RowsAreRecursive
<1> DEFINE wrong == {id \in Ids : ~Lists(f[id], RowsBelow(id))}
<1>3. SUFFICES ASSUME wrong # {}
               PROVE  FALSE
  BY <1>2
<1>4. wrong \in (SUBSET Ids) \ {{}}
  BY <1>3
<1>5. PICK id \in wrong : \A c \in Ids : parent[c] = <<id>> => c \notin wrong
  <2> HIDE DEF wrong
  <2>1. QED
    BY <1>1, <1>4, OneHasNoChildIn
<1>6. id \in Ids /\ ~Lists(f[id], RowsBelow(id))
  OBVIOUS
<1>7. \A c \in Ids : parent[c] = <<id>> => Lists(f[c], RowsBelow(c))
  BY <1>5
<1> HIDE DEF wrong
<1> DEFINE sorted == Sorted(id)
           seqs == RowsOfChildren(f, id)
           rows == [n \in DOMAIN sorted |-> RowsBelow(sorted[n])]
           own == IF entry[id] = <<>> THEN {} ELSE { <<entry[id][1], 0>> }
           down == UNION {rows[n] : n \in 1 .. Len(seqs)}
           moved == {<<r[1], r[2] + Indent(id)>> : r \in down}
<1>8. /\ sorted \in Seq(Ids) /\ IsInjective(sorted)
      /\ \A c \in Ids : c \in Range(sorted) <=> parent[c] = <<id>>
  BY <1>1, <1>6, SortedChildren
<1> HIDE DEF sorted
<1>9. \A n \in DOMAIN sorted : sorted[n] \in Ids /\ parent[sorted[n]] = <<id>>
  BY <1>8 DEF Range
<1>10. seqs \in Seq(Seq(Row)) /\ DOMAIN seqs = DOMAIN sorted
       /\ \A n \in DOMAIN sorted : seqs[n] = f[sorted[n]]
  BY <1>1, <1>6, RowsFromType DEF RowsOfChildren, sorted
<1>11. DOMAIN sorted = 1 .. Len(seqs)
  <2> HIDE DEF seqs
  <2> DEFINE State == Seq(Row)
  <2>1. seqs \in Seq(State)
    BY <1>10
  <2> HIDE DEF State
  <2>2. QED
    BY <1>10, <2>1
<1> HIDE DEF seqs
<1>12. \A n \in 1 .. Len(seqs) : Lists(seqs[n], rows[n])
  BY <1>7, <1>9, <1>10, <1>11
<1>13. \A m, n \in 1 .. Len(seqs) : m # n => Apart(rows[m], rows[n])
  <2>1. ASSUME NEW m \in DOMAIN sorted, NEW n \in DOMAIN sorted, m # n
        PROVE  Apart(rows[m], rows[n])
    <3>1. sorted[m] # sorted[n]
      BY <1>8, <2>1 DEF IsInjective
    <3>2. QED
      BY <1>1, <1>6, <1>9, <3>1, SiblingsApart
  <2>2. QED
    BY <1>11, <2>1
<1>14. Lists(FlattenSeq(seqs), down)
  <2>1. \A r : r \in down <=> \E n \in 1 .. Len(seqs) : r \in rows[n]
    OBVIOUS
  <2> HIDE DEF rows, down
  <2>2. QED
    BY <1>10, <1>12, <1>13, <2>1, FlattenLists
<1>15. down = UNION {RowsBelow(c) : c \in {d \in Ids : parent[d] = <<id>>}}
  <2> DEFINE kids == {d \in Ids : parent[d] = <<id>>}
  <2>1. kids = {sorted[n] : n \in DOMAIN sorted}
    BY <1>8, <1>9 DEF Range
  <2>2. ASSUME NEW r \in down
        PROVE  r \in UNION {RowsBelow(c) : c \in kids}
    BY <1>11, <2>1
  <2>3. ASSUME NEW c \in kids, NEW r \in RowsBelow(c)
        PROVE  r \in down
    <3>1. PICK n \in DOMAIN sorted : c = sorted[n]
      BY <2>1
    <3>2. r \in rows[n] /\ n \in 1 .. Len(seqs)
      BY <1>11, <2>3, <3>1
    <3>3. QED
      BY <3>2
  <2>4. QED
    BY <2>2, <2>3
<1>16. Lists(Indented(FlattenSeq(seqs), Indent(id)), moved)
  <2> HIDE DEF down
  <2>1. QED
    BY <1>1, <1>6, <1>14, OwnRowsType, IndentedLists
<1>17. Lists(OwnRows(id), own)
  BY <1>1, <1>6, OwnRowsList
<1>18. RowsBelow(id) = own \cup moved
  BY <1>1, <1>6, <1>15, RowsOneLevelDown
<1>19. Apart(own, moved)
  <2>1. ASSUME entry[id] # <<>>, NEW r \in down
        PROVE  r[1] # entry[id][1]
    <3>1. PICK c \in Ids : parent[c] = <<id>> /\ r \in RowsBelow(c)
      BY <1>15
    <3>2. QED
      BY <1>1, <1>6, <2>1, <3>1, OwnRowApart
  <2> HIDE DEF down
  <2>2. \A q \in moved : entry[id] # <<>> => q[1] # entry[id][1]
    BY <2>1
  <2>3. \A r \in own : entry[id] # <<>> /\ r[1] = entry[id][1]
    OBVIOUS
  <2> HIDE DEF own, moved
  <2>4. QED
    BY <2>2, <2>3 DEF Apart
<1>20. Lists(OwnRows(id) \o Indented(FlattenSeq(seqs), Indent(id)), own \cup moved)
  <2> HIDE DEF own, moved
  <2>1. QED
    BY <1>16, <1>17, <1>19, ListsConcat
<1>21. f[id] = OwnRows(id) \o Indented(FlattenSeq(seqs), Indent(id))
  BY <1>2, <1>6 DEF RowsFrom, seqs
<1> HIDE DEF own, moved
<1>22. QED
  BY <1>6, <1>18, <1>20, <1>21
-----------------------------------------------------------------------------
LEMMA TopicType ==
  ASSUME LinkTypes, NEW root \in Ids
  PROVE  TopicOf(root) \in Topics
<1> DEFINE list == children[root]
           with == {n \in 1 .. Len(list) : entry[list[n]] # <<>>}
           first == SelectInSeq(list, LAMBDA id : entry[id] # <<>>)
<1>1. ASSUME NEW id \in Ids, entry[id] # <<>>
      PROVE  mail[entry[id][1]].topic \in Topics
  <2>1. mail[entry[id][1]] \in Mail
    BY <1>1 DEF LinkTypes
  <2>2. QED
    BY <2>1 DEF Mail
<1>2. list \in Seq(Ids)
  BY DEF LinkTypes
<1>3. first = IF with # {} THEN Min(with) ELSE 0
  BY DEF SelectInSeq
<1>4. with # {} => Min(with) \in with
  <2>1. with \in SUBSET Nat /\ \A m, n \in with : m <= n => ~(n < m)
    OBVIOUS
  <2> HIDE DEF with
  <2>2. with # {} => \E i \in with : \A j \in with : i <= j
    BY <2>1, HasLeast
  <2>3. QED
    BY <2>2 DEF Min
<1>5. first # 0 => list[first] \in Ids /\ entry[list[first]] # <<>>
  <2>1. \A n \in with : list[n] \in Ids /\ entry[list[n]] # <<>>
    BY <1>2
  <2> HIDE DEF with, first
  <2>2. QED
    BY <1>3, <1>4, <2>1
<1>6. TopicOf(root) = IF entry[root] # <<>> THEN mail[entry[root][1]].topic
                      ELSE IF first # 0 THEN mail[entry[list[first]][1]].topic
                      ELSE NoSubject
  BY DEF TopicOf
<1> HIDE DEF first, list
<1>7. QED
  BY <1>1, <1>5, <1>6, ThreadingAssumption

(* Sorting rows by the date of their messages. *)
LEMMA RowsByDateList ==
  ASSUME LinkTypes, NEW list, NEW rows, Lists(list, rows),
         \A r \in rows : r[1] \in DOMAIN mail
  PROVE  Lists(RowsByDate(list), rows)
<1> DEFINE last == Len(list)
           key == [n \in 1 .. last |-> mail[list[n][1]].date]
           before == KeyRanking(key, last)
           Place(j) == Cardinality({i \in DOMAIN list \ {j} :
                          \/ mail[list[i][1]].date < mail[list[j][1]].date
                          \/ ~(mail[list[j][1]].date < mail[list[i][1]].date) /\ i < j}) + 1
<1>1. list \in Seq(Row) /\ DOMAIN list = 1 .. last /\ last \in Nat
  BY DEF Lists
<1>2. RowsByDate(list) = [n \in DOMAIN list |-> list[CHOOSE j \in DOMAIN list : Place(j) = n]]
  BY DEF RowsByDate, StableSort
<1>3. key \in [1 .. last -> Nat]
  <2>1. ASSUME NEW n \in 1 .. last
        PROVE  mail[list[n][1]].date \in Nat
    <3>1. list[n] \in rows
      BY <1>1 DEF Lists, Range
    <3>2. mail[list[n][1]] \in Mail
      BY <3>1 DEF LinkTypes
    <3>3. QED
      BY <3>2 DEF Mail
  <2>2. QED
    BY <2>1
<1>4. \A j \in 1 .. last : Place(j) = PlaceIn(before, j)
  <2>1. ASSUME NEW j \in 1 .. last
        PROVE  {i \in DOMAIN list \ {j} :
                    \/ mail[list[i][1]].date < mail[list[j][1]].date
                    \/ ~(mail[list[j][1]].date < mail[list[i][1]].date) /\ i < j} = before[j]
    <3>1. \A i \in 1 .. last : key[i] = mail[list[i][1]].date
      OBVIOUS
    <3>2. before[j] = {i \in (1 .. last) \ {j} :
                          \/ key[i] < key[j]
                          \/ ~(key[j] < key[i]) /\ i < j}
      BY DEF KeyRanking
    <3> HIDE DEF before, key
    <3>3. QED
      BY <1>1, <3>1, <3>2
  <2>2. QED
    BY <2>1 DEF PlaceIn
<1> HIDE DEF Place, key
<1>5. ASSUME NEW n \in 1 .. last, \E j \in 1 .. last : PlaceIn(before, j) = n
      PROVE  \E j \in 1 .. last : PlaceIn(before, j) = n /\ RowsByDate(list)[n] = list[j]
  <2> DEFINE j == CHOOSE k \in DOMAIN list : Place(k) = n
  <2>1. \E k \in DOMAIN list : Place(k) = n
    BY <1>1, <1>4, <1>5
  <2>2. j \in DOMAIN list /\ Place(j) = n
    BY <2>1
  <2>3. RowsByDate(list)[n] = list[j]
    BY <1>1, <1>2
  <2> HIDE DEF j
  <2>4. QED
    BY <1>1, <1>4, <2>2, <2>3
<1> DEFINE sorted == RowsByDate(list)
<1>6. DOMAIN sorted = DOMAIN list /\ sorted = [n \in DOMAIN list |-> sorted[n]]
  BY <1>2
<1> HIDE DEF sorted
<1>7. Rearranges(sorted, list)
  BY <1>1, <1>3, <1>5, <1>6, SortByPlace DEF sorted
<1>8. sorted \in Seq(Row) /\ Range(sorted) = Range(list)
  BY <1>1, <1>6, <1>7, RearrangedFacts
<1>9. ASSUME NEW m \in DOMAIN sorted, NEW n \in DOMAIN sorted, sorted[m][1] = sorted[n][1]
      PROVE  m = n
  <2>1. PICK place \in Bijection(DOMAIN list, DOMAIN list) :
            \A j \in DOMAIN list : sorted[place[j]] = list[j]
    BY <1>7 DEF Rearranges
  <2>2. PICK i \in DOMAIN list, j \in DOMAIN list : place[i] = m /\ place[j] = n
    BY <1>6, <2>1 DEF Bijection, Surjection
  <2>3. list[i][1] = list[j][1]
    BY <1>9, <2>1, <2>2
  <2>4. i = j
    BY <2>3 DEF Lists
  <2>5. QED
    BY <2>2, <2>4
<1>10. QED
  BY <1>8, <1>9 DEF Lists, sorted

(* Different trees show different messages. *)
LEMMA TreesApart ==
  ASSUME LinkTypes, Forest, ClaimInv, NEW p \in Ids, NEW q \in Ids,
         parent[p] = <<>>, parent[q] = <<>>, p # q
  PROVE  Apart(RowsBelow(p), RowsBelow(q))
<1>1. SUFFICES ASSUME NEW r \in RowsBelow(p), NEW s \in RowsBelow(q), r[1] = s[1]
               PROVE  FALSE
  BY DEF Apart
<1>2. PICK x \in MessagesBelow(p), y \in MessagesBelow(q) : r = RowOf(x, p) /\ s = RowOf(y, q)
  BY DEF RowsBelow
<1>3. x = y
  BY <1>1, <1>2, DifferentMessages DEF RowOf, MessagesBelow
<1>4. x \in Tree(p) /\ x \in Tree(q)
  BY <1>3 DEF Tree, MessagesBelow
<1>5. QED
  BY <1>4, RootFacts DEF Tree
-----------------------------------------------------------------------------
(* The rows that are in the groups, and those that are in the result.      *)
Tops == {id \in Ids : parent[id] = <<>>}

RowsUnder(set) == UNION {RowsBelow(root) : root \in set}

Grouped(topic) ==
    \A t \in Topics : Lists(groups[t], RowsUnder({root \in gathered : topic[root] = t}))

ResultInv ==
    /\ gathered \subseteq Tops
    /\ gathered # {} \/ done => Linked
    /\ groups \in [Topics -> Seq(Row)]
    /\ \E topic \in [gathered -> Topics] : Grouped(topic)
    /\ done \in BOOLEAN
    /\ threads \in Seq(Seq(Row))
    /\ Lists(Listed, IF done THEN RowsUnder(Tops) ELSE {})

RowsInv == LinkInv /\ ClaimInv /\ ResultInv

LEMMA ListedNothing == ASSUME threads = <<>> PROVE Listed = <<>>
  BY DEF Listed, FlattenSeq

LEMMA InitResultInv == ASSUME Init PROVE ResultInv
<1>1. RowsUnder({}) = {}
  BY DEF RowsUnder
<1>2. \A topic, t : {root \in gathered : topic[root] = t} = {}
  BY DEF Init
<1>3. \A topic : Grouped(topic)
  BY <1>1, <1>2, ListsNothing DEF Grouped, Init
<1>4. [root \in gathered |-> NoSubject] \in [gathered -> Topics]
  BY ThreadingAssumption
<1>5. Lists(Listed, {})
  BY ListedNothing, ListsNothing DEF Init
<1>6. groups \in [Topics -> Seq(Row)] /\ threads \in Seq(Seq(Row))
  BY DEF Init
<1>7. QED
  BY <1>3, <1>4, <1>5, <1>6 DEF Init, ResultInv

(* The steps that link come before any that groups. *)
LEMMA LinkingResultInv ==
  ASSUME LinkTypes, ResultInv, Claim \/ Link
  PROVE  ResultInv'
<1>1. ~Linked
  BY DEF Claim, Link, Linked, LinkTypes
<1>2. gathered = {} /\ ~done
  BY <1>1 DEF ResultInv
<1>3. UNCHANGED <<gathered, groups, threads, done>>
  BY DEF Claim, ClaimAs, Link
<1>4. PICK topic \in [gathered -> Topics] : Grouped(topic)
  BY DEF ResultInv
<1>5. \A t : {root \in gathered : topic[root] = t} = {} /\ {root \in gathered' : topic[root] = t} = {}
  BY <1>2, <1>3
<1>6. RowsUnder({}) = {} /\ RowsUnder({})' = {}
  BY DEF RowsUnder
<1>7. \A t \in Topics : Lists(groups[t], {})
  BY <1>4, <1>5, <1>6 DEF Grouped
<1>8. Grouped(topic)'
  <2>1. \A t \in Topics : Lists(groups'[t], {})
    BY <1>3, <1>7
  <2>2. \A t : RowsUnder({root \in gathered : topic[root] = t})' = {}
    BY <1>5 DEF RowsUnder
  <2>3. QED
    BY <2>1, <2>2 DEF Grouped, Lists
<1>9. Lists(Listed, {}) /\ Listed' = Listed
  BY <1>2, <1>3 DEF ResultInv, Listed
<1>10. (gathered \subseteq Tops)' /\ topic \in [gathered' -> Topics]
  BY <1>2, <1>3, <1>4
<1>11. QED
  BY <1>2, <1>3, <1>8, <1>9, <1>10 DEF ResultInv, Lists

(* After that the forest and its rows stay. *)
LEMMA RowsStay ==
  ASSUME UNCHANGED <<mail, taken, linkVars>>
  PROVE  /\ \A id \in Ids : RowsBelow(id)' = RowsBelow(id)
         /\ Tops' = Tops /\ Linked' = Linked /\ Ids' = Ids
<1>1. mail' = mail /\ entry' = entry /\ parent' = parent
  BY DEF linkVars
<1>2. Ids' = Ids /\ Tops' = Tops /\ Linked' = Linked
  BY <1>1 DEF Ids, Tops, Linked, ChainLinked, linkVars
<1>3. \A id \in Ids : RowsBelow(id)' = RowsBelow(id)
  BY <1>1, <1>2 DEF RowsBelow, RowOf, MessagesBelow, Between, Above, HasItsParents
<1>4. QED
  BY <1>2, <1>3

LEMMA GatherResultInv ==
  ASSUME RowsInv, Gather
  PROVE  ResultInv'
<1>1. LinkTypes /\ Forest /\ ClaimInv /\ ResultInv /\ LinkInv
  BY DEF RowsInv, LinkInv
<1>2. /\ \A id \in Ids : RowsBelow(id)' = RowsBelow(id)
      /\ Tops' = Tops /\ Linked' = Linked /\ Ids' = Ids
  BY RowsStay DEF Gather
<1>3. PICK root \in Roots \ gathered :
          /\ gathered' = gathered \cup {root}
          /\ groups' = [groups EXCEPT ![TopicOf(root)] = @ \o Rows(root)]
  BY DEF Gather
<1>4. root \in Tops /\ root \in Ids /\ root \notin gathered
  BY <1>3 DEF Roots, Tops
<1>5. PICK topic \in [gathered -> Topics] : Grouped(topic)
  BY <1>1 DEF ResultInv
<1>6. PICK its \in Topics : its = TopicOf(root)
  BY <1>1, <1>4, TopicType
<1> DEFINE all == gathered \cup {root}
<1>7. PICK after : after = [g \in all |-> IF g = root THEN its ELSE topic[g]]
  OBVIOUS
<1> DEFINE under(t) == {g \in gathered : topic[g] = t}
           underAfter(t) == {g \in all : after[g] = t}
<1>8. after \in [gathered' -> Topics] /\ gathered' \subseteq Tops /\ gathered \subseteq Tops
  BY <1>1, <1>3, <1>4, <1>5, <1>7 DEF ResultInv
<1>9. \A t \in Topics : underAfter(t) = IF t = its THEN under(t) \cup {root} ELSE under(t)
  BY <1>3, <1>4, <1>7
<1>10. Lists(Rows(root), RowsBelow(root))
  BY <1>1, <1>4, RowsListTheTree
<1>11. Lists(groups[its], RowsUnder(under(its)))
  BY <1>5, <1>6 DEF Grouped
<1>12. Apart(RowsUnder(under(its)), RowsBelow(root))
  <2>1. \A g \in under(its) : g \in Ids /\ g # root /\ parent[g] = <<>> /\ parent[root] = <<>>
    BY <1>4, <1>8 DEF Tops
  <2>2. \A g \in under(its) : Apart(RowsBelow(g), RowsBelow(root))
    BY <1>1, <1>4, <2>1, TreesApart
  <2> HIDE DEF under
  <2>3. QED
    BY <2>2 DEF Apart, RowsUnder
<1>13. Lists(groups[its] \o Rows(root), RowsUnder(under(its)) \cup RowsBelow(root))
  BY <1>10, <1>11, <1>12, ListsConcat
<1>14. groups \in [Topics -> Seq(Row)] /\ Rows(root) \in Seq(Row)
  BY <1>1, <1>10 DEF ResultInv, Lists
<1>15. \A t \in Topics : groups'[t] = IF t = its THEN groups[its] \o Rows(root) ELSE groups[t]
  BY <1>3, <1>6, <1>14
<1>16. groups' \in [Topics -> Seq(Row)]
  <2>1. groups[its] \o Rows(root) \in Seq(Row)
    BY <1>6, <1>14
  <2>2. QED
    BY <1>3, <1>6, <1>14, <2>1
<1>17. ASSUME NEW t \in Topics
       PROVE  Lists(groups'[t], RowsUnder(underAfter(t)))
  <2>1. CASE t = its
    <3>1. RowsUnder(underAfter(t)) = RowsUnder(under(its)) \cup RowsBelow(root)
      <4>1. underAfter(t) = under(its) \cup {root}
        BY <1>9, <2>1
      <4> HIDE DEF under, underAfter
      <4>2. QED
        BY <4>1 DEF RowsUnder
    <3>2. QED
      BY <1>13, <1>15, <2>1, <3>1
  <2>2. CASE t # its
    <3>1. underAfter(t) = under(t) /\ groups'[t] = groups[t]
      BY <1>9, <1>15, <2>2
    <3>2. Lists(groups[t], RowsUnder(under(t)))
      BY <1>5 DEF Grouped
    <3> HIDE DEF under, underAfter
    <3>3. QED
      BY <3>1, <3>2
  <2>3. QED
    BY <2>1, <2>2
<1>18. Grouped(after)'
  <2>1. ASSUME NEW t \in Topics
        PROVE  RowsUnder({g \in gathered : after[g] = t})' = RowsUnder(underAfter(t))
    <3>1. \A g \in underAfter(t) : g \in gathered' /\ RowsBelow(g)' = RowsBelow(g)
      BY <1>2, <1>3, <1>8 DEF Tops
    <3>2. {g \in gathered' : after[g] = t} = underAfter(t)
      BY <1>3
    <3> HIDE DEF underAfter
    <3>3. QED
      BY <3>1, <3>2 DEF RowsUnder
  <2>2. QED
    BY <1>17, <2>1 DEF Grouped, Lists
<1>19. Linked' /\ done' = done /\ ~done /\ threads' = threads /\ Listed' = Listed
  BY <1>2 DEF Gather, Listed
<1>20. Lists(Listed, {})' /\ threads' \in Seq(Seq(Row))
  <2>1. Lists(Listed, {}) /\ threads \in Seq(Seq(Row))
    BY <1>1, <1>19 DEF ResultInv
  <2>2. QED
    BY <1>19, <2>1 DEF Lists
<1>21. done' = FALSE
  BY <1>1, <1>19 DEF ResultInv
<1>22. Lists(Listed, IF done THEN RowsUnder(Tops) ELSE {})'
  BY <1>20, <1>21 DEF Lists
<1>23. (\E topics \in [gathered -> Topics] : Grouped(topics))'
  BY <1>8, <1>18
<1>24. QED
  BY <1>2, <1>8, <1>16, <1>19, <1>20, <1>21, <1>22, <1>23 DEF ResultInv
-----------------------------------------------------------------------------
(* A message that a row is of, and the container that has it. *)
LEMMA RowsAreOfMessages ==
  ASSUME LinkTypes, NEW set \in SUBSET Ids, NEW r \in RowsUnder(set)
  PROVE  \E root \in set, x \in Ids :
             /\ root \in Above(x) /\ entry[x] = <<r[1]>> /\ r[1] \in DOMAIN mail
             /\ r = RowOf(x, root)
<1>1. PICK root \in set : r \in RowsBelow(root)
  BY DEF RowsUnder
<1>2. PICK x \in MessagesBelow(root) : r = RowOf(x, root)
  BY <1>1 DEF RowsBelow
<1>3. x \in Ids /\ root \in Above(x) /\ entry[x] # <<>> /\ r[1] = entry[x][1]
  BY <1>2 DEF MessagesBelow, RowOf
<1>4. entry[x] = <<r[1]>> /\ r[1] \in DOMAIN mail
  BY <1>3 DEF LinkTypes
<1>5. QED
  BY <1>2, <1>3, <1>4

LEMMA GroupsApart ==
  ASSUME LinkTypes, Forest, ClaimInv, NEW set \in SUBSET Tops, NEW others \in SUBSET Tops,
         set \cap others = {}
  PROVE  Apart(RowsUnder(set), RowsUnder(others))
<1>1. \A p \in set, q \in others : /\ p \in Ids /\ q \in Ids /\ p # q
                                   /\ parent[p] = <<>> /\ parent[q] = <<>>
  BY DEF Tops
<1>2. \A p \in set, q \in others : Apart(RowsBelow(p), RowsBelow(q))
  BY <1>1, TreesApart
<1>3. QED
  BY <1>2 DEF Apart, RowsUnder

LEMMA FinishResultInv ==
  ASSUME RowsInv, Finish
  PROVE  ResultInv'
<1>1. LinkTypes /\ Forest /\ ClaimInv /\ ResultInv /\ LinkInv
  BY DEF RowsInv, LinkInv
<1>2. /\ \A id \in Ids : RowsBelow(id)' = RowsBelow(id)
      /\ Tops' = Tops /\ Linked' = Linked /\ Ids' = Ids /\ Tops \in SUBSET Ids
  BY RowsStay DEF Finish, Tops
<1>3. PICK topic \in [gathered -> Topics] : Grouped(topic)
  BY <1>1 DEF ResultInv
<1> DEFINE set == {RowsByDate(groups[t]) : t \in Topics} \ {<<>>}
           under(t) == {g \in gathered : topic[g] = t}
<1>4. PICK list \in SetToSeqs(set) : threads' = list
  BY DEF Finish
<1>5. \A t \in Topics : under(t) \in SUBSET Tops /\ under(t) \in SUBSET Ids
  BY <1>1, <1>2 DEF ResultInv
<1>6. \A t \in Topics : Lists(RowsByDate(groups[t]), RowsUnder(under(t)))
  <2>1. ASSUME NEW t \in Topics
        PROVE  Lists(RowsByDate(groups[t]), RowsUnder(under(t)))
    <3>1. Lists(groups[t], RowsUnder(under(t)))
      BY <1>3 DEF Grouped
    <3> HIDE DEF under
    <3>2. \A r \in RowsUnder(under(t)) : r[1] \in DOMAIN mail
      BY <1>1, <1>5, RowsAreOfMessages
    <3>3. QED
      BY <1>1, <3>1, <3>2, RowsByDateList
  <2>2. QED
    BY <2>1
<1>7. \A t \in Topics : /\ RowsByDate(groups[t]) \in Seq(Row)
                        /\ Range(RowsByDate(groups[t])) = RowsUnder(under(t))
  BY <1>6 DEF Lists
<1>8. \A s \in set : \E t \in Topics : s = RowsByDate(groups[t]) /\ s # <<>>
  OBVIOUS
<1>9. IsFiniteSet(set)
  <2> DEFINE f == [g \in gathered |-> RowsByDate(groups[topic[g]])]
  <2>1. IsFiniteSet(gathered)
    <3>1. gathered \in SUBSET Ids /\ IsFiniteSet(Ids)
      BY <1>1, <1>2, IdsAreFinite DEF ResultInv, LinkTypes
    <3>2. QED
      BY <3>1, FS_Subset
  <2>2. f \in Surjection(gathered, Range(f))
    BY DEF Surjection, Range
  <2>3. ASSUME NEW s \in set
        PROVE  s \in Range(f)
    <3>1. PICK t \in Topics : s = RowsByDate(groups[t]) /\ s # <<>>
      BY <1>8
    <3>2. under(t) # {}
      <4>1. SUFFICES ASSUME under(t) = {}
                     PROVE  s = <<>>
        BY <3>1
      <4>2. RowsUnder({}) = {}
        BY DEF RowsUnder
      <4> HIDE DEF under
      <4>3. Range(s) = {} /\ s \in Seq(Row)
        BY <1>7, <3>1, <4>1, <4>2
      <4>4. DOMAIN s = {}
        BY <4>3 DEF Range
      <4>5. DOMAIN s = 1 .. Len(s) /\ Len(s) \in Nat
        BY <4>3
      <4>6. Len(s) = 0
        BY <4>4, <4>5
      <4>7. QED
        BY <4>3, <4>6
    <3>3. PICK g \in gathered : topic[g] = t
      BY <3>2
    <3>4. f[g] = s
      BY <3>1, <3>3
    <3>5. QED
      BY <3>4 DEF Range
  <2>4. IsFiniteSet(Range(f)) /\ set \in SUBSET Range(f)
    <3> HIDE DEF f, set
    <3>1. QED
      BY <2>1, <2>2, <2>3, FS_Surjection
  <2> HIDE DEF f, set
  <2>5. QED
    BY <2>4, FS_Subset
<1> HIDE DEF set
<1> DEFINE last == Cardinality(set)
<1>10. last \in Nat
  BY <1>9, FS_CardinalityType
<1>11. list \in [1 .. last -> set] /\ \A i, j \in 1 .. last : i # j => list[i] # list[j]
  BY <1>4 DEF SetToSeqs
<1>12. \A s \in set : \E n \in 1 .. last : list[n] = s
  <2>1. list \in Injection(1 .. last, set)
    BY <1>11 DEF Injection, IsInjective
  <2>2. IsFiniteSet(1 .. last) /\ Cardinality(1 .. last) = last
    <3> HIDE DEF last
    <3>1. 1 \in Int /\ last \in Int
      BY <1>10
    <3>2. IsFiniteSet(1 .. last) /\ Cardinality(1 .. last) = IF 1 > last THEN 0 ELSE last - 1 + 1
      BY <3>1, FS_Interval
    <3>3. QED
      BY <1>10, <3>2
  <2> DEFINE places == 1 .. last
  <2>3. list \in Injection(places, set) /\ Cardinality(places) = Cardinality(set)
    BY <2>1, <2>2
  <2> HIDE DEF places
  <2>4. list \in Surjection(places, set)
    BY <1>9, <2>3, FS_Injection
  <2>5. QED
    BY <2>4 DEF Surjection, places
<1> HIDE DEF last
<1>13. list \in Seq(Seq(Row)) /\ Len(list) = last
  <2> DEFINE State == Seq(Row)
  <2>1. \A s \in set : s \in State
    BY <1>7, <1>8
  <2> HIDE DEF State
  <2>2. list \in [1 .. last -> State]
    BY <1>11, <2>1
  <2>3. list \in Seq(State) /\ Len(list) = last
    BY <1>10, <2>2
  <2>4. QED
    BY <2>3 DEF State
<1> DEFINE rows == [n \in 1 .. last |-> Range(list[n])]
<1>14. \A n \in 1 .. last : \E t \in Topics :
           list[n] = RowsByDate(groups[t]) /\ rows[n] = RowsUnder(under(t))
  BY <1>7, <1>8, <1>11
<1>15. \A n \in 1 .. last : Lists(list[n], rows[n])
  <2> HIDE DEF rows, under
  <2>1. QED
    BY <1>6, <1>14
<1>16. \A m, n \in 1 .. last : m # n => Apart(rows[m], rows[n])
  <2>1. ASSUME NEW m \in 1 .. last, NEW n \in 1 .. last, m # n
        PROVE  Apart(rows[m], rows[n])
    <3>1. PICK t \in Topics : list[m] = RowsByDate(groups[t]) /\ rows[m] = RowsUnder(under(t))
      BY <1>14
    <3>2. PICK u \in Topics : list[n] = RowsByDate(groups[u]) /\ rows[n] = RowsUnder(under(u))
      BY <1>14
    <3>3. t # u
      BY <1>11, <2>1, <3>1, <3>2
    <3>4. under(t) \cap under(u) = {}
      BY <3>3
    <3> HIDE DEF under, rows
    <3>5. QED
      BY <1>1, <1>5, <3>1, <3>2, <3>4, GroupsApart
  <2>2. QED
    BY <2>1
<1>17. \A r : r \in RowsUnder(Tops) <=> \E n \in 1 .. last : r \in rows[n]
  <2>1. ASSUME NEW n \in 1 .. last, NEW r \in rows[n]
        PROVE  r \in RowsUnder(Tops)
    <3>1. PICK t \in Topics : rows[n] = RowsUnder(under(t))
      BY <1>14
    <3> HIDE DEF under, rows
    <3>2. QED
      BY <1>5, <2>1, <3>1 DEF RowsUnder
  <2>2. ASSUME NEW r \in RowsUnder(Tops)
        PROVE  \E n \in 1 .. last : r \in rows[n]
    <3>1. PICK root \in Tops : r \in RowsBelow(root)
      BY DEF RowsUnder
    <3>2. root \in Ids /\ parent[root] = <<>>
      BY DEF Tops
    <3>3. Rows(root) # <<>>
      <4>1. r \in Range(Rows(root))
        BY <1>1, <3>1, <3>2, RowsListTheTree DEF RowsInv, Lists
      <4>2. QED
        BY <4>1 DEF Range
    <3>4. root \in gathered
      BY <3>2, <3>3 DEF Roots, Finish
    <3>5. topic[root] \in Topics /\ root \in under(topic[root])
      BY <3>4
    <3> DEFINE its == RowsByDate(groups[topic[root]])
    <3>6. r \in Range(its)
      <4>1. r \in RowsUnder(under(topic[root]))
        BY <3>1, <3>5 DEF RowsUnder
      <4>2. QED
        BY <1>7, <3>5, <4>1
    <3>7. its # <<>>
      BY <3>6 DEF Range
    <3>8. its \in set
      BY <3>5, <3>7 DEF set
    <3> HIDE DEF its
    <3>9. PICK n \in 1 .. last : list[n] = its
      BY <1>12, <3>8
    <3>10. QED
      BY <3>6, <3>9
  <2>3. QED
    BY <2>1, <2>2
<1> HIDE DEF rows
<1>18. Lists(FlattenSeq(list), RowsUnder(Tops))
  BY <1>13, <1>15, <1>16, <1>17, FlattenLists
<1>19. done' = TRUE /\ gathered' = gathered /\ groups' = groups /\ Linked' /\ gathered \subseteq Tops
  BY <1>1, <1>2 DEF Finish, ResultInv
<1>20. RowsUnder(Tops)' = RowsUnder(Tops)
  BY <1>2 DEF RowsUnder, Tops
<1>21. Listed' = FlattenSeq(list)
  BY <1>4 DEF Listed
<1>22. Lists(Listed, IF done THEN RowsUnder(Tops) ELSE {})'
  BY <1>18, <1>19, <1>20, <1>21 DEF Lists
<1>23. Grouped(topic)'
  <2>1. ASSUME NEW t \in Topics
        PROVE  RowsUnder({g \in gathered : topic[g] = t})' = RowsUnder(under(t))
    <3>1. \A g \in under(t) : RowsBelow(g)' = RowsBelow(g)
      BY <1>2, <1>5
    <3>2. {g \in gathered' : topic[g] = t} = under(t)
      BY <1>19
    <3> HIDE DEF under
    <3>3. QED
      BY <3>1, <3>2 DEF RowsUnder
  <2>2. QED
    BY <1>3, <1>19, <2>1 DEF Grouped, Lists
<1>24. (\E topics \in [gathered -> Topics] : Grouped(topics))'
  BY <1>19, <1>23
<1>25. groups' \in [Topics -> Seq(Row)] /\ threads' \in Seq(Seq(Row))
  BY <1>1, <1>4, <1>13, <1>19 DEF ResultInv
<1>26. QED
  BY <1>2, <1>19, <1>22, <1>24, <1>25 DEF ResultInv
-----------------------------------------------------------------------------
LEMMA NextRowsInv == RowsInv /\ [Next]_vars => RowsInv'
<1>1. SUFFICES ASSUME RowsInv, [Next]_vars PROVE RowsInv'
  OBVIOUS
<1>2. LinkInv /\ ClaimInv /\ ResultInv /\ LinkTypes
  BY <1>1 DEF RowsInv, LinkInv
<1>3. LinkInv' /\ ClaimInv'
  BY <1>1, <1>2, NextLinkInv, ClaimInvStep
<1>4. CASE Claim \/ Link
  BY <1>2, <1>3, <1>4, LinkingResultInv DEF RowsInv
<1>5. CASE Gather
  BY <1>1, <1>3, <1>5, GatherResultInv DEF RowsInv
<1>6. CASE Finish
  BY <1>1, <1>3, <1>6, FinishResultInv DEF RowsInv
<1>7. CASE UNCHANGED vars
  <2>1. UNCHANGED <<mail, taken, linkVars, gathered, groups, threads, done>>
    BY <1>7 DEF vars
  <2>2. /\ \A id \in Ids : RowsBelow(id)' = RowsBelow(id)
        /\ Tops' = Tops /\ Linked' = Linked /\ Ids' = Ids /\ Tops \in SUBSET Ids
    BY <2>1, RowsStay DEF Tops
  <2>3. PICK topic \in [gathered -> Topics] : Grouped(topic)
    BY <1>2 DEF ResultInv
  <2>4. gathered \in SUBSET Ids
    BY <1>2, <2>2 DEF ResultInv
  <2>5. Grouped(topic)'
    <3>1. ASSUME NEW t \in Topics
          PROVE  RowsUnder({root \in gathered : topic[root] = t})'
                     = RowsUnder({root \in gathered : topic[root] = t})
      BY <2>1, <2>2, <2>4 DEF RowsUnder
    <3>2. QED
      BY <2>1, <2>3, <3>1 DEF Grouped, Lists
  <2>6. RowsUnder(Tops)' = RowsUnder(Tops) /\ Listed' = Listed
    BY <2>1, <2>2 DEF RowsUnder, Tops, Listed
  <2>7. Lists(Listed, IF done THEN RowsUnder(Tops) ELSE {})'
    BY <1>2, <2>1, <2>6 DEF ResultInv, Lists
  <2>8. (\E topics \in [gathered -> Topics] : Grouped(topics))'
    BY <2>1, <2>3, <2>5
  <2>9. QED
    BY <1>2, <1>3, <2>1, <2>2, <2>7, <2>8 DEF RowsInv, ResultInv
<1>8. QED
  BY <1>1, <1>3, <1>4, <1>5, <1>6, <1>7 DEF Next, RowsInv

LEMMA AlwaysRowsInv == Spec => []RowsInv
<1>1. Init => RowsInv
  BY InitLinkInv, ClaimInvInit, InitResultInv DEF RowsInv
<1>2. QED
  BY <1>1, NextRowsInv, PTL DEF Spec

(* Linking, flattening and grouping keep the types of the variables.       *)
THEOREM ThreadingTypes == Spec => []TypeOK
<1>1. RowsInv => TypeOK
  BY DEF RowsInv, LinkInv, ResultInv, TypeOK, ResultTypes, Tops
<1>2. QED
  BY <1>1, AlwaysRowsInv, PTL

(* The threaded view of every mailbox shows each of its messages exactly   *)
(* once: none is lost in a merge, in a container that was moved or behind  *)
(* an id that another message has (tui/threading.rs:70-81, 235-241).       *)
THEOREM ThreadsShowEveryMessage == Spec => []EveryMessageOnce
<1>1. RowsInv => EveryMessageOnce
  <2>1. SUFFICES ASSUME RowsInv, done
                 PROVE  /\ Len(Listed) = Len(mail)
                        /\ {Listed[n][1] : n \in DOMAIN Listed} = DOMAIN mail
    BY DEF EveryMessageOnce
  <2>2. LinkTypes /\ Forest /\ ClaimInv /\ Linked /\ Lists(Listed, RowsUnder(Tops))
    BY <2>1 DEF RowsInv, LinkInv, ResultInv
  <2>3. Listed \in Seq(Row) /\ mail \in Seq(Mail) /\ Tops \in SUBSET Ids
    BY <2>2 DEF Lists, LinkTypes, Tops
  <2>4. ASSUME NEW n \in DOMAIN Listed
        PROVE  Listed[n][1] \in DOMAIN mail
    <3>1. Listed[n] \in RowsUnder(Tops)
      BY <2>2 DEF Lists, Range
    <3>2. QED
      BY <2>2, <2>3, <3>1, RowsAreOfMessages
  <2>5. ASSUME NEW i \in DOMAIN mail
        PROVE  \E n \in DOMAIN Listed : Listed[n][1] = i
    <3>1. PICK x \in Ids : entry[x] = <<i>>
      <4>1. i \in 1 .. taken
        BY <2>2, <2>3 DEF Linked
      <4>2. QED
        BY <2>2, <4>1 DEF ClaimInv
    <3>2. PICK root \in Ids : x \in Tree(root)
      BY <2>2, RootFacts
    <3>3. root \in Tops /\ x \in MessagesBelow(root)
      <4>1. <<i>> # <<>>
        OBVIOUS
      <4>2. entry[x] # <<>>
        BY <3>1, <4>1
      <4>3. QED
        BY <3>2, <4>2 DEF Tree, Tops, MessagesBelow
    <3>4. RowOf(x, root) \in RowsUnder(Tops) /\ RowOf(x, root)[1] = i
      BY <3>1, <3>3 DEF RowsUnder, RowsBelow, RowOf
    <3>5. PICK n \in DOMAIN Listed : Listed[n] = RowOf(x, root)
      BY <2>2, <3>4 DEF Lists, Range
    <3>6. QED
      BY <3>4, <3>5
  <2> DEFINE message == [n \in DOMAIN Listed |-> Listed[n][1]]
             places == DOMAIN Listed
             messages == DOMAIN mail
  <2>6. message \in Bijection(places, messages)
    <3>1. message \in [places -> messages]
      BY <2>4
    <3>2. \A m, n \in places : message[m] = message[n] => m = n
      BY <2>2 DEF Lists
    <3>3. \A i \in messages : \E n \in places : message[n] = i
      BY <2>5
    <3> HIDE DEF message, places, messages
    <3>4. QED
      BY <3>1, <3>2, <3>3, Fun_IsBij
  <2>7. /\ IsFiniteSet(places) /\ Cardinality(places) = Len(Listed)
        /\ Cardinality(messages) = Len(mail)
    <3>1. ASSUME NEW k \in Nat
          PROVE  IsFiniteSet(1 .. k) /\ Cardinality(1 .. k) = k
      <4>1. 1 \in Int /\ k \in Int
        OBVIOUS
      <4>2. IsFiniteSet(1 .. k) /\ Cardinality(1 .. k) = IF 1 > k THEN 0 ELSE k - 1 + 1
        BY <4>1, FS_Interval
      <4>3. QED
        BY <4>2
    <3>2. /\ DOMAIN Listed = 1 .. Len(Listed) /\ Len(Listed) \in Nat
          /\ DOMAIN mail = 1 .. Len(mail) /\ Len(mail) \in Nat
      BY <2>3
    <3>3. QED
      BY <3>1, <3>2
  <2>8. Cardinality(messages) = Cardinality(places)
    <3> HIDE DEF message, places, messages
    <3>1. ExistsBijection(places, messages)
      BY <2>6 DEF ExistsBijection
    <3>2. QED
      BY <2>7, <3>1, FS_Bijection
  <2>9. QED
    BY <2>4, <2>5, <2>7, <2>8
<1>2. QED
  BY <1>1, AlwaysRowsInv, PTL

(* In every mailbox a row is indented by as many messages as are above it  *)
(* in its conversation, however many ids without a message lie between     *)
(* them (tui/threading.rs:305-309).                                        *)
THEOREM ThreadsIndentByMessages == Spec => []DepthCountsMessagesAbove
<1>1. RowsInv => DepthCountsMessagesAbove
  <2>1. SUFFICES ASSUME RowsInv, NEW n \in DOMAIN Listed,
                        NEW id \in Ids, entry[id] = <<Listed[n][1]>>
                 PROVE  Listed[n][2] = Cardinality({a \in Ancestors(id) \ {id} : entry[a] # <<>>})
    BY DEF DepthCountsMessagesAbove
  <2>2. LinkTypes /\ Forest /\ ClaimInv
    BY <2>1 DEF RowsInv, LinkInv
  <2>3. Listed[n] \in RowsUnder(Tops)
    <3>1. Listed[n] \in IF done THEN RowsUnder(Tops) ELSE {}
      <4>1. Lists(Listed, IF done THEN RowsUnder(Tops) ELSE {})
        BY <2>1 DEF RowsInv, ResultInv
      <4> DEFINE rows == IF done THEN RowsUnder(Tops) ELSE {}
      <4> HIDE DEF rows
      <4>2. Range(Listed) = rows
        BY <4>1 DEF Lists, rows
      <4>3. Listed[n] \in rows
        BY <2>1, <4>2 DEF Range
      <4>4. QED
        BY <4>3 DEF rows
    <3>2. QED
      BY <3>1
  <2>4. PICK root \in Tops, x \in Ids :
            /\ root \in Above(x) /\ entry[x] = <<Listed[n][1]>>
            /\ Listed[n] = RowOf(x, root)
    <3>1. Tops \in SUBSET Ids
      BY DEF Tops
    <3>2. QED
      BY <2>2, <2>3, <3>1, RowsAreOfMessages
  <2>5. x = id
    <3>1. \A i : <<i>> # <<>>
      OBVIOUS
    <3>2. entry[x] = entry[id] /\ entry[x] # <<>>
      BY <2>1, <2>4, <3>1
    <3>3. QED
      BY <2>1, <2>2, <3>2 DEF ClaimInv
  <2>6. root \in Ids /\ parent[root] = <<>>
    BY DEF Tops
  <2>7. ASSUME NEW a \in Above(id)
        PROVE  root \in Above(a)
    <3>1. a \in Ids
      BY <2>2, AboveFacts
    <3>2. Above(root) = {root}
      BY <2>2, <2>6, AboveFacts
    <3>3. a \in Above(root) \/ root \in Above(a)
      BY <2>2, <2>4, <2>5, AboveIsALine
    <3>4. QED
      BY <2>6, <3>2, <3>3, <2>2, AboveFacts
  <2>8. Between(id, root) = {a \in Above(id) \ {id} : entry[a] # <<>>}
    BY <2>7 DEF Between
  <2>9. Ancestors(id) = Above(id)
    BY <2>2, AncestorsAreAbove
  <2>10. QED
    BY <2>4, <2>5, <2>8, <2>9 DEF RowOf
<1>2. QED
  BY <1>1, AlwaysRowsInv, PTL
==============================================================================
