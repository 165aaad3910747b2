------------------------- MODULE MailboxWriterProofs -------------------------
(***************************************************************************)
(* Theorems about MailboxWriter: about the labels of a merge, for any      *)
(* number of mailboxes with any paths and every MAX_LEVELS; and, for a     *)
(* process that writes alone and any mailboxes, about the reported numbers *)
(* and about what it delivers, the refinement of Delivery.                 *)
(***************************************************************************)
EXTENDS MailboxWriter, CountingProofs

-----------------------------------------------------------------------------
(* Names. *)

(* A name that is no longer than its path has its level of components, and *)
(* without the first of them it is the name one level below.               *)
LEMMA NameFacts ==
  ASSUME NEW C, NEW path \in Seq(C), NEW level \in 1 .. Len(path)
  PROVE  /\ NameAtLevel(path, level) \in Seq(C)
         /\ Len(NameAtLevel(path, level)) = level
         /\ \A k \in 1 .. level :
                NameAtLevel(path, level)[k] = path[Len(path) - level + k]
<1>1. Len(path) \in Nat
  OBVIOUS
<1>2. NameAtLevel(path, level) = SubSeq(path, Len(path) - level + 1, Len(path))
  <2>1. (IF level < Len(path) THEN Len(path) - level + 1 ELSE 1) = Len(path) - level + 1
    BY <1>1
  <2>2. QED
    BY <2>1 DEF NameAtLevel
<1>3. QED
  BY <1>1, <1>2

LEMMA TailOfName ==
  ASSUME NEW C, NEW path \in Seq(C), NEW level \in 2 .. Len(path)
  PROVE  Tail(NameAtLevel(path, level)) = NameAtLevel(path, level - 1)
<1> DEFINE long == NameAtLevel(path, level)
           short == NameAtLevel(path, level - 1)
<1>1. /\ long \in Seq(C) /\ Len(long) = level
      /\ \A k \in 1 .. level : long[k] = path[Len(path) - level + k]
  BY NameFacts
<1>2. level - 1 \in 1 .. Len(path) /\ level \in Nat
  OBVIOUS
<1>3. /\ short \in Seq(C) /\ Len(short) = level - 1
      /\ \A k \in 1 .. level - 1 : short[k] = path[Len(path) - (level - 1) + k]
  BY <1>2, NameFacts
<1> HIDE DEF long, short
<1>4. Tail(long) \in Seq(C) /\ Len(Tail(long)) = level - 1
  BY <1>1, <1>2
<1>5. \A k \in 1 .. level - 1 : Tail(long)[k] = long[k + 1]
  BY <1>1, <1>2, <1>4
<1>6. ASSUME NEW k \in 1 .. level - 1
      PROVE  Tail(long)[k] = short[k]
  <2>1. k + 1 \in 1 .. level /\ Len(path) - level + (k + 1) = Len(path) - (level - 1) + k
    BY <1>2
  <2>2. QED
    BY <1>1, <1>3, <1>5, <2>1, ZenonT(60)
<1>7. Tail(long) = short
  BY <1>3, <1>4, <1>6
<1>8. QED
  BY <1>7 DEF long, short

(* Every path has a name to show. *)
LEMMA PresentationHasAName ==
  ASSUME NEW C, NEW path \in Seq(C), path # <<>>
  PROVE  PresentationPath(path) \in Seq(C) /\ Len(PresentationPath(path)) > 0
<1>1. Len(path) \in Nat /\ Len(path) > 0
  OBVIOUS
<1>2. CASE PresentationPath(path) = path
  BY <1>1, <1>2
<1>3. CASE Len(path) > 1 /\ PresentationPath(path) = Upwards(path)
  <2>1. Upwards(path) \in Seq(C) /\ Len(Upwards(path)) = Len(path) - 1
    BY <1>1, <1>3 DEF Upwards
  <2>2. QED
    BY <1>1, <1>3, <2>1
<1>4. QED
  BY <1>2, <1>3 DEF PresentationPath, IsIn

-----------------------------------------------------------------------------
(* The rounds. *)

(* The recursive function of the levels exists, and so is what its         *)
(* equation says.                                                          *)
LEMMA LevelsAre ==
  ASSUME NEW presented
  PROVE  /\ Levels(presented)[0] = [i \in DOMAIN presented |-> 1]
         /\ \A n \in 0 .. MaxLevels - 1 : n < MaxLevels - 1 =>
                Levels(presented)[n + 1] = Grow(presented, Levels(presented)[n])
<1> DEFINE last == MaxLevels - 1
           first == [i \in DOMAIN presented |-> 1]
           IsUpTo(f, n) == f = [m \in 0 .. n |->
                                   IF m = 0 THEN first ELSE Grow(presented, f[m - 1])]
           S == {n \in 0 .. last : \E f : IsUpTo(f, n)}
<1>1. last \in Nat
  BY MaxLevelsAssumption
<1>2. 0 \in S
  <2>1. IsUpTo([m \in 0 .. 0 |-> first], 0)
    OBVIOUS
  <2> HIDE DEF IsUpTo
  <2>2. (\E f : IsUpTo(f, 0)) /\ 0 \in 0 .. last
    BY <1>1, <2>1
  <2>3. QED
    BY <2>2
<1>3. ASSUME NEW n \in 0 .. last, n \in S, n < last
      PROVE  n + 1 \in S
  <2>1. PICK f : IsUpTo(f, n)
    BY <1>3
  <2> DEFINE g == [m \in 0 .. n + 1 |-> IF m = n + 1 THEN Grow(presented, f[n]) ELSE f[m]]
  <2>2. ASSUME NEW m \in 0 .. n + 1
        PROVE  g[m] = IF m = 0 THEN first ELSE Grow(presented, g[m - 1])
    <3>1. CASE m = 0
      BY <2>1, <3>1
    <3>2. CASE m \in 1 .. n
      <4>1. g[m] = f[m] /\ f[m] = Grow(presented, f[m - 1])
        BY <2>1, <3>2
      <4>2. m - 1 \in 0 .. n + 1 /\ m - 1 # n + 1 /\ m # 0
        BY <3>2
      <4>3. g[m - 1] = f[m - 1]
        BY <4>2
      <4> HIDE DEF g
      <4>4. QED
        BY <4>1, <4>2, <4>3
    <3>3. CASE m = n + 1
      <4>1. n \in 0 .. n + 1 /\ n # n + 1 /\ m - 1 = n /\ m # 0
        BY <3>3
      <4>2. g[n] = f[n] /\ g[m] = Grow(presented, f[n])
        BY <3>3, <4>1
      <4> HIDE DEF g
      <4>3. QED
        BY <4>1, <4>2
    <3>4. QED
      BY <3>1, <3>2, <3>3
  <2>3. IsUpTo(g, n + 1)
    <3>1. g = [m \in 0 .. n + 1 |-> g[m]]
      OBVIOUS
    <3> HIDE DEF g
    <3>2. QED
      BY <2>2, <3>1
  <2>4. n + 1 \in 0 .. last
    BY <1>1, <1>3
  <2> HIDE DEF IsUpTo, g
  <2>5. \E h : IsUpTo(h, n + 1)
    BY <2>3
  <2>6. QED
    BY <2>4, <2>5
<1>4. last \in S
  <2> HIDE DEF S, last
  <2>1. \A n \in 0 .. last : n \in S
    BY <1>1, <1>2, <1>3, InductionUpTo
  <2>2. QED
    BY <1>1, <2>1
<1>5. PICK f : IsUpTo(f, last)
  BY <1>4
<1> DEFINE levels == Levels(presented)
<1>6. IsUpTo(levels, last)
  BY <1>5 DEF Levels
<1>7. \A n \in 0 .. last : levels[n] = IF n = 0 THEN first ELSE Grow(presented, levels[n - 1])
  <2> HIDE DEF levels
  <2>1. QED
    BY <1>6
<1> HIDE DEF levels
<1>8. levels[0] = first
  BY <1>1, <1>7
<1>9. ASSUME NEW n \in 0 .. last, n < last
      PROVE  levels[n + 1] = Grow(presented, levels[n])
  <2>1. n + 1 \in 0 .. last /\ n + 1 # 0 /\ (n + 1) - 1 = n
    BY <1>1, <1>9
  <2>2. QED
    BY <1>7, <2>1
<1>10. QED
  BY <1>8, <1>9 DEF levels

(* After n rounds no name is longer than n + 1 or than its path, and each  *)
(* one shows a directory only because of another that looked alike.        *)
Bounded(presented, levels, n) ==
    /\ levels \in [DOMAIN presented -> Nat]
    /\ \A i \in DOMAIN presented :
           levels[i] \in 1 .. Len(presented[i]) /\ levels[i] <= n + 1

Needed(presented, levels) ==
    \A i \in DOMAIN presented : levels[i] > 1 =>
        \E j \in DOMAIN presented \ {i} :
            NameAtLevel(presented[j], levels[i] - 1) = NameAtLevel(presented[i], levels[i] - 1)

(* Names that are the same have grown in every round, or are whole paths.  *)
Same(presented, levels, i, j) ==
    NameAtLevel(presented[i], levels[i]) = NameAtLevel(presented[j], levels[j])

TwinsGrew(presented, levels, n) ==
    \A i, j \in DOMAIN presented : i # j /\ Same(presented, levels, i, j) =>
        /\ levels[i] = levels[j]
        /\ levels[i] = n + 1
           \/ (levels[i] = Len(presented[i]) /\ levels[j] = Len(presented[j]))

(* The same names have the same number of components. *)
LEMMA SameHaveOneLevel ==
  ASSUME NEW C, NEW presented, \A i \in DOMAIN presented : presented[i] \in Seq(C),
         NEW levels, NEW n \in Nat, Bounded(presented, levels, n),
         NEW i \in DOMAIN presented, NEW j \in DOMAIN presented, Same(presented, levels, i, j)
  PROVE  levels[i] = levels[j]
<1>1. levels[i] \in 1 .. Len(presented[i]) /\ levels[j] \in 1 .. Len(presented[j])
  BY DEF Bounded
<1>2. /\ Len(NameAtLevel(presented[i], levels[i])) = levels[i]
      /\ Len(NameAtLevel(presented[j], levels[j])) = levels[j]
  BY <1>1, NameFacts
<1>3. QED
  BY <1>2 DEF Same

LEMMA GrowthIs ==
  ASSUME NEW C, NEW presented, \A i \in DOMAIN presented : presented[i] \in Seq(C),
         NEW levels, NEW n \in Nat, Bounded(presented, levels, n),
         NEW i \in DOMAIN presented
  PROVE  /\ DOMAIN Grow(presented, levels) = DOMAIN presented
         /\ \/ /\ Grow(presented, levels)[i] = levels[i] + 1
               /\ levels[i] < Len(presented[i])
               /\ \E j \in DOMAIN presented \ {i} : Same(presented, levels, i, j)
            \/ /\ Grow(presented, levels)[i] = levels[i]
               /\ levels[i] = Len(presented[i])
                  \/ \A j \in DOMAIN presented \ {i} : ~Same(presented, levels, i, j)
<1>1. DOMAIN levels = DOMAIN presented /\ levels[i] \in 1 .. Len(presented[i])
  BY DEF Bounded
<1>2. ~(levels[i] < Len(presented[i])) => levels[i] = Len(presented[i])
  BY <1>1
<1> DEFINE collides == \E j \in DOMAIN presented \ {i} : Same(presented, levels, i, j)
<1>3. /\ DOMAIN Grow(presented, levels) = DOMAIN presented
      /\ Grow(presented, levels)[i] =
             IF collides /\ levels[i] < Len(presented[i]) THEN levels[i] + 1 ELSE levels[i]
  BY <1>1 DEF Grow, Same
<1> HIDE DEF collides
<1>4. CASE collides /\ levels[i] < Len(presented[i])
  BY <1>3, <1>4 DEF collides
<1>5. CASE ~(collides /\ levels[i] < Len(presented[i]))
  BY <1>2, <1>3, <1>5 DEF collides
<1>6. QED
  BY <1>4, <1>5

LEMMA RoundKeepsNames ==
  ASSUME NEW C, NEW presented, \A i \in DOMAIN presented : presented[i] \in Seq(C),
         NEW levels, NEW n \in Nat,
         Bounded(presented, levels, n), Needed(presented, levels),
         TwinsGrew(presented, levels, n)
  PROVE  /\ Bounded(presented, Grow(presented, levels), n + 1)
         /\ Needed(presented, Grow(presented, levels))
         /\ TwinsGrew(presented, Grow(presented, levels), n + 1)
<1> DEFINE grown == Grow(presented, levels)
           names == DOMAIN presented
           Grew(i) == /\ grown[i] = levels[i] + 1
                      /\ levels[i] < Len(presented[i])
                      /\ \E j \in names \ {i} : Same(presented, levels, i, j)
           Rests(i) == /\ grown[i] = levels[i]
                       /\ levels[i] = Len(presented[i])
                          \/ \A j \in names \ {i} : ~Same(presented, levels, i, j)
<1>1. \A i \in names : Grew(i) \/ Rests(i)
  BY GrowthIs
<1>2. DOMAIN grown = names
  BY DEF Grow, Bounded
<1>3. \A i \in names : /\ levels[i] \in 1 .. Len(presented[i])
                       /\ levels[i] <= n + 1 /\ Len(presented[i]) \in Nat
  BY DEF Bounded
<1>4. grown = [i \in names |-> grown[i]]
  BY DEF Grow, Bounded
<1> HIDE DEF grown
<1>5. \A i \in names : grown[i] \in 1 .. Len(presented[i]) /\ grown[i] <= (n + 1) + 1
  BY <1>1, <1>3
<1>6. Bounded(presented, grown, n + 1)
  BY <1>3, <1>4, <1>5 DEF Bounded
<1>7. ASSUME NEW i \in names, grown[i] > 1
      PROVE  \E j \in names \ {i} :
                 NameAtLevel(presented[j], grown[i] - 1) = NameAtLevel(presented[i], grown[i] - 1)
  <2>1. CASE Grew(i)
    <3>1. PICK j \in names \ {i} : Same(presented, levels, i, j)
      BY <2>1
    <3>2. levels[j] = levels[i]
      BY <3>1, SameHaveOneLevel
    <3>3. grown[i] - 1 = levels[i]
      BY <1>3, <2>1
    <3>4. QED
      BY <3>1, <3>2, <3>3 DEF Same
  <2>2. CASE Rests(i)
    BY <1>7, <2>2 DEF Needed
  <2>3. QED
    BY <1>1, <2>1, <2>2
<1>8. ASSUME NEW i \in names, NEW j \in names, i # j, Same(presented, grown, i, j)
      PROVE  /\ grown[i] = grown[j]
             /\ grown[i] = (n + 1) + 1
                \/ (grown[i] = Len(presented[i]) /\ grown[j] = Len(presented[j]))
  <2>1. grown[i] = grown[j]
    BY <1>6, <1>8, SameHaveOneLevel
  (* A name that collides and is no whole path has grown in every round.   *)
  <2>2. ASSUME NEW k \in names, Grew(k)
        PROVE  levels[k] = n + 1
    <3>1. PICK l \in names \ {k} : Same(presented, levels, k, l)
      BY <2>2
    <3>2. QED
      BY <1>3, <2>2, <3>1 DEF TwinsGrew
  <2>3. CASE Grew(i) \/ Grew(j)
    <3>1. ASSUME NEW k \in names, Grew(k)
          PROVE  grown[k] = (n + 1) + 1
      BY <2>2, <3>1
    <3>2. grown[i] = (n + 1) + 1 \/ grown[j] = (n + 1) + 1
      BY <2>3, <3>1
    <3>3. QED
      BY <2>1, <3>2
  <2>4. CASE Rests(i) /\ Rests(j)
    <3>1. grown[i] = levels[i] /\ grown[j] = levels[j]
      BY <2>4
    <3>2. Same(presented, levels, i, j) /\ Same(presented, levels, j, i)
      BY <1>8, <3>1 DEF Same
    <3>3. QED
      BY <1>8, <2>1, <2>4, <3>1, <3>2
  <2>5. QED
    BY <1>1, <2>3, <2>4
<1>9. Needed(presented, grown) /\ TwinsGrew(presented, grown, n + 1)
  BY <1>7, <1>8 DEF Needed, TwinsGrew
<1>10. QED
  BY <1>6, <1>9 DEF grown

LEMMA NamesAfterTheLastRound ==
  ASSUME NEW C, NEW presented,
         \A i \in DOMAIN presented : presented[i] \in Seq(C) /\ Len(presented[i]) > 0
  PROVE  LET levels == Levels(presented)[MaxLevels - 1]
         IN  /\ Bounded(presented, levels, MaxLevels - 1)
             /\ Needed(presented, levels)
             /\ TwinsGrew(presented, levels, MaxLevels - 1)
<1> DEFINE last == MaxLevels - 1
           levels == Levels(presented)
           Good(n) == /\ Bounded(presented, levels[n], n)
                      /\ Needed(presented, levels[n])
                      /\ TwinsGrew(presented, levels[n], n)
           S == {n \in 0 .. last : Good(n)}
<1>1. last \in Nat
  BY MaxLevelsAssumption
<1>2. \A i \in DOMAIN presented : presented[i] \in Seq(C) /\ Len(presented[i]) \in Nat \ {0}
  OBVIOUS
<1>3. /\ levels[0] = [i \in DOMAIN presented |-> 1]
      /\ \A n \in 0 .. last : n < last => levels[n + 1] = Grow(presented, levels[n])
  BY LevelsAre
<1> HIDE DEF levels
<1>4. Good(0)
  <2>1. \A i \in DOMAIN presented : levels[0][i] = 1
    BY <1>3
  <2>2. Bounded(presented, levels[0], 0)
    BY <1>2, <1>3 DEF Bounded
  <2>3. Needed(presented, levels[0])
    BY <2>1 DEF Needed
  <2>4. TwinsGrew(presented, levels[0], 0)
    BY <2>1 DEF TwinsGrew
  <2>5. QED
    BY <2>2, <2>3, <2>4
<1>5. ASSUME NEW n \in 0 .. last, Good(n), n < last
      PROVE  Good(n + 1)
  <2>1. n \in Nat /\ levels[n + 1] = Grow(presented, levels[n])
    BY <1>1, <1>3, <1>5
  <2>2. QED
    BY <1>2, <1>5, <2>1, RoundKeepsNames
<1>6. Good(last)
  <2> HIDE DEF Good
  <2>1. 0 \in S
    BY <1>1, <1>4
  <2>2. \A n \in 0 .. last : n \in S /\ n < last => n + 1 \in S
    BY <1>1, <1>5
  <2>3. last \in S
    <3> HIDE DEF S, last
    <3>1. \A n \in 0 .. last : n \in S
      BY <1>1, <2>1, <2>2, InductionUpTo
    <3>2. QED
      BY <1>1, <3>1
  <2>4. QED
    BY <2>3
<1>7. QED
  BY <1>6 DEF levels

(* What unique_display_names promises, of any paths. *)
LEMMA DisplayNamesTellApart ==
  ASSUME NEW C, NEW paths,
         \A i \in DOMAIN paths : paths[i] \in Seq(C) /\ paths[i] # <<>>
  PROVE  \A k \in DOMAIN paths :
             LET names    == UniqueDisplayNames(paths)
                 shown(i) == PresentationPath(paths[i])
             IN  /\ \A j \in DOMAIN paths \ {k} :
                        names[j] = names[k] =>
                            NameAtLevel(shown(j), MaxLevels) = NameAtLevel(shown(k), MaxLevels)
                 /\ Len(names[k]) > 1 =>
                        \E j \in DOMAIN paths \ {k} :
                            NameAtLevel(shown(j), Len(names[k]) - 1) = Tail(names[k])
<1> DEFINE presented == [i \in DOMAIN paths |-> PresentationPath(paths[i])]
           levels == Levels(presented)[MaxLevels - 1]
           names == UniqueDisplayNames(paths)
           shown(i) == PresentationPath(paths[i])
<1>1. \A i \in DOMAIN presented : presented[i] \in Seq(C) /\ Len(presented[i]) > 0
  BY PresentationHasAName
<1>2. DOMAIN presented = DOMAIN paths /\ \A i \in DOMAIN paths : presented[i] = shown(i)
  OBVIOUS
<1>3. \A i \in DOMAIN paths : names[i] = NameAtLevel(presented[i], levels[i])
  BY DEF UniqueDisplayNames
<1> HIDE DEF presented, names
<1>4. /\ Bounded(presented, levels, MaxLevels - 1)
      /\ Needed(presented, levels)
      /\ TwinsGrew(presented, levels, MaxLevels - 1)
  BY <1>1, NamesAfterTheLastRound
<1> HIDE DEF levels
<1>5. ASSUME NEW k \in DOMAIN paths, NEW j \in DOMAIN paths \ {k}, names[j] = names[k]
      PROVE  NameAtLevel(shown(j), MaxLevels) = NameAtLevel(shown(k), MaxLevels)
  <2>1. Same(presented, levels, j, k)
    BY <1>3, <1>5 DEF Same
  <2>2. /\ levels[j] = levels[k]
        /\ levels[j] = (MaxLevels - 1) + 1
           \/ (levels[j] = Len(presented[j]) /\ levels[k] = Len(presented[k]))
    BY <1>2, <1>4, <2>1 DEF TwinsGrew
  <2>3. CASE levels[j] = (MaxLevels - 1) + 1
    <3>1. levels[j] = MaxLevels /\ levels[k] = MaxLevels
      BY <2>2, <2>3, MaxLevelsAssumption
    <3>2. QED
      BY <1>2, <2>1, <3>1 DEF Same
  (* Whole paths, which are no longer than MaxLevels. *)
  <2>4. CASE levels[j] = Len(presented[j]) /\ levels[k] = Len(presented[k])
    <3>1. levels[j] <= MaxLevels /\ levels[k] <= MaxLevels
      BY <1>2, <1>4, MaxLevelsAssumption DEF Bounded
    <3>2. ASSUME NEW i \in {j, k}
          PROVE  NameAtLevel(presented[i], MaxLevels) = NameAtLevel(presented[i], levels[i])
      <4>1. levels[i] = Len(presented[i]) /\ levels[i] \in Nat /\ levels[i] <= MaxLevels
        BY <1>2, <1>4, <2>4, <3>1 DEF Bounded
      <4>2. ~(MaxLevels < Len(presented[i])) /\ ~(levels[i] < Len(presented[i]))
        BY <4>1, MaxLevelsAssumption
      <4>3. QED
        BY <4>2 DEF NameAtLevel
    <3>3. QED
      BY <1>2, <2>1, <3>2 DEF Same
  <2>5. QED
    BY <2>2, <2>3, <2>4
<1>6. ASSUME NEW k \in DOMAIN paths, Len(names[k]) > 1
      PROVE  \E j \in DOMAIN paths \ {k} :
                 NameAtLevel(shown(j), Len(names[k]) - 1) = Tail(names[k])
  <2>1. presented[k] \in Seq(C) /\ levels[k] \in 1 .. Len(presented[k])
    BY <1>1, <1>2, <1>4 DEF Bounded
  <2>2. Len(names[k]) = levels[k]
    BY <1>3, <2>1, NameFacts
  <2>3. levels[k] > 1 /\ levels[k] \in 2 .. Len(presented[k])
    BY <1>6, <2>1, <2>2
  <2>4. Tail(names[k]) = NameAtLevel(presented[k], levels[k] - 1)
    BY <1>3, <2>1, <2>3, TailOfName
  <2>5. PICK j \in DOMAIN paths \ {k} :
            NameAtLevel(presented[j], levels[k] - 1) = NameAtLevel(presented[k], levels[k] - 1)
    BY <1>2, <1>4, <2>3 DEF Needed
  <2>6. NameAtLevel(shown(j), Len(names[k]) - 1) = Tail(names[k])
    BY <1>2, <2>2, <2>4, <2>5
  <2>7. QED
    BY <2>6
<1>7. QED
  BY <1>5, <1>6 DEF names

-----------------------------------------------------------------------------
(* A process that has been started works at one of the tasks. *)
TaskInv ==
    /\ task = [w \in Writers |-> task[w]] /\ pc = [w \in Writers |-> pc[w]]
    /\ \A w \in Writers : pc[w] = "idle" \/ task[w] \in Tasks

LEMMA TaskInvHolds == Spec => []TaskInv
<1>1. Init => TaskInv
  BY DEF Init, TaskInv
<1>2. TaskInv /\ [Next]_vars => TaskInv'
  <2> SUFFICES ASSUME TaskInv, [Next]_vars
               PROVE  TaskInv'
    OBVIOUS
  <2> USE DEF TaskInv
  <2>1. ASSUME NEW w \in Writers, NEW t \in Tasks, Start(w, t)
        PROVE  TaskInv'
    BY <2>1 DEF Start
  <2>2. ASSUME NEW w \in Writers, UNCHANGED task, pc[w] # "idle",
               \E step : pc' = [pc EXCEPT ![w] = step]
        PROVE  TaskInv'
    BY <2>2
  <2>3. ASSUME UNCHANGED <<task, pc>>
        PROVE  TaskInv'
    BY <2>3
  <2>4. ASSUME NEW w \in Writers, OpenInput(w) \/ InputCopied(w) \/ Commit(w) \/ Fail(w)
        PROVE  TaskInv'
    <3>1. UNCHANGED task /\ pc[w] # "idle"
      BY <2>4 DEF OpenInput, InputCopied, Commit, Fail
    <3>2. \E step : pc' = [pc EXCEPT ![w] = step]
      <4>1. CASE OpenInput(w)
        BY <4>1 DEF OpenInput
      <4>2. CASE InputCopied(w)
        BY <4>2 DEF InputCopied
      <4>3. CASE Commit(w)
        BY <4>3 DEF Commit
      <4>4. CASE Fail(w)
        BY <4>4 DEF Fail
      <4>5. QED
        BY <2>4, <4>1, <4>2, <4>3, <4>4
    <3>3. QED
      BY <2>2, <3>1, <3>2
  <2>5. ASSUME NEW w \in Writers, MergeMessage(w) \/ ExportMessage(w) \/ CopyInput(w)
        PROVE  TaskInv'
    BY <2>3, <2>5 DEF MergeMessage, ExportMessage, CopyInput
  <2>6. CASE UNCHANGED vars
    BY <2>3, <2>6 DEF vars
  <2>7. QED
    BY <2>1, <2>4, <2>5, <2>6 DEF Next
<1>3. QED
  BY <1>1, <1>2, PTL DEF Spec

(* The names of which the labels of a merge are made lead back to their    *)
(* mailboxes, and show no more than is needed for that                     *)
(* (mailbox_naming.rs:89-125, export/mbox.rs:56-58).                       *)
THEOREM NamesLeadBack == Spec => []NamesTellApart
<1>1. TaskInv => NamesTellApart
  <2> SUFFICES ASSUME TaskInv, NEW w \in Writers, pc[w] = "reading"
               PROVE  LET inputs   == task[w].inputs
                          names    == DisplayNames(task[w])
                          shown(k) == PresentationPath(PathOf[inputs[k]])
                      IN  \A k \in DOMAIN inputs :
                              /\ \A j \in DOMAIN inputs \ {k} :
                                     names[j] = names[k] =>
                                         NameAtLevel(shown(j), MaxLevels)
                                             = NameAtLevel(shown(k), MaxLevels)
                              /\ Len(names[k]) > 1 =>
                                     \E j \in DOMAIN inputs \ {k} :
                                         NameAtLevel(shown(j), Len(names[k]) - 1) = Tail(names[k])
    BY DEF NamesTellApart
  <2> DEFINE inputs == task[w].inputs
             paths == [k \in DOMAIN inputs |-> PathOf[inputs[k]]]
  <2>1. inputs \in Seq(Names)
    BY TasksAssumption DEF TaskInv, Task
  <2>2. DOMAIN paths = DOMAIN inputs /\ \A k \in DOMAIN inputs : paths[k] = PathOf[inputs[k]]
    OBVIOUS
  <2>3. DisplayNames(task[w]) = UniqueDisplayNames(paths)
    BY DEF DisplayNames
  <2>4. \A k \in DOMAIN inputs : inputs[k] \in Names
    <3> HIDE DEF inputs
    <3>1. QED
      BY <2>1
  <2> HIDE DEF paths, inputs
  <2>5. \A k \in DOMAIN paths : paths[k] \in Seq(STRING) /\ paths[k] # <<>>
    BY <2>2, <2>4, PathsAssumption
  <2>6. QED
    BY <2>2, <2>3, <2>5, DisplayNamesTellApart DEF inputs
<1>2. QED
  BY <1>1, TaskInvHolds, PTL

-----------------------------------------------------------------------------
(* The lines of a file. *)

LEMMA GluedType ==
  ASSUME NEW first \in Piece, NEW second \in Piece
  PROVE  Glued(first, second) \in Piece
<1> DEFINE kind == CASE second.kind = "blank" -> first.kind
                     [] StartsWithFrom(first) -> "malformed"
                     [] OTHER -> "text"
<1>1. kind \in Kinds
  BY DEF Piece, Kinds
<1>2. Glued(first, second) = [first EXCEPT !.nl = second.nl, !.kind = kind]
  BY DEF Glued
<1>3. second.nl \in BOOLEAN
  BY DEF Piece
<1> HIDE DEF kind
<1>4. QED
  BY <1>1, <1>2, <1>3 DEF Piece

LEMMA WithPieceType ==
  ASSUME NEW lines \in Seq(Piece), NEW piece \in Piece
  PROVE  /\ WithPiece(lines, piece) \in Seq(Piece)
         /\ WithPiece(lines, piece) # <<>>
<1>1. CASE lines # <<>> /\ ~Last(lines).nl
  <2> DEFINE front == Front(lines)
             last == Last(lines)
  <2>1. front \in Seq(Piece) /\ last \in Piece
    <3>1. Len(lines) \in 1 .. Len(lines) /\ 1 .. Len(lines) - 1 \subseteq 1 .. Len(lines)
      BY <1>1
    <3>2. last \in Piece
      BY <3>1 DEF Last
    <3>3. \A i \in 1 .. Len(lines) - 1 : lines[i] \in Piece
      BY <3>1
    <3>4. front \in Seq(Piece)
      BY <3>3, SubSeqProperties DEF Front
    <3>5. QED
      BY <3>2, <3>4
  <2>2. Glued(last, piece) \in Piece
    BY <2>1, GluedType
  <2>3. WithPiece(lines, piece) = Append(front, Glued(last, piece))
    BY <1>1 DEF WithPiece
  <2> HIDE DEF front, last
  <2>4. QED
    BY <2>1, <2>2, <2>3
<1>2. CASE ~(lines # <<>> /\ ~Last(lines).nl)
  <2>1. WithPiece(lines, piece) = Append(lines, piece)
    BY <1>2 DEF WithPiece
  <2>2. QED
    BY <2>1
<1>3. QED
  BY <1>1, <1>2

LEMMA JoinedIsBuilt ==
  ASSUME NEW content \in Seq(Piece)
  PROVE  \E f \in [0 .. Len(content) -> Seq(Piece)] :
             /\ f[0] = <<>>
             /\ \A n \in 1 .. Len(content) : f[n] = WithPiece(f[n - 1], content[n])
             /\ Joined(content) = f[Len(content)]
<1> DEFINE last == Len(content)
           Body(f) == [n \in 0 .. last |->
                          IF n = 0 THEN <<>> ELSE WithPiece(f[n - 1], content[n])]
           step == [x \in (1 .. last) \X Seq(Piece) |-> WithPiece(x[2], content[x[1]])]
<1>1. last \in Nat /\ \A n \in 1 .. last : content[n] \in Piece
  OBVIOUS
<1>2. step \in [(1 .. last) \X Seq(Piece) -> Seq(Piece)]
  <2>1. ASSUME NEW x \in (1 .. last) \X Seq(Piece)
        PROVE  WithPiece(x[2], content[x[1]]) \in Seq(Piece)
    <3>1. x[2] \in Seq(Piece) /\ content[x[1]] \in Piece
      BY <1>1
    <3>2. QED
      BY <3>1, WithPieceType
  <2>2. QED
    BY <2>1
<1>3. <<>> \in Seq(Piece)
  OBVIOUS
<1>4. \A n \in 1 .. last, lines \in Seq(Piece) :
          step[<<n, lines>>] = WithPiece(lines, content[n])
  OBVIOUS
<1> HIDE DEF step, Body, last
<1>5. PICK f \in [0 .. last -> Seq(Piece)] : Follows(f, last, <<>>, step)
  BY <1>1, <1>2, <1>3, RecursionUpTo
<1>6. \A n \in 1 .. last : f[n] = WithPiece(f[n - 1], content[n])
  <2>1. \A n \in 1 .. last : f[n - 1] \in Seq(Piece)
    BY <1>1
  <2>2. QED
    BY <1>4, <1>5, <2>1 DEF Follows
<1>7. f = Body(f)
  <2>1. \A n \in 0 .. last : f[n] = IF n = 0 THEN <<>> ELSE WithPiece(f[n - 1], content[n])
    <3>1. ASSUME NEW n \in 0 .. last, n # 0
          PROVE  n \in 1 .. last
      BY <1>1, <3>1
    <3>2. QED
      BY <1>5, <1>6, <3>1 DEF Follows
  <2>2. f = [n \in 0 .. last |-> f[n]]
    BY <1>5
  <2>3. QED
    BY <2>1, <2>2 DEF Body
<1> DEFINE upTo == CHOOSE u : u = Body(u)
<1>8. upTo = Body(upTo)
  BY <1>7
<1>9. Joined(content) = upTo[last]
  BY DEF Joined, Body, last
<1> HIDE DEF upTo
<1>10. /\ upTo[0] = <<>>
       /\ \A n \in 1 .. last : upTo[n] = WithPiece(upTo[n - 1], content[n])
  <2>1. \A n \in 0 .. last : upTo[n] = IF n = 0 THEN <<>> ELSE WithPiece(upTo[n - 1], content[n])
    BY <1>8 DEF Body
  <2>2. 0 \in 0 .. last /\ \A n \in 1 .. last : n \in 0 .. last /\ n # 0
    BY <1>1
  <2>3. QED
    BY <2>1, <2>2
<1> DEFINE S == {n \in 0 .. last : upTo[n] \in Seq(Piece)}
<1>11. 0 \in S
  <2>1. 0 \in 0 .. last
    BY <1>1
  <2>2. upTo[0] \in Seq(Piece)
    BY <1>10, <1>3, Zenon
  <2>3. QED
    BY <2>1, <2>2
<1>12. ASSUME NEW n \in 0 .. last, n \in S, n < last
       PROVE  n + 1 \in S
  <2>1. n + 1 \in 1 .. last /\ n + 1 \in 0 .. last /\ (n + 1) - 1 = n
    BY <1>1, <1>12
  <2>2. upTo[n + 1] = WithPiece(upTo[n], content[n + 1])
    BY <1>10, <2>1
  <2>3. upTo[n + 1] \in Seq(Piece)
    BY <1>1, <1>12, <2>1, <2>2, WithPieceType
  <2>4. QED
    BY <2>1, <2>3
<1>13. \A n \in 0 .. last : n \in S
  <2> HIDE DEF S
  <2>1. QED
    BY <1>1, <1>11, <1>12, InductionUpTo
<1>14. upTo = [n \in 0 .. last |-> upTo[n]]
  BY <1>8 DEF Body
<1>15. upTo \in [0 .. last -> Seq(Piece)]
  BY <1>13, <1>14
<1>16. QED
  BY <1>9, <1>10, <1>15 DEF last

(* Lines that all end but perhaps the last one are read as they are.       *)
LEMMA WholeLinesAreRead ==
  ASSUME NEW content, IsMailbox(content)
  PROVE  Joined(content) = content
<1>1. content \in Seq(Piece) /\ Len(content) \in Nat /\ \A i \in 1 .. Len(content) - 1 : content[i].nl
  BY DEF IsMailbox
<1>2. PICK f \in [0 .. Len(content) -> Seq(Piece)] :
          /\ f[0] = <<>>
          /\ \A n \in 1 .. Len(content) : f[n] = WithPiece(f[n - 1], content[n])
          /\ Joined(content) = f[Len(content)]
  BY <1>1, JoinedIsBuilt
<1> DEFINE S == {n \in 0 .. Len(content) : f[n] = SubSeq(content, 1, n)}
<1>3. 0 \in S
  BY <1>1, <1>2
<1>4. ASSUME NEW n \in 0 .. Len(content), n \in S, n < Len(content)
      PROVE  n + 1 \in S
  <2> DEFINE before == SubSeq(content, 1, n)
  <2>1. /\ n + 1 \in 1 .. Len(content) /\ (n + 1) - 1 = n /\ n + 1 \in 0 .. Len(content)
        /\ content[n + 1] \in Piece
        /\ \A i \in 1 .. n : content[i] \in Piece
    BY <1>1, <1>4
  <2>2. f[n + 1] = WithPiece(before, content[n + 1])
    BY <1>2, <1>4, <2>1
  <2>3. /\ before \in Seq(Piece) /\ Len(before) = n
        /\ \A i \in 1 .. n : before[i] = content[i]
    BY <1>1, <2>1, SubSeqProperties
  <2> HIDE DEF before
  <2>4. before # <<>> => Last(before).nl
    <3>1. SUFFICES ASSUME before # <<>>
                   PROVE  Last(before).nl
      OBVIOUS
    <3>2. n \in 1 .. n /\ n \in 1 .. Len(content) - 1
      BY <1>1, <1>4, <2>3, <3>1
    <3>3. QED
      BY <1>1, <2>3, <3>2 DEF Last
  <2>5. f[n + 1] = Append(before, content[n + 1])
    BY <2>2, <2>4 DEF WithPiece
  <2>6. SubSeq(content, 1, n + 1) = before \o <<content[n + 1]>>
    BY <1>1, <2>1, SubSeqRecursiveSecond DEF before
  <2>7. Append(before, content[n + 1]) = before \o <<content[n + 1]>>
    BY <2>1, <2>3
  <2>8. QED
    BY <2>1, <2>5, <2>6, <2>7
<1>5. Len(content) \in S
  <2> HIDE DEF S
  <2>1. \A n \in 0 .. Len(content) : n \in S
    BY <1>1, <1>3, <1>4, InductionUpTo
  <2>2. QED
    BY <1>1, <2>1
<1>6. QED
  BY <1>1, <1>2, <1>5, SubSeqFull

(* The messages of a mailbox: as many as there are lines to start at, each *)
(* from its first line up to the next such line.                           *)
LEMMA MessagesAre ==
  ASSUME NEW content, IsMailbox(content)
  PROVE  LET messages == MessagesIn(content)
         IN  /\ IsFiniteSet(Starts(content)) /\ Starts(content) \subseteq 1 .. Len(content)
             /\ Cardinality(Starts(content)) \in Nat
             /\ Len(messages) = Cardinality(Starts(content))
             /\ DOMAIN messages = 1 .. Len(messages)
             /\ messages \in Seq(Seq(Piece))
             /\ \A i \in Starts(content) :
                    \E k \in DOMAIN messages : messages[k] # <<>> /\ messages[k][1] = content[i]
             /\ \A k \in DOMAIN messages :
                    \E i \in Starts(content), j \in 1 .. Len(content) :
                        /\ i <= j /\ messages[k] = SubSeq(content, i, j)
                        /\ \A m \in i + 1 .. j : m \notin Starts(content)
<1> DEFINE starts == Starts(content)
           list == Ascending(starts)
           count == Cardinality(starts)
           end(k) == IF k = count THEN Len(content) ELSE list[k + 1] - 1
           cut == [k \in 1 .. count |-> SubSeq(content, list[k], end(k))]
<1>1. content \in Seq(Piece) /\ Len(content) \in Nat /\ DOMAIN content = 1 .. Len(content)
  BY DEF IsMailbox
<1>2. /\ starts \subseteq 1 .. Len(content) /\ IsFiniteSet(starts) /\ starts \in SUBSET Nat
  <2>1. starts \subseteq 1 .. Len(content)
    BY <1>1 DEF Starts
  <2>2. IsFiniteSet(1 .. Len(content))
    BY <1>1, FS_Interval
  <2> HIDE DEF starts
  <2>3. IsFiniteSet(starts)
    BY <2>1, <2>2, FS_Subset
  <2>4. QED
    BY <1>1, <2>1, <2>3
<1>3. MessagesIn(content) = [k \in DOMAIN list |->
          SubSeq(content, list[k], IF k = Len(list) THEN Len(content) ELSE list[k + 1] - 1)]
  <2>1. Picked(content, starts) = list
    <3>1. DOMAIN content \cap starts = starts
      BY <1>1, <1>2
    <3>2. QED
      BY <3>1 DEF Picked
  <2>2. QED
    BY <2>1, WholeLinesAreRead DEF MessagesIn
<1> HIDE DEF starts
<1>4. /\ count \in Nat /\ list \in [1 .. count -> starts]
      /\ \A i \in starts : \E n \in 1 .. count : list[n] = i
      /\ \A i, j \in 1 .. count : i < j => list[i] < list[j]
  BY <1>2, AscendingListsTheSet
<1> HIDE DEF list, count
<1>5. DOMAIN list = 1 .. count /\ Len(list) = count
  BY <1>4
<1>6. MessagesIn(content) = cut
  BY <1>3, <1>5
<1>7. ASSUME NEW k \in 1 .. count
      PROVE  /\ list[k] \in starts /\ list[k] \in 1 .. Len(content)
             /\ end(k) \in 1 .. Len(content) /\ list[k] <= end(k)
             /\ \A m \in list[k] + 1 .. end(k) : m \notin starts
  <2>1. list[k] \in starts /\ list[k] \in 1 .. Len(content)
    BY <1>2, <1>4
  <2>2. CASE k = count
    <3>1. end(k) = Len(content)
      BY <2>2
    <3>2. ASSUME NEW m \in list[k] + 1 .. end(k), m \in starts
          PROVE  FALSE
      <4>1. PICK n \in 1 .. count : list[n] = m
        BY <1>4, <3>2
      <4>2. n = k \/ n < k
        BY <1>4, <2>2, <4>1
      <4>3. list[n] = list[k] \/ list[n] < list[k]
        BY <1>4, <4>2
      <4>4. QED
        BY <2>1, <3>2, <4>1, <4>3
    <3>3. QED
      BY <1>1, <2>1, <3>1, <3>2
  <2>3. CASE k # count
    <3>1. k + 1 \in 1 .. count /\ k < k + 1 /\ end(k) = list[k + 1] - 1
      BY <1>4, <2>3
    <3>2. list[k + 1] \in 1 .. Len(content) /\ list[k] < list[k + 1]
      BY <1>2, <1>4, <3>1
    <3>3. ASSUME NEW m \in list[k] + 1 .. end(k), m \in starts
          PROVE  FALSE
      <4>1. PICK n \in 1 .. count : list[n] = m
        BY <1>4, <3>3
      <4>2. n = k \/ n < k \/ n = k + 1 \/ k + 1 < n
        BY <1>4, <4>1
      <4>3. list[n] = list[k] \/ list[n] < list[k] \/ list[n] = list[k + 1] \/ list[k + 1] < list[n]
        BY <1>4, <3>1, <4>2
      <4>4. QED
        BY <2>1, <3>1, <3>2, <3>3, <4>1, <4>3
    <3>4. QED
      BY <2>1, <3>1, <3>2, <3>3
  <2>4. QED
    BY <2>2, <2>3
<1>8. \A k \in 1 .. count : cut[k] = SubSeq(content, list[k], end(k))
  OBVIOUS
<1> HIDE DEF end
<1>9. ASSUME NEW k \in 1 .. count
      PROVE  /\ cut[k] \in Seq(Piece)
             /\ cut[k] # <<>> /\ cut[k][1] = content[list[k]]
  <2>1. \A i \in list[k] .. end(k) : content[i] \in Piece
    BY <1>1, <1>7
  <2>2. /\ SubSeq(content, list[k], end(k)) \in Seq(Piece)
        /\ Len(SubSeq(content, list[k], end(k))) = end(k) - list[k] + 1
        /\ \A i \in 1 .. end(k) - list[k] + 1 :
               SubSeq(content, list[k], end(k))[i] = content[list[k] + i - 1]
    BY <1>7, <2>1, SubSeqProperties
  <2>3. 1 \in 1 .. end(k) - list[k] + 1 /\ list[k] + 1 - 1 = list[k]
    BY <1>7
  <2>4. SubSeq(content, list[k], end(k))[1] = content[list[k]]
    BY <2>2, <2>3
  <2>5. SubSeq(content, list[k], end(k)) # <<>>
    <3> DEFINE part == SubSeq(content, list[k], end(k))
    <3>1. part \in Seq(Piece) /\ Len(part) # 0
      BY <1>7, <2>2
    <3> HIDE DEF part
    <3>2. part # <<>>
      BY <3>1
    <3>3. QED
      BY <3>2 DEF part
  <2>6. QED
    BY <1>8, <2>2, <2>4, <2>5
<1>10. cut \in Seq(Seq(Piece)) /\ Len(cut) = count /\ DOMAIN cut = 1 .. count
  <2>1. cut \in [1 .. count -> Seq(Piece)]
    BY <1>9
  <2> HIDE DEF cut
  <2>2. QED
    BY <1>4, <2>1
<1> HIDE DEF cut
<1>11. \A i \in starts : \E k \in 1 .. count : cut[k] # <<>> /\ cut[k][1] = content[i]
  BY <1>4, <1>9
<1>12. \A k \in 1 .. count :
           \E i \in starts, j \in 1 .. Len(content) :
               /\ i <= j /\ cut[k] = SubSeq(content, i, j)
               /\ \A m \in i + 1 .. j : m \notin starts
  BY <1>7, <1>8
<1>13. QED
  BY ZenonT(30), <1>2, <1>4, <1>6, <1>10, <1>11, <1>12 DEF starts, count

-----------------------------------------------------------------------------
(* The lines of a file at which a reader may see a message start.          *)
IsMark(line) == line.kind \in {"separator", "gitpatch"}

Marks(content) == {i \in 1 .. Len(content) : IsMark(content[i])}

LEMMA MarksAreFinite ==
  ASSUME NEW content \in Seq(Piece)
  PROVE  /\ IsFiniteSet(Marks(content)) /\ Cardinality(Marks(content)) \in Nat
         /\ Marks(content) \subseteq 1 .. Len(content)
<1>1. IsFiniteSet(1 .. Len(content)) /\ Marks(content) \in SUBSET (1 .. Len(content))
  BY FS_Interval DEF Marks
<1>2. QED
  BY <1>1, FS_Subset, FS_CardinalityType

(* The marks of one file behind another. *)
LEMMA MarksJoin ==
  ASSUME NEW old \in Seq(Piece), NEW new \in Seq(Piece)
  PROVE  Marks(old \o new) = Marks(old) \cup {i + Len(old) : i \in Marks(new)}
<1> DEFINE n == Len(old)
           both == old \o new
           Shifted == {i + n : i \in Marks(new)}
<1>1. /\ n \in Nat /\ Len(new) \in Nat /\ Len(both) = n + Len(new)
      /\ \A i \in 1 .. n + Len(new) : both[i] = IF i <= n THEN old[i] ELSE new[i - n]
  BY ConcatProperties
<1> HIDE DEF n, both
<1>2. ASSUME NEW i \in Marks(both)
      PROVE  i \in Marks(old) \cup Shifted
  <2>1. i \in 1 .. n + Len(new) /\ IsMark(both[i])
    BY <1>1 DEF Marks
  <2>2. CASE i <= n
    BY <1>1, <2>1, <2>2 DEF Marks, n
  <2>3. CASE ~(i <= n)
    <3>1. i - n \in 1 .. Len(new) /\ (i - n) + n = i
      BY <1>1, <2>1, <2>3
    <3>2. i - n \in Marks(new)
      BY <1>1, <2>1, <2>3, <3>1 DEF Marks
    <3>3. QED
      BY <3>1, <3>2
  <2>4. QED
    BY <2>2, <2>3
<1>3. ASSUME NEW i \in Marks(old)
      PROVE  i \in Marks(both)
  BY <1>1 DEF Marks, n
<1>4. ASSUME NEW j \in Marks(new)
      PROVE  j + n \in Marks(both)
  <2>1. j \in 1 .. Len(new) /\ IsMark(new[j])
    BY DEF Marks
  <2>2. j + n \in 1 .. n + Len(new) /\ ~(j + n <= n) /\ (j + n) - n = j
    BY <1>1, <2>1
  <2>3. QED
    BY <1>1, <2>1, <2>2 DEF Marks
<1>5. Marks(both) = Marks(old) \cup Shifted
  BY <1>2, <1>3, <1>4
<1>6. QED
  BY <1>5 DEF both, n

LEMMA MarksAdd ==
  ASSUME NEW old \in Seq(Piece), NEW new \in Seq(Piece)
  PROVE  Cardinality(Marks(old \o new)) = Cardinality(Marks(old)) + Cardinality(Marks(new))
<1> DEFINE n == Len(old)
           both == old \o new
           Shifted == {i + n : i \in Marks(new)}
           shift == [i \in Marks(new) |-> i + n]
<1>1. /\ n \in Nat /\ Len(new) \in Nat /\ Len(both) = n + Len(new)
      /\ \A i \in 1 .. n + Len(new) : both[i] = IF i <= n THEN old[i] ELSE new[i - n]
  BY ConcatProperties
<1>2. Marks(both) = Marks(old) \cup Shifted
  BY MarksJoin
<1> HIDE DEF n, both
<1>3. IsFiniteSet(Marks(new)) /\ IsFiniteSet(Marks(old))
  BY MarksAreFinite
<1>4. IsFiniteSet(Shifted) /\ Cardinality(Shifted) = Cardinality(Marks(new))
  <2>1. \A i \in Marks(new) : i \in Nat
    BY DEF Marks
  <2>2. shift \in Bijection(Marks(new), Shifted)
    <3>1. shift \in [Marks(new) -> Shifted]
      OBVIOUS
    <3>2. \A i, j \in Marks(new) : shift[i] = shift[j] => i = j
      BY <1>1, <2>1
    <3>3. \A y \in Shifted : \E i \in Marks(new) : shift[i] = y
      OBVIOUS
    <3> HIDE DEF shift, Shifted
    <3>4. QED
      BY <3>1, <3>2, <3>3 DEF Bijection, Injection, IsInjective, Surjection
  <2> HIDE DEF shift, Shifted
  <2>3. ExistsBijection(Marks(new), Shifted)
    BY <2>2 DEF ExistsBijection
  <2>4. QED
    BY <1>3, <2>3, FS_Bijection
<1>5. Marks(old) \cap Shifted = {}
  BY <1>1 DEF Marks, n
<1> HIDE DEF Shifted
<1>6. /\ Cardinality(Marks(old) \cup Shifted)
             = Cardinality(Marks(old)) + Cardinality(Shifted) - Cardinality(Marks(old) \cap Shifted)
  BY <1>3, <1>4, FS_Union
<1>7. Cardinality(Marks(old) \cap Shifted) = 0
  BY <1>5, FS_EmptySet
<1>8. Cardinality(Marks(old)) \in Nat /\ Cardinality(Marks(new)) \in Nat
  BY <1>3, FS_CardinalityType
<1>9. QED
  BY <1>2, <1>4, <1>6, <1>7, <1>8 DEF both

-----------------------------------------------------------------------------
(* What the names hold is a mailbox each.                                  *)
IsInput(content) == IsMailbox(content) /\ HasNoLabels(content)

Readable(files) == \A n \in Inputs : IsInput(files[n])

TheseMessages(t, files, k) == MessagesIn(files[t.inputs[k]])

(* The messages of every input, with the name and the number they have.    *)
SourcesOf(t, files) ==
    [k \in DOMAIN t.inputs |->
        [n \in DOMAIN TheseMessages(t, files, k) |->
            [message |-> TheseMessages(t, files, k)[n], name |-> SourceLabels(t)[k], number |-> n]]]

LEMMA SourcesAre == \A t, files : Sources(t, files) = FlattenSeq(SourcesOf(t, files))
  BY DEF Sources, SourcesOf, TheseMessages

LEMMA TaskFacts ==
  ASSUME NEW t \in Tasks
  PROVE  /\ t.op \in {"merge", "export"} /\ t.dedup \in BOOLEAN /\ t.label \in BOOLEAN
         /\ t.op = "export" => ~t.dedup /\ ~t.label
         /\ t.inputs \in Seq(Names) /\ Len(t.inputs) \in Nat /\ DOMAIN t.inputs = 1 .. Len(t.inputs)
         /\ \A k \in DOMAIN t.inputs : t.inputs[k] \in Inputs /\ t.inputs[k] \in Names
         /\ Range(t.inputs) \subseteq Inputs
         /\ t.output \notin Inputs /\ TempOf[t.output] \notin Inputs
<1>1. t \in Task
  BY TasksAssumption
<1>2. /\ t.op \in {"merge", "export"} /\ t.dedup \in BOOLEAN /\ t.label \in BOOLEAN
      /\ t.op = "export" => ~t.dedup /\ ~t.label
      /\ t.inputs \in Seq(Names)
  BY <1>1 DEF Task
<1>3. Len(t.inputs) \in Nat /\ DOMAIN t.inputs = 1 .. Len(t.inputs)
  BY <1>2
<1>4. \A k \in DOMAIN t.inputs : t.inputs[k] \in Inputs /\ t.inputs[k] \in Names
  BY <1>2 DEF Inputs, Range
<1>5. Range(t.inputs) \subseteq Inputs
  BY DEF Inputs
<1>6. \A n \in Inputs : n # t.output /\ n # TempOf[t.output]
  <2>1. ASSUME NEW n \in Inputs
        PROVE  n # t.output /\ n # TempOf[t.output]
    <3>1. PICK u \in Tasks : n \in Range(u.inputs)
      BY DEF Inputs
    <3>2. PICK i \in DOMAIN u.inputs : n = u.inputs[i]
      BY <3>1 DEF Range
    <3>3. QED
      BY <3>2, InputsAssumption
  <2>2. QED
    BY <2>1
<1>7. QED
  BY <1>2, <1>3, <1>4, <1>5, <1>6

LEMMA TheseMessagesAre ==
  ASSUME NEW t \in Tasks, NEW files, Readable(files), NEW k \in DOMAIN t.inputs
  PROVE  /\ IsMailbox(files[t.inputs[k]]) /\ HasNoLabels(files[t.inputs[k]])
         /\ TheseMessages(t, files, k) \in Seq(Seq(Piece))
         /\ Len(TheseMessages(t, files, k)) \in Nat
         /\ DOMAIN TheseMessages(t, files, k) = 1 .. Len(TheseMessages(t, files, k))
<1>1. IsMailbox(files[t.inputs[k]]) /\ HasNoLabels(files[t.inputs[k]])
  BY TaskFacts DEF Readable, IsInput
<1>2. QED
  BY <1>1, MessagesAre DEF TheseMessages

(* Some set of sources is all that the lemmas about sequences need.        *)
LEMMA SourcesType ==
  ASSUME NEW t \in Tasks, NEW files, Readable(files)
  PROVE  \E S : SourcesOf(t, files) \in Seq(Seq(S))
<1> DEFINE S == [message : Seq(Piece), name : {SourceLabels(t)[k] : k \in DOMAIN t.inputs},
                 number : Nat]
           parts == SourcesOf(t, files)
<1>1. ASSUME NEW k \in DOMAIN t.inputs
      PROVE  parts[k] \in Seq(S)
  <2> DEFINE messages == TheseMessages(t, files, k)
             name == SourceLabels(t)[k]
  <2>1. messages \in Seq(Seq(Piece)) /\ Len(messages) \in Nat /\ DOMAIN messages = 1 .. Len(messages)
    BY TheseMessagesAre
  <2>2. parts[k] = [n \in DOMAIN messages |-> [message |-> messages[n], name |-> name, number |-> n]]
    BY DEF SourcesOf
  <2>3. name \in {SourceLabels(t)[i] : i \in DOMAIN t.inputs}
    OBVIOUS
  <2> HIDE DEF messages, name, parts
  <2>4. \A n \in 1 .. Len(messages) : messages[n] \in Seq(Piece) /\ n \in Nat
    BY <2>1
  <2>5. \A n \in 1 .. Len(messages) : [message |-> messages[n], name |-> name, number |-> n] \in S
    BY <2>3, <2>4
  <2> HIDE DEF S
  <2>6. [n \in 1 .. Len(messages) |-> [message |-> messages[n], name |-> name, number |-> n]]
            \in [1 .. Len(messages) -> S]
    BY <2>5
  <2>7. QED
    BY <2>1, <2>2, <2>6
<1>2. DOMAIN parts = 1 .. Len(t.inputs) /\ Len(t.inputs) \in Nat
  BY TaskFacts DEF SourcesOf
<1>3. parts = [k \in 1 .. Len(t.inputs) |-> parts[k]]
  BY <1>2 DEF SourcesOf
<1>4. parts \in [1 .. Len(t.inputs) -> Seq(S)]
  <2> HIDE DEF parts, S
  <2>1. QED
    BY <1>1, <1>2, <1>3, TaskFacts
<1>5. parts \in Seq(Seq(S))
  <2> HIDE DEF parts, S
  <2>1. QED
    BY <1>2, <1>4
<1>6. QED
  BY <1>5

(* Every message of an input is among the sources. *)
LEMMA MessageIsASource ==
  ASSUME NEW t \in Tasks, NEW files, Readable(files), NEW k \in DOMAIN t.inputs,
         NEW m \in DOMAIN TheseMessages(t, files, k)
  PROVE  \E source \in Range(Sources(t, files)) :
             source.message = TheseMessages(t, files, k)[m]
<1> DEFINE parts == SourcesOf(t, files)
           source == parts[k][m]
<1>1. PICK S : parts \in Seq(Seq(S))
  BY SourcesType
<1>2. source.message = TheseMessages(t, files, k)[m] /\ DOMAIN parts[k] = DOMAIN TheseMessages(t, files, k)
  BY DEF SourcesOf
<1>3. DOMAIN parts = DOMAIN t.inputs
  BY DEF SourcesOf
<1> HIDE DEF parts
<1>4. k \in 1 .. Len(parts) /\ m \in 1 .. Len(parts[k])
  <2>1. k \in 1 .. Len(parts) /\ parts[k] \in Seq(S)
    BY <1>1, <1>3
  <2>2. QED
    BY <1>2, <2>1
<1>5. PICK p \in 1 .. Len(FlattenSeq(parts)) : FlattenSeq(parts)[p] = source
  BY <1>1, <1>4, FlattenHas
<1>6. p \in DOMAIN FlattenSeq(parts)
  BY <1>1, FlattenType
<1>7. Sources(t, files) = FlattenSeq(parts)
  BY SourcesAre DEF parts
<1>8. source \in Range(Sources(t, files))
  BY <1>5, <1>6, <1>7 DEF Range
<1>9. QED
  BY <1>2, <1>8

(* Every line of an input is among the lines of the inputs. *)
LEMMA LineIsALine ==
  ASSUME NEW t \in Tasks, NEW files, Readable(files), NEW k \in DOMAIN t.inputs,
         NEW i \in 1 .. Len(files[t.inputs[k]])
  PROVE  \E p \in DOMAIN FlattenSeq(InputsOf(t, files)) :
             FlattenSeq(InputsOf(t, files))[p] = files[t.inputs[k]][i]
<1> DEFINE parts == InputsOf(t, files)
<1>1. /\ DOMAIN parts = 1 .. Len(t.inputs) /\ Len(t.inputs) \in Nat
      /\ \A j \in DOMAIN t.inputs : parts[j] = files[t.inputs[j]]
      /\ parts = [j \in 1 .. Len(t.inputs) |-> parts[j]]
      /\ DOMAIN t.inputs = 1 .. Len(t.inputs)
  BY TaskFacts DEF InputsOf
<1> HIDE DEF parts
<1>2. \A j \in DOMAIN t.inputs : parts[j] \in Seq(Piece)
  <2>1. \A j \in DOMAIN t.inputs : IsMailbox(files[t.inputs[j]])
    BY TheseMessagesAre
  <2>2. QED
    BY <1>1, <2>1 DEF IsMailbox
<1>3. parts \in Seq(Seq(Piece)) /\ Len(parts) = Len(t.inputs)
  <2>1. parts \in [1 .. Len(t.inputs) -> Seq(Piece)]
    BY <1>1, <1>2
  <2>2. QED
    BY <1>1, <2>1
<1>4. k \in 1 .. Len(parts) /\ i \in 1 .. Len(parts[k])
  BY <1>1, <1>3
<1>5. PICK p \in 1 .. Len(FlattenSeq(parts)) : FlattenSeq(parts)[p] = parts[k][i]
  BY <1>3, <1>4, FlattenHas
<1>6. p \in DOMAIN FlattenSeq(parts)
  BY <1>3, FlattenType
<1>7. QED
  BY <1>1, <1>5, <1>6 DEF parts

(* The number of the sources in the first inputs, and in one more.         *)
LEMMA CountSources ==
  ASSUME NEW t \in Tasks, NEW files, Readable(files), NEW n \in 0 .. Len(t.inputs)
  PROVE  /\ Len(FlattenSeq(SubSeq(SourcesOf(t, files), 1, n))) \in Nat
         /\ n = 0 => Len(FlattenSeq(SubSeq(SourcesOf(t, files), 1, n))) = 0
         /\ n = Len(t.inputs) =>
                FlattenSeq(SubSeq(SourcesOf(t, files), 1, n)) = Sources(t, files)
         /\ n < Len(t.inputs) =>
                Len(FlattenSeq(SubSeq(SourcesOf(t, files), 1, n + 1)))
                    = Len(FlattenSeq(SubSeq(SourcesOf(t, files), 1, n)))
                          + Len(TheseMessages(t, files, n + 1))
<1> DEFINE parts == SourcesOf(t, files)
<1>1. PICK S : parts \in Seq(Seq(S))
  BY SourcesType
<1>2. /\ DOMAIN parts = 1 .. Len(t.inputs) /\ Len(t.inputs) \in Nat
      /\ DOMAIN t.inputs = 1 .. Len(t.inputs)
  BY TaskFacts DEF SourcesOf
<1>3. \A k \in DOMAIN t.inputs : DOMAIN parts[k] = DOMAIN TheseMessages(t, files, k)
  BY DEF SourcesOf
<1>4. Sources(t, files) = FlattenSeq(parts)
  BY SourcesAre
<1> HIDE DEF parts
<1>5. Len(parts) = Len(t.inputs)
  BY <1>1, <1>2
<1>6. /\ FlattenSeq(SubSeq(parts, 1, n)) \in Seq(S)
      /\ n < Len(parts) =>
             FlattenSeq(SubSeq(parts, 1, n + 1)) = FlattenSeq(SubSeq(parts, 1, n)) \o parts[n + 1]
  BY <1>1, <1>5, FlattenOneMore
<1>7. n = 0 => Len(FlattenSeq(SubSeq(parts, 1, n))) = 0
  <2>1. SUFFICES ASSUME n = 0
                 PROVE  Len(FlattenSeq(SubSeq(parts, 1, 0))) = 0
    OBVIOUS
  <2>2. SubSeq(parts, 1, 0) = <<>>
    BY SubSeqEmpty
  <2>3. Len(FlattenSeq(<<>>)) = 0
    BY FlattenNothing
  <2>4. QED
    BY <2>2, <2>3, Zenon
<1>8. n = Len(t.inputs) => FlattenSeq(SubSeq(parts, 1, n)) = Sources(t, files)
  BY <1>1, <1>4, <1>5, SubSeqFull
<1>9. ASSUME n < Len(t.inputs)
      PROVE  Len(FlattenSeq(SubSeq(parts, 1, n + 1)))
                 = Len(FlattenSeq(SubSeq(parts, 1, n))) + Len(TheseMessages(t, files, n + 1))
  <2>1. n + 1 \in DOMAIN t.inputs /\ n + 1 \in 1 .. Len(parts)
    BY <1>2, <1>5, <1>9
  <2>2. parts[n + 1] \in Seq(S)
    BY <1>1, <2>1
  <2>3. Len(parts[n + 1]) = Len(TheseMessages(t, files, n + 1))
    <3>1. /\ Len(TheseMessages(t, files, n + 1)) \in Nat
          /\ DOMAIN TheseMessages(t, files, n + 1) = 1 .. Len(TheseMessages(t, files, n + 1))
      BY <2>1, TheseMessagesAre
    <3>2. DOMAIN parts[n + 1] = 1 .. Len(TheseMessages(t, files, n + 1))
      BY <1>3, <2>1, <3>1
    <3>3. QED
      BY <2>2, <3>1, <3>2
  <2>4. FlattenSeq(SubSeq(parts, 1, n + 1)) = FlattenSeq(SubSeq(parts, 1, n)) \o parts[n + 1]
    BY <1>5, <1>6, <1>9
  <2> DEFINE before == FlattenSeq(SubSeq(parts, 1, n))
             one == parts[n + 1]
  <2>5. before \in Seq(S) /\ one \in Seq(S)
    BY <1>6, <2>2
  <2>6. Len(before \o one) = Len(before) + Len(one)
    <3> HIDE DEF before, one
    <3>1. QED
      BY <2>5, ConcatProperties
  <2>7. QED
    BY <2>3, <2>4, <2>6, Zenon
<1>10. Len(FlattenSeq(SubSeq(parts, 1, n))) \in Nat
  BY <1>6
<1>11. QED
  BY <1>7, <1>8, <1>9, <1>10 DEF parts

-----------------------------------------------------------------------------
(* Mailboxes that are alike: patches, or none with the date of a patch.    *)
FirstKinds(t, files) == {source.message[1].kind : source \in Range(Sources(t, files))}

ArePatches(t, files) == FirstKinds(t, files) \subseteq {"gitpatch"}

HaveNoPatches(t, files) ==
    /\ FirstKinds(t, files) \subseteq {"separator"}
    /\ \A k \in DOMAIN t.inputs : \A i \in 1 .. Len(files[t.inputs[k]]) :
           files[t.inputs[k]][i].kind # "gitpatch"

(* A file, or a message, of the kind of the mailboxes. *)
IsOfTheKind(t, files, content) ==
    /\ ArePatches(t, files) /\ content # <<>> => content[1].kind = "gitpatch"
    /\ HaveNoPatches(t, files) =>
           /\ \A i \in 1 .. Len(content) : content[i].kind # "gitpatch"
           /\ content # <<>> => content[1].kind = "separator"

LEMMA AlikeIs ==
  ASSUME NEW t \in Tasks, NEW files, Readable(files), Alike(t, files)
  PROVE  ArePatches(t, files) \/ HaveNoPatches(t, files)
<1> DEFINE all == FlattenSeq(InputsOf(t, files))
<1>1. \/ ArePatches(t, files)
      \/ FirstKinds(t, files) \subseteq {"separator"} /\ \A p \in DOMAIN all : all[p].kind # "gitpatch"
  BY DEF Alike, ArePatches, FirstKinds
<1>2. ASSUME \A p \in DOMAIN all : all[p].kind # "gitpatch",
             NEW k \in DOMAIN t.inputs, NEW i \in 1 .. Len(files[t.inputs[k]])
      PROVE  files[t.inputs[k]][i].kind # "gitpatch"
  <2>1. PICK p \in DOMAIN all : all[p] = files[t.inputs[k]][i]
    BY LineIsALine
  <2> HIDE DEF all
  <2>2. all[p].kind = files[t.inputs[k]][i].kind
    BY <2>1
  <2>3. QED
    BY <1>2, <2>2
<1> HIDE DEF all
<1>3. QED
  BY <1>1, <1>2 DEF HaveNoPatches

LEMMA FirstKindIs ==
  ASSUME NEW t \in Tasks, NEW files, Readable(files), NEW k \in DOMAIN t.inputs,
         NEW m \in DOMAIN TheseMessages(t, files, k)
  PROVE  TheseMessages(t, files, k)[m][1].kind \in FirstKinds(t, files)
<1>1. PICK source \in Range(Sources(t, files)) : source.message = TheseMessages(t, files, k)[m]
  BY MessageIsASource
<1>2. QED
  BY <1>1 DEF FirstKinds

(* A reader sees a message at every mark in such a file. *)
LEMMA StartsAreMarks ==
  ASSUME NEW t \in Tasks, NEW files, Readable(files), Alike(t, files),
         NEW content \in Seq(Piece), IsOfTheKind(t, files, content)
  PROVE  Starts(content) = Marks(content)
<1>1. /\ DOMAIN content = 1 .. Len(content)
      /\ content # <<>> => 1 \in 1 .. Len(content)
  OBVIOUS
<1> DEFINE series == content # <<>> /\ content[1].kind = "gitpatch"
<1>2. Starts(content) = {i \in 1 .. Len(content) : IsFromLine(content, series, i)}
  BY <1>1 DEF Starts
<1>3. CASE ArePatches(t, files)
  <2>1. ASSUME NEW i \in 1 .. Len(content)
        PROVE  IsFromLine(content, series, i) <=> IsMark(content[i])
    <3>1. content # <<>>
      BY <1>1
    <3>2. content[1].kind = "gitpatch" /\ series
      BY <1>3, <3>1 DEF IsOfTheKind
    <3>3. QED
      BY <3>2 DEF IsFromLine, IsMark, StartsWithFrom
  <2> HIDE DEF series
  <2>2. QED
    BY <1>2, <2>1 DEF Marks
<1>4. CASE HaveNoPatches(t, files)
  <2>1. ASSUME NEW i \in 1 .. Len(content)
        PROVE  IsFromLine(content, series, i) <=> IsMark(content[i])
    <3>1. content # <<>>
      BY <1>1
    <3>2. content[1].kind = "separator" /\ content[i].kind # "gitpatch"
      BY <1>4, <3>1 DEF IsOfTheKind
    <3>3. QED
      BY <3>2 DEF IsFromLine, IsMark, StartsWithFrom
  <2> HIDE DEF series
  <2>2. QED
    BY <1>2, <2>1 DEF Marks
<1>5. QED
  BY <1>3, <1>4, AlikeIs

(* A message has one mark, its first line, and ends its lines but perhaps  *)
(* the last.                                                               *)
IsOneMessage(raw) ==
    /\ raw \in Seq(Piece) /\ raw # <<>>
    /\ IsMark(raw[1]) /\ \A i \in 2 .. Len(raw) : ~IsMark(raw[i])
    /\ \A i \in 1 .. Len(raw) - 1 : raw[i].nl

LEMMA MessagesAreOneEach ==
  ASSUME NEW t \in Tasks, NEW files, Readable(files), Alike(t, files),
         NEW k \in DOMAIN t.inputs, NEW m \in DOMAIN TheseMessages(t, files, k)
  PROVE  /\ IsOneMessage(TheseMessages(t, files, k)[m])
         /\ IsOfTheKind(t, files, TheseMessages(t, files, k)[m])
<1> DEFINE content == files[t.inputs[k]]
           raw == TheseMessages(t, files, k)[m]
<1>1. IsMailbox(content)
  BY TheseMessagesAre
<1>2. PICK i \in Starts(content), j \in 1 .. Len(content) :
          /\ i <= j /\ raw = SubSeq(content, i, j)
          /\ \A n \in i + 1 .. j : n \notin Starts(content)
  BY <1>1, MessagesAre DEF TheseMessages
<1>3. Starts(content) \subseteq 1 .. Len(content)
  BY <1>1, MessagesAre
<1>4. raw[1].kind \in FirstKinds(t, files)
  BY FirstKindIs
<1>5. HaveNoPatches(t, files) => \A n \in 1 .. Len(content) : content[n].kind # "gitpatch"
  BY DEF HaveNoPatches
<1> HIDE DEF content, raw
<1>6. content \in Seq(Piece) /\ Len(content) \in Nat /\ DOMAIN content = 1 .. Len(content)
      /\ \A n \in 1 .. Len(content) - 1 : content[n].nl
  BY <1>1 DEF IsMailbox
<1>7. i \in 1 .. Len(content) /\ \A n \in i .. j : n \in 1 .. Len(content) /\ content[n] \in Piece
  BY <1>2, <1>3, <1>6
<1>8. /\ raw \in Seq(Piece) /\ Len(raw) = j - i + 1
      /\ \A n \in 1 .. j - i + 1 : raw[n] = content[i + n - 1]
  BY <1>2, <1>7, SubSeqProperties
<1>9. Len(raw) \in Nat /\ Len(raw) # 0 /\ 1 \in 1 .. Len(raw) /\ raw # <<>>
  BY <1>2, <1>7, <1>8
<1>10. raw[1] = content[i]
  BY <1>7, <1>8, <1>9
<1>11. ASSUME NEW n \in 1 .. Len(raw) - 1
       PROVE  raw[n].nl
  <2>1. i + n - 1 \in 1 .. Len(content) - 1 /\ n \in 1 .. j - i + 1
    BY <1>2, <1>6, <1>7, <1>8
  <2>2. QED
    BY <1>6, <1>8, <2>1
<1>12. CASE ArePatches(t, files)
  <2>1. raw[1].kind = "gitpatch"
    BY <1>4, <1>12 DEF ArePatches
  <2>2. content[1].kind = "gitpatch" /\ content # <<>>
    <3>1. content # <<>>
      BY <1>6, <1>7
    <3>2. i \in DOMAIN content
          /\ IsFromLine(content, content # <<>> /\ content[1].kind = "gitpatch", i)
      BY <1>2 DEF Starts
    <3>3. QED
      BY <1>10, <2>1, <3>1, <3>2 DEF IsFromLine
  <2>3. ASSUME NEW n \in 2 .. Len(raw)
        PROVE  ~IsMark(raw[n])
    <3>1. i + n - 1 \in i + 1 .. j /\ n \in 1 .. j - i + 1 /\ i + n - 1 \in 1 .. Len(content)
      BY <1>2, <1>7, <1>8
    <3>2. i + n - 1 \notin Starts(content)
      BY <1>2, <3>1
    <3>3. ~IsFromLine(content, content # <<>> /\ content[1].kind = "gitpatch", i + n - 1)
      BY <1>6, <3>1, <3>2 DEF Starts
    <3>4. ~IsMark(content[i + n - 1])
      BY <2>2, <3>3 DEF IsFromLine, IsMark
    <3>5. QED
      BY <1>8, <3>1, <3>4
  <2>4. IsMark(raw[1])
    BY <2>1 DEF IsMark
  <2>5. HaveNoPatches(t, files) => FALSE
    BY <1>4, <2>1 DEF HaveNoPatches
  <2>6. QED
    BY <1>8, <1>9, <1>11, <2>1, <2>3, <2>4, <2>5 DEF IsOneMessage, IsOfTheKind, raw
<1>13. CASE HaveNoPatches(t, files)
  <2>1. raw[1].kind = "separator"
    BY <1>4, <1>13 DEF HaveNoPatches
  <2>2. ASSUME NEW n \in 1 .. Len(raw)
        PROVE  raw[n].kind # "gitpatch" /\ (n # 1 => ~IsMark(raw[n]))
    <3>1. i + n - 1 \in 1 .. Len(content) /\ n \in 1 .. j - i + 1
          /\ (n # 1 => i + n - 1 \in i + 1 .. j)
      BY <1>2, <1>7, <1>8
    <3>2. content[i + n - 1].kind # "gitpatch"
      BY <1>5, <1>13, <3>1
    <3>3. n # 1 => content[i + n - 1].kind # "separator"
      <4>1. SUFFICES ASSUME n # 1
                     PROVE  content[i + n - 1].kind # "separator"
        OBVIOUS
      <4>2. i + n - 1 \notin Starts(content)
        BY <1>2, <3>1, <4>1
      <4>3. ~IsFromLine(content, content # <<>> /\ content[1].kind = "gitpatch", i + n - 1)
        BY <1>6, <3>1, <4>2 DEF Starts
      <4>4. QED
        BY <4>3 DEF IsFromLine
    <3>4. QED
      BY <1>8, <3>1, <3>2, <3>3 DEF IsMark
  <2>3. IsMark(raw[1]) /\ \A n \in 2 .. Len(raw) : n \in 1 .. Len(raw) /\ n # 1
    BY <2>1 DEF IsMark
  <2>4. ArePatches(t, files) => FALSE
    BY <1>4, <2>1 DEF ArePatches
  <2>5. QED
    BY <1>8, <1>9, <1>11, <2>1, <2>2, <2>3, <2>4 DEF IsOneMessage, IsOfTheKind, raw
<1>14. QED
  BY <1>12, <1>13, AlikeIs DEF raw

-----------------------------------------------------------------------------
(* What is written of a message. *)
LEMMA NamesAreLabels ==
  ASSUME NEW t \in Tasks, NEW k \in DOMAIN t.inputs
  PROVE  SourceLabels(t)[k] \in Seq(STRING) /\ SourceLabels(t)[k] # <<>>
BY LabelsAssumption

LEMMA MessageType ==
  ASSUME NEW t \in Tasks, NEW files, Readable(files), NEW k \in DOMAIN t.inputs,
         NEW m \in DOMAIN TheseMessages(t, files, k)
  PROVE  TheseMessages(t, files, k)[m] \in Seq(Piece) /\ TheseMessages(t, files, k)[m] # <<>>
<1> DEFINE content == files[t.inputs[k]]
           raw == TheseMessages(t, files, k)[m]
<1>1. IsMailbox(content)
  BY TheseMessagesAre
<1>2. PICK i \in Starts(content), j \in 1 .. Len(content) :
          /\ i <= j /\ raw = SubSeq(content, i, j)
          /\ \A n \in i + 1 .. j : n \notin Starts(content)
  BY <1>1, MessagesAre DEF TheseMessages
<1>3. Starts(content) \subseteq 1 .. Len(content)
  BY <1>1, MessagesAre
<1> HIDE DEF content, raw
<1>4. content \in Seq(Piece) /\ Len(content) \in Nat
  BY <1>1 DEF IsMailbox
<1>5. i \in Nat /\ j \in Nat /\ \A n \in i .. j : content[n] \in Piece
  BY <1>2, <1>3, <1>4
<1>6. raw \in Seq(Piece) /\ Len(raw) = j - i + 1
  BY <1>2, <1>5, SubSeqProperties
<1>7. raw # <<>>
  BY <1>2, <1>5, <1>6
<1>8. QED
  BY <1>6, <1>7 DEF raw

LEMMA EndLineType ==
  ASSUME NEW lines \in Seq(Piece), lines # <<>>
  PROVE  /\ EndLine(lines) \in Seq(Piece) /\ EndLine(lines) # <<>>
         /\ Len(EndLine(lines)) = Len(lines)
         /\ EndLine(lines)[Len(lines)].nl
         /\ \A i \in 1 .. Len(lines) :
                /\ EndLine(lines)[i].kind = lines[i].kind
                /\ i # Len(lines) => EndLine(lines)[i] = lines[i]
<1> DEFINE n == Len(lines)
           e == [lines[n] EXCEPT !.nl = TRUE]
<1>1. n \in Nat /\ n \in 1 .. n /\ DOMAIN lines = 1 .. n /\ lines[n] \in Piece
  OBVIOUS
<1>2. e \in Piece /\ e.nl /\ e.kind = lines[n].kind
  BY <1>1 DEF Piece
<1>3. EndLine(lines) = [lines EXCEPT ![n] = e]
  BY DEF EndLine
<1> HIDE DEF n, e
<1>4. /\ [lines EXCEPT ![n] = e] \in Seq(Piece)
      /\ Len([lines EXCEPT ![n] = e]) = n
      /\ \A j \in 1 .. n : [lines EXCEPT ![n] = e][j] = IF j = n THEN e ELSE lines[j]
  BY <1>1, <1>2, ExceptSeq DEF n
<1> DEFINE ended == [lines EXCEPT ![n] = e]
<1> HIDE DEF ended
<1>5. /\ ended \in Seq(Piece) /\ Len(ended) = n
      /\ \A j \in 1 .. n : ended[j] = IF j = n THEN e ELSE lines[j]
  BY <1>4 DEF ended
<1>6. ended # <<>>
  BY <1>1, <1>5
<1>7. \A j \in 1 .. n : ended[j].kind = lines[j].kind
  BY <1>2, <1>5
<1>8. EndLine(lines) = ended
  BY <1>3 DEF ended
<1>9. /\ ended[n].nl
      /\ \A j \in 1 .. n : j # n => ended[j] = lines[j]
  BY <1>1, <1>2, <1>5
<1>10. QED
  <2> HIDE DEF ended
  <2>1. /\ ended \in Seq(Piece) /\ ended # <<>> /\ Len(ended) = n /\ ended[n].nl
        /\ \A j \in 1 .. n : ended[j].kind = lines[j].kind /\ (j # n => ended[j] = lines[j])
    BY <1>5, <1>6, <1>7, <1>9
  <2>2. QED
    BY <1>8, <2>1 DEF n

IsRecord(t, files, record) ==
    /\ record \in Seq(Piece) /\ record # <<>>
    /\ \A i \in 1 .. Len(record) : record[i].nl
    /\ Cardinality(Marks(record)) = 1
    /\ IsOfTheKind(t, files, record)

LEMMA EndedIsARecord ==
  ASSUME NEW t, NEW files, NEW lines, IsOneMessage(lines), IsOfTheKind(t, files, lines)
  PROVE  IsRecord(t, files, EndLine(lines))
<1> DEFINE ended == EndLine(lines)
           n == Len(lines)
<1>1. /\ lines \in Seq(Piece) /\ lines # <<>> /\ n \in Nat /\ 1 \in 1 .. n
      /\ IsMark(lines[1]) /\ \A i \in 2 .. n : ~IsMark(lines[i])
      /\ \A i \in 1 .. n - 1 : lines[i].nl
  BY DEF IsOneMessage
<1>2. /\ ended \in Seq(Piece) /\ ended # <<>> /\ Len(ended) = n /\ ended[n].nl
      /\ \A i \in 1 .. n : ended[i].kind = lines[i].kind /\ (i # n => ended[i] = lines[i])
  BY <1>1, EndLineType
<1> HIDE DEF ended, n
<1>3. \A i \in 1 .. n : ended[i].nl
  <2>1. ASSUME NEW i \in 1 .. n
        PROVE  ended[i].nl
    <3>1. i # n => i \in 1 .. n - 1
      BY <1>1
    <3>2. QED
      BY <1>1, <1>2, <3>1
  <2>2. QED
    BY <2>1
<1>4. Marks(ended) = {1}
  <2>1. \A i \in 1 .. n : IsMark(ended[i]) <=> IsMark(lines[i])
    BY <1>2 DEF IsMark
  <2>2. \A i \in 1 .. n : i = 1 \/ i \in 2 .. n
    BY <1>1
  <2>3. QED
    BY <1>1, <1>2, <2>1, <2>2 DEF Marks
<1>5. Cardinality(Marks(ended)) = 1
  BY <1>4, FS_Singleton
<1>6. IsOfTheKind(t, files, ended)
  <2>1. ended[1].kind = lines[1].kind
    BY <1>1, <1>2
  <2>2. QED
    BY <1>1, <1>2, <2>1 DEF IsOfTheKind, n
<1>7. QED
  BY <1>2, <1>3, <1>5, <1>6 DEF IsRecord, ended, n

LEMMA LabelLineIs ==
  ASSUME NEW name \in Seq(STRING)
  PROVE  /\ LabelLine(name) \in Piece /\ LabelLine(name).nl /\ LabelLine(name).kind = "text"
         /\ \A bom \in BOOLEAN :
                /\ [LabelLine(name) EXCEPT !.bom = bom] \in Piece
                /\ [LabelLine(name) EXCEPT !.bom = bom].nl
                /\ [LabelLine(name) EXCEPT !.bom = bom].kind = "text"
<1> DEFINE plain == LineRecord("text")
           label == LabelLine(name)
<1>1. plain \in Piece /\ plain.nl /\ plain.kind = "text"
  <2> DEFINE none == <<>>
  <2>1. none \in Seq(STRING) /\ "text" \in Kinds
    BY DEF Kinds
  <2>2. plain = [kind |-> "text", bom |-> FALSE, nl |-> TRUE, id |-> "", label |-> none]
    BY DEF LineRecord
  <2> HIDE DEF none, plain
  <2>3. QED
    BY <2>1, <2>2 DEF Piece
<1>2. label = [plain EXCEPT !.label = name]
  BY DEF LabelLine
<1> HIDE DEF plain, label
<1>3. label \in Piece /\ label.nl /\ label.kind = "text"
  BY <1>1, <1>2 DEF Piece
<1>4. \A bom \in BOOLEAN :
          /\ [label EXCEPT !.bom = bom] \in Piece
          /\ [label EXCEPT !.bom = bom].nl
          /\ [label EXCEPT !.bom = bom].kind = "text"
  BY <1>3 DEF Piece
<1>5. QED
  BY <1>3, <1>4 DEF label

LEMMA LabelledType ==
  ASSUME NEW raw \in Seq(Piece), raw # <<>>, NEW name \in Seq(STRING)
  PROVE  InjectSourceHeader(raw, name) \in Seq(Piece) /\ InjectSourceHeader(raw, name) # <<>>
<1>1. raw[1] \in Piece /\ Tail(raw) \in Seq(Piece) /\ 1 \in 1 .. Len(raw)
  OBVIOUS
<1>2. raw[1].bom \in BOOLEAN /\ [raw[1] EXCEPT !.bom = FALSE] \in Piece
  BY <1>1 DEF Piece
<1>3. LabelLine(name) \in Piece /\ [LabelLine(name) EXCEPT !.bom = raw[1].bom] \in Piece
  BY <1>2, LabelLineIs
<1> DEFINE label == LabelLine(name)
           marked == [LabelLine(name) EXCEPT !.bom = raw[1].bom]
           first == [raw[1] EXCEPT !.bom = FALSE]
           rest == [raw EXCEPT ![1] = first]
<1>4. InjectSourceHeader(raw, name)
          \in {<<raw[1], label>> \o Tail(raw), <<marked>> \o rest}
  BY DEF InjectSourceHeader
<1>5. label \in Piece /\ marked \in Piece /\ first \in Piece
  BY <1>2, <1>3
<1> HIDE DEF label, marked, first
<1>6. rest \in Seq(Piece)
  BY <1>1, <1>5, ExceptSeq
<1> HIDE DEF rest
<1>7. <<raw[1], label>> \in Seq(Piece) /\ <<marked>> \in Seq(Piece)
      /\ Len(<<raw[1], label>>) = 2 /\ Len(<<marked>>) = 1
  BY <1>1, <1>5
<1>8. /\ <<raw[1], label>> \o Tail(raw) \in Seq(Piece)
      /\ Len(<<raw[1], label>> \o Tail(raw)) = 2 + Len(Tail(raw))
      /\ <<marked>> \o rest \in Seq(Piece)
      /\ Len(<<marked>> \o rest) = 1 + Len(rest)
  BY <1>1, <1>6, <1>7, ConcatProperties
<1>9. Len(Tail(raw)) \in Nat /\ Len(rest) \in Nat
  BY <1>1, <1>6
<1>10. <<raw[1], label>> \o Tail(raw) # <<>> /\ <<marked>> \o rest # <<>>
  <2>1. \A s \in Seq(Piece) : Len(s) # 0 => s # <<>>
    OBVIOUS
  <2>2. QED
    BY <1>8, <1>9, <2>1
<1>11. QED
  BY <1>4, <1>8, <1>10

(* A label below the first line moves the other lines down. *)
LEMMA InjectedBelow ==
  ASSUME NEW raw \in Seq(Piece), raw # <<>>, StartsWithFrom(raw[1]), raw[1].nl,
         NEW name \in Seq(STRING)
  PROVE  LET new == InjectSourceHeader(raw, name)
             n == Len(raw)
         IN  /\ new \in Seq(Piece) /\ Len(new) = n + 1 /\ new # <<>>
             /\ new[1] = raw[1] /\ new[2] = LabelLine(name)
             /\ \A i \in 3 .. n + 1 : new[i] = raw[i - 1]
<1> DEFINE n == Len(raw)
           label == LabelLine(name)
           rest == Tail(raw)
           new == <<raw[1], label>> \o rest
<1>1. n \in Nat /\ 1 \in 1 .. n /\ raw[1] \in Piece
  OBVIOUS
<1>2. InjectSourceHeader(raw, name) = new
  BY DEF InjectSourceHeader
<1>3. label \in Piece
  BY LabelLineIs
<1>4. rest \in Seq(Piece) /\ Len(rest) = n - 1 /\ \A i \in 1 .. n - 1 : rest[i] = raw[i + 1]
  BY HeadTailProperties
<1> HIDE DEF label, rest, n
<1>5. <<raw[1], label>> \in Seq(Piece) /\ Len(<<raw[1], label>>) = 2
      /\ <<raw[1], label>>[1] = raw[1] /\ <<raw[1], label>>[2] = label
  BY <1>1, <1>3
<1>6. /\ new \in Seq(Piece) /\ Len(new) = 2 + (n - 1)
      /\ \A i \in 1 .. 2 + (n - 1) :
             new[i] = IF i <= 2 THEN <<raw[1], label>>[i] ELSE rest[i - 2]
  BY <1>4, <1>5, ConcatProperties
<1> HIDE DEF new
<1>7. 1 \in 1 .. 2 + (n - 1) /\ 2 \in 1 .. 2 + (n - 1) /\ 2 + (n - 1) = n + 1
  BY <1>1
<1>8. new[1] = raw[1] /\ new[2] = label
  BY <1>5, <1>6, <1>7
<1>9. ASSUME NEW i \in 3 .. n + 1
      PROVE  new[i] = raw[i - 1]
  <2>1. i \in 1 .. 2 + (n - 1) /\ ~(i <= 2) /\ i - 2 \in 1 .. n - 1 /\ (i - 2) + 1 = i - 1
    BY <1>1
  <2>2. QED
    BY <1>4, <1>6, <2>1
<1>10. Len(new) # 0
  BY <1>1, <1>6, <1>7
<1>11. new # <<>>
  BY <1>6, <1>10
<1>12. QED
  BY <1>2, <1>6, <1>7, <1>8, <1>9, <1>11 DEF label, n

(* A label below an envelope line changes nothing else. *)
LEMMA LabelledIsOne ==
  ASSUME NEW t, NEW files, NEW raw, IsOneMessage(raw), IsOfTheKind(t, files, raw), raw[1].nl,
         NEW name \in Seq(STRING)
  PROVE  /\ IsOneMessage(InjectSourceHeader(raw, name))
         /\ IsOfTheKind(t, files, InjectSourceHeader(raw, name))
<1> DEFINE n == Len(raw)
           label == LabelLine(name)
           new == InjectSourceHeader(raw, name)
<1>1. /\ raw \in Seq(Piece) /\ raw # <<>> /\ n \in Nat /\ 1 \in 1 .. n /\ raw[1] \in Piece
      /\ IsMark(raw[1]) /\ \A i \in 2 .. n : ~IsMark(raw[i])
      /\ \A i \in 1 .. n - 1 : raw[i].nl
  BY DEF IsOneMessage
<1>2. StartsWithFrom(raw[1])
  BY <1>1 DEF StartsWithFrom, IsMark
<1>3. label \in Piece /\ label.nl /\ label.kind = "text"
  BY LabelLineIs
<1>4. /\ new \in Seq(Piece) /\ Len(new) = n + 1 /\ new # <<>>
      /\ new[1] = raw[1] /\ new[2] = label
      /\ \A i \in 3 .. n + 1 : new[i] = raw[i - 1]
  BY <1>1, <1>2, InjectedBelow
<1> HIDE DEF label, n, new
<1>5. \A i \in 1 .. n + 1 : i = 1 \/ i = 2 \/ (i \in 3 .. n + 1 /\ i - 1 \in 2 .. n)
  BY <1>1
<1>6. ASSUME NEW i \in 2 .. n + 1
       PROVE  ~IsMark(new[i])
  <2>1. CASE i = 2
    BY <1>3, <1>4, <2>1 DEF IsMark
  <2>2. CASE i # 2
    <3>1. i \in 3 .. n + 1 /\ i - 1 \in 2 .. n
      BY <1>1, <2>2
    <3>2. QED
      BY <1>1, <1>4, <3>1
  <2>3. QED
    BY <2>1, <2>2
<1>7. ASSUME NEW i \in 1 .. (n + 1) - 1
       PROVE  new[i].nl
  <2>1. CASE i = 1 \/ i = 2
    BY <1>3, <1>4, <2>1
  <2>2. CASE i # 1 /\ i # 2
    <3>1. i \in 3 .. n + 1 /\ i - 1 \in 1 .. n - 1
      BY <1>1, <2>2
    <3>2. QED
      BY <1>1, <1>4, <3>1
  <2>3. QED
    BY <2>1, <2>2
<1>8. IsOneMessage(new)
  BY <1>1, <1>4, <1>6, <1>7 DEF IsOneMessage
<1>9. IsOfTheKind(t, files, new)
  <2>1. ASSUME HaveNoPatches(t, files), NEW i \in 1 .. n + 1
        PROVE  new[i].kind # "gitpatch"
    <3>1. \A j \in 1 .. n : raw[j].kind # "gitpatch"
      BY <2>1 DEF IsOfTheKind, n
    <3>2. i = 1 \/ i = 2 \/ (i \in 3 .. n + 1 /\ i - 1 \in 1 .. n)
      BY <1>1
    <3>3. QED
      BY <1>1, <1>3, <1>4, <3>1, <3>2
  <2>2. QED
    BY <1>1, <1>4, <2>1 DEF IsOfTheKind
<1>10. QED
  BY <1>8, <1>9 DEF new

LEMMA MboxRecordType ==
  ASSUME NEW raw \in Seq(Piece), raw # <<>>
  PROVE  MboxRecord(raw) \in Seq(Piece)
<1> DEFINE quoted == FromQuoted(raw)
           from == LineRecord("separator")
           made == <<from>> \o quoted
           n == Len(raw)
<1>1. quoted \in Seq(Piece)
  <2>1. \A i \in 1 .. n : raw[i] \in Piece
    OBVIOUS
  <2>2. \A x \in Piece : [x EXCEPT !.kind = "text"] \in Piece
    BY DEF Piece, Kinds
  <2>3. \A i \in 1 .. n :
            (IF BeginsWithFrom(raw[i]) THEN [raw[i] EXCEPT !.kind = "text"] ELSE raw[i]) \in Piece
    BY <2>1, <2>2
  <2>4. quoted = [i \in 1 .. n |->
                     IF BeginsWithFrom(raw[i]) THEN [raw[i] EXCEPT !.kind = "text"] ELSE raw[i]]
    <3>1. DOMAIN raw = 1 .. n
      OBVIOUS
    <3>2. QED
      BY <3>1 DEF FromQuoted
  <2> HIDE DEF quoted
  <2>5. quoted \in [1 .. n -> Piece]
    BY <2>3, <2>4
  <2>6. n \in Nat
    OBVIOUS
  <2> HIDE DEF n
  <2>7. QED
    BY <2>5, <2>6
<1>2. from \in Piece
  <2> DEFINE none == <<>>
  <2>1. none \in Seq(STRING) /\ "separator" \in Kinds
    BY DEF Kinds
  <2>2. from = [kind |-> "separator", bom |-> FALSE, nl |-> TRUE, id |-> "", label |-> none]
    BY DEF LineRecord
  <2> HIDE DEF none, from
  <2>3. QED
    BY <2>1, <2>2 DEF Piece
<1>3. made \in Seq(Piece) /\ made # <<>>
  <2> HIDE DEF quoted, from
  <2>1. <<from>> \in Seq(Piece) /\ Len(<<from>>) = 1 /\ Len(quoted) \in Nat
    BY <1>1, <1>2
  <2>2. made \in Seq(Piece) /\ Len(made) = 1 + Len(quoted)
    BY <1>1, <2>1, ConcatProperties
  <2> HIDE DEF made
  <2>3. Len(made) # 0
    BY <2>1, <2>2
  <2>4. QED
    BY <2>2, <2>3
<1>4. MboxRecord(raw) = IF BeginsWithFrom(raw[1]) THEN EndLine(raw) ELSE EndLine(made)
  BY DEF MboxRecord
<1> HIDE DEF made
<1>5. EndLine(raw) \in Seq(Piece) /\ EndLine(made) \in Seq(Piece)
  BY <1>3, EndLineType
<1>6. QED
  BY <1>4, <1>5

(* What a merge writes of a message of its k-th input. *)
MergedFrom(t, k, raw) == EndLine(IF t.label THEN InjectSourceHeader(raw, SourceLabels(t)[k]) ELSE raw)

LEMMA WrittenType ==
  ASSUME NEW t \in Tasks, NEW files, Readable(files), NEW k \in DOMAIN t.inputs,
         NEW m \in DOMAIN TheseMessages(t, files, k)
  PROVE  /\ MergedFrom(t, k, TheseMessages(t, files, k)[m]) \in Seq(Piece)
         /\ MboxRecord(TheseMessages(t, files, k)[m]) \in Seq(Piece)
<1> DEFINE raw == TheseMessages(t, files, k)[m]
           name == SourceLabels(t)[k]
<1>1. raw \in Seq(Piece) /\ raw # <<>>
  BY MessageType
<1>2. name \in Seq(STRING)
  BY NamesAreLabels
<1> HIDE DEF raw, name
<1>3. InjectSourceHeader(raw, name) \in Seq(Piece) /\ InjectSourceHeader(raw, name) # <<>>
  BY <1>1, <1>2, LabelledType
<1>4. EndLine(raw) \in Seq(Piece) /\ EndLine(InjectSourceHeader(raw, name)) \in Seq(Piece)
  BY <1>1, <1>3, EndLineType
<1>5. MergedFrom(t, k, raw) \in {EndLine(raw), EndLine(InjectSourceHeader(raw, name))}
  BY DEF MergedFrom, name
<1>6. MboxRecord(raw) \in Seq(Piece)
  BY <1>1, MboxRecordType
<1>7. QED
  BY <1>4, <1>5, <1>6 DEF raw

LEMMA WrittenIsARecord ==
  ASSUME NEW t \in Tasks, NEW files, Readable(files), Alike(t, files), HasEnvelopes(t, files),
         NEW k \in DOMAIN t.inputs, NEW m \in DOMAIN TheseMessages(t, files, k)
  PROVE  /\ t.op = "merge" => IsRecord(t, files, MergedFrom(t, k, TheseMessages(t, files, k)[m]))
         /\ t.op = "export" => IsRecord(t, files, MboxRecord(TheseMessages(t, files, k)[m]))
<1> DEFINE raw == TheseMessages(t, files, k)[m]
           name == SourceLabels(t)[k]
<1>1. IsOneMessage(raw) /\ IsOfTheKind(t, files, raw)
  BY MessagesAreOneEach
<1>2. name \in Seq(STRING)
  BY NamesAreLabels
<1>3. (t.label => raw[1].nl) /\ (t.op = "export" => ~raw[1].bom)
  <2>1. PICK source \in Range(Sources(t, files)) : source.message = raw
    BY MessageIsASource
  <2> HIDE DEF raw
  <2>2. QED
    BY <2>1 DEF HasEnvelopes
<1> HIDE DEF raw, name
<1>4. IsRecord(t, files, EndLine(raw))
  BY <1>1, EndedIsARecord
<1>5. t.label => IsRecord(t, files, EndLine(InjectSourceHeader(raw, name)))
  <2>1. SUFFICES ASSUME t.label
                 PROVE  IsRecord(t, files, EndLine(InjectSourceHeader(raw, name)))
    OBVIOUS
  <2>2. /\ IsOneMessage(InjectSourceHeader(raw, name))
        /\ IsOfTheKind(t, files, InjectSourceHeader(raw, name))
    BY <1>1, <1>2, <1>3, <2>1, LabelledIsOne
  <2>3. QED
    BY <2>2, EndedIsARecord
<1>6. IsRecord(t, files, MergedFrom(t, k, raw))
  BY <1>4, <1>5 DEF MergedFrom, name
<1>7. t.op = "export" => MboxRecord(raw) = EndLine(raw)
  BY <1>1, <1>3 DEF MboxRecord, BeginsWithFrom, StartsWithFrom, IsMark, IsOneMessage
<1>8. QED
  BY <1>4, <1>6, <1>7 DEF raw

-----------------------------------------------------------------------------
(* What is read as a whole, and what becomes of a file that it goes to.    *)
CountIsExact(t, files) ==
    LET all == FlattenSeq(InputsOf(t, files))
    IN  \A i \in DOMAIN all : all[i].kind # "malformed" /\ ~all[i].bom

(* A mailbox that a plain merge can copy is of the kind, and whole unless  *)
(* it is the last.                                                         *)
LEMMA CopiedKind ==
  ASSUME NEW t \in Tasks, NEW files, Readable(files), Alike(t, files),
         CanBeConcatenated(t, files), NEW k \in DOMAIN t.inputs
  PROVE  LET content == files[t.inputs[k]]
         IN  /\ IsOfTheKind(t, files, content)
             /\ k < Len(t.inputs) => \A i \in 1 .. Len(content) : content[i].nl
<1> DEFINE content == files[t.inputs[k]]
<1>1. IsMailbox(content)
  BY TheseMessagesAre
<1>2. content # <<>> => /\ StartsWithFrom(content[1])
                        /\ k < Len(t.inputs) => Last(content).nl
  BY DEF CanBeConcatenated
<1>3. content # <<>> => content[1].kind \in FirstKinds(t, files)
  <2>1. SUFFICES ASSUME content # <<>>
                 PROVE  content[1].kind \in FirstKinds(t, files)
    OBVIOUS
  <2>2. 1 \in DOMAIN content
    BY <1>1, <2>1 DEF IsMailbox
  <2>3. 1 \in Starts(content)
    <3> HIDE DEF content
    <3>1. QED
      BY <1>2, <2>1, <2>2 DEF Starts, IsFromLine
  <2>4. PICK m \in DOMAIN MessagesIn(content) :
            MessagesIn(content)[m] # <<>> /\ MessagesIn(content)[m][1] = content[1]
    <3> HIDE DEF content
    <3>1. QED
      BY <1>1, <2>3, MessagesAre
  <2>5. m \in DOMAIN TheseMessages(t, files, k) /\ TheseMessages(t, files, k)[m][1] = content[1]
    BY <2>4 DEF TheseMessages
  <2> HIDE DEF content
  <2>6. QED
    BY <2>5, FirstKindIs
<1>4. HaveNoPatches(t, files) => \A i \in 1 .. Len(content) : content[i].kind # "gitpatch"
  BY DEF HaveNoPatches
<1> HIDE DEF content
<1>5. content \in Seq(Piece) /\ Len(content) \in Nat /\ DOMAIN content = 1 .. Len(content)
      /\ \A i \in 1 .. Len(content) - 1 : content[i].nl
  BY <1>1 DEF IsMailbox
<1>6. IsOfTheKind(t, files, content)
  BY <1>3, <1>4 DEF IsOfTheKind, ArePatches, HaveNoPatches
<1>7. ASSUME k < Len(t.inputs), NEW i \in 1 .. Len(content)
      PROVE  content[i].nl
  <2>1. content # <<>>
    BY <1>5
  <2>2. content[Len(content)].nl
    BY <1>2, <1>7, <2>1 DEF Last
  <2>3. i = Len(content) \/ i \in 1 .. Len(content) - 1
    <3>1. Len(content) \in Nat
      BY <1>5
    <3>2. QED
      BY <3>1
  <2>4. QED
    BY <1>5, <2>2, <2>3
<1>8. QED
  BY <1>6, <1>7 DEF content

LEMMA CopiedIs ==
  ASSUME NEW t \in Tasks, NEW files, Readable(files), Alike(t, files),
         CanBeConcatenated(t, files), CountIsExact(t, files), NEW k \in DOMAIN t.inputs
  PROVE  LET content == files[t.inputs[k]]
         IN  /\ {i \in DOMAIN content : BeginsWithFrom(content[i])} = Marks(content)
             /\ IsOfTheKind(t, files, content)
             /\ k < Len(t.inputs) => \A i \in 1 .. Len(content) : content[i].nl
<1> DEFINE content == files[t.inputs[k]]
<1>1. DOMAIN content = 1 .. Len(content)
  BY TheseMessagesAre DEF IsMailbox
<1>2. ASSUME NEW i \in 1 .. Len(content)
      PROVE  content[i].kind # "malformed" /\ ~content[i].bom
  <2> DEFINE all == FlattenSeq(InputsOf(t, files))
  <2>1. PICK p \in DOMAIN all : all[p] = content[i]
    BY LineIsALine
  <2>2. all[p].kind # "malformed" /\ ~all[p].bom
    BY DEF CountIsExact
  <2> HIDE DEF all, content
  <2>3. QED
    BY <2>1, <2>2
<1>3. {i \in DOMAIN content : BeginsWithFrom(content[i])} = Marks(content)
  <2>1. \A i \in 1 .. Len(content) : BeginsWithFrom(content[i]) <=> IsMark(content[i])
    BY <1>2 DEF BeginsWithFrom, StartsWithFrom, IsMark
  <2>2. QED
    BY <1>1, <2>1 DEF Marks
<1>4. /\ IsOfTheKind(t, files, content)
      /\ k < Len(t.inputs) => \A i \in 1 .. Len(content) : content[i].nl
  BY CopiedKind
<1>5. QED
  BY <1>3, <1>4

LEMMA KindStays ==
  ASSUME NEW t, NEW files, NEW old \in Seq(Piece), NEW new \in Seq(Piece),
         IsOfTheKind(t, files, old), IsOfTheKind(t, files, new)
  PROVE  IsOfTheKind(t, files, old \o new)
<1> DEFINE both == old \o new
           n == Len(old)
           l == Len(new)
<1>1. /\ both \in Seq(Piece) /\ n \in Nat /\ l \in Nat /\ Len(both) = n + l
      /\ \A i \in 1 .. n + l : both[i] = IF i <= n THEN old[i] ELSE new[i - n]
  BY ConcatProperties
<1>2. /\ old = <<>> <=> n = 0
      /\ new = <<>> <=> l = 0
      /\ both = <<>> <=> n + l = 0
  <2>1. \A s \in Seq(Piece) : s = <<>> <=> Len(s) = 0
    OBVIOUS
  <2> HIDE DEF both
  <2>2. QED
    BY <1>1, <2>1
<1> HIDE DEF both
<1>3. \/ both = <<>>
      \/ old # <<>> /\ both[1] = old[1]
      \/ new # <<>> /\ both[1] = new[1]
  BY <1>1, <1>2
<1>4. ASSUME NEW i \in 1 .. n + l
      PROVE  \/ \E j \in 1 .. n : both[i] = old[j]
             \/ \E j \in 1 .. l : both[i] = new[j]
  <2>1. CASE i <= n
    BY <1>1, <2>1
  <2>2. CASE ~(i <= n)
    <3>1. i - n \in 1 .. l
      BY <1>1, <2>2
    <3>2. QED
      BY <1>1, <2>2, <3>1
  <2>3. QED
    BY <2>1, <2>2
<1>5. HaveNoPatches(t, files) => \A i \in 1 .. n + l : both[i].kind # "gitpatch"
  BY <1>4 DEF IsOfTheKind
<1>6. QED
  BY <1>1, <1>3, <1>5 DEF IsOfTheKind, both

LEMMA LinesStayWhole ==
  ASSUME NEW old \in Seq(Piece), NEW new \in Seq(Piece), \A i \in 1 .. Len(old) : old[i].nl
  PROVE  /\ old \o new \in Seq(Piece)
         /\ (\A i \in 1 .. Len(new) : new[i].nl) =>
                \A i \in 1 .. Len(old \o new) : (old \o new)[i].nl
         /\ IsMailbox(new) => IsMailbox(old \o new)
<1> DEFINE both == old \o new
           n == Len(old)
           l == Len(new)
<1>1. /\ both \in Seq(Piece) /\ n \in Nat /\ l \in Nat /\ Len(both) = n + l
      /\ \A i \in 1 .. n + l : both[i] = IF i <= n THEN old[i] ELSE new[i - n]
  BY ConcatProperties
<1> HIDE DEF both
<1>2. ASSUME NEW i \in 1 .. n + l
      PROVE  \/ both[i].nl
             \/ i - n \in 1 .. l /\ both[i] = new[i - n]
  BY <1>1
<1>3. (\A i \in 1 .. l : new[i].nl) => \A i \in 1 .. n + l : both[i].nl
  BY <1>2
<1>4. IsMailbox(new) => \A i \in 1 .. n + l - 1 : both[i].nl
  <2>1. SUFFICES ASSUME IsMailbox(new), NEW i \in 1 .. n + l - 1
                 PROVE  both[i].nl
    OBVIOUS
  <2>2. i \in 1 .. n + l /\ (i - n \in 1 .. l => i - n \in 1 .. l - 1)
    BY <1>1
  <2>3. QED
    BY <1>2, <2>1, <2>2 DEF IsMailbox
<1>5. QED
  BY <1>1, <1>3, <1>4 DEF IsMailbox, both

-----------------------------------------------------------------------------
(* The files. *)
(* No two names are one file, and no file has an inode to come.            *)
FileInv ==
    /\ \A n \in DOMAIN dir : dir[n] \in DOMAIN data
    /\ \A m, n \in DOMAIN dir : dir[m] = dir[n] => m = n
    /\ \A i \in DOMAIN data : data[i] \in Seq(Piece)
    /\ \A n \in Inputs : n \in DOMAIN dir => IsInput(data[dir[n]])
    /\ \A v \in Writers, k \in Nat : k > runs[v] => <<v, k>> \notin DOMAIN data

ShapeInv ==
    /\ pc = [v \in Writers |-> pc[v]] /\ task = [v \in Writers |-> task[v]]
    /\ handle = [v \in Writers |-> handle[v]] /\ queue = [v \in Writers |-> queue[v]]
    /\ at \in [Writers -> Nat] /\ opened \in [Writers -> Nat] /\ runs \in [Writers -> Nat]
    /\ stats \in [Writers -> [total : Nat, duplicates : Nat, tagged : Nat]]

IsBusy(w) == pc[w] \in {"reading", "copying"}

(* The name of the file that a process has written to. *)
ItsName(w) == IF pc[w] = "done" THEN task[w].output ELSE TempName(task[w])

(* A process that writes alone writes at the end of its own file.          *)
OwnFile(w) ==
    IsBusy(w) \/ pc[w] = "done" =>
        /\ task[w] \in Tasks
        /\ ItsName(w) \in DOMAIN dir /\ dir[ItsName(w)] = handle[w]
        /\ at[w] = Len(data[handle[w]])

LEMMA EmptyIsAMailbox == IsMailbox(<<>>) /\ IsInput(<<>>)
  BY DEF IsMailbox, IsInput, HasNoLabels

LEMMA FilesAreReadable ==
  ASSUME FileInv
  PROVE  Readable(Files)
<1>1. \A n \in Inputs : Files[n] = data[dir[n]] \/ Files[n] = <<>>
  BY DEF Files, Holds
<1>2. \A n \in Inputs : n \in DOMAIN dir => Files[n] = data[dir[n]]
  BY DEF Files, Holds
<1>3. \A n \in Inputs : n \notin DOMAIN dir => Files[n] = <<>>
  BY DEF Files, Holds
<1>4. QED
  BY <1>2, <1>3, EmptyIsAMailbox DEF FileInv, Readable

LEMMA FilesStayReadable ==
  ASSUME FileInv'
  PROVE  Readable(Files')
<1>1. \A n \in Inputs : n \in DOMAIN dir' => Files'[n] = data'[dir'[n]]
  BY DEF Files, Holds
<1>2. \A n \in Inputs : n \notin DOMAIN dir' => Files'[n] = <<>>
  BY DEF Files, Holds
<1>3. QED
  BY <1>1, <1>2, EmptyIsAMailbox DEF FileInv, Readable

LEMMA FilesAreKept ==
  ASSUME \A n \in Inputs : n \in DOMAIN dir' <=> n \in DOMAIN dir,
         \A n \in Inputs : n \in DOMAIN dir => data'[dir'[n]] = data[dir[n]]
  PROVE  Files' = Files
BY DEF Files, Holds

(* What write_all does, at the end of the file. *)
LEMMA WriteAppends ==
  ASSUME NEW w \in Writers, FileInv, ShapeInv, OwnFile(w), IsBusy(w),
         NEW lines \in Seq(Piece), Write(w, lines), dir' = dir, runs' = runs
  PROVE  /\ FileInv' /\ Files' = Files
         /\ data[handle[w]] \in Seq(Piece)
         /\ data'[handle[w]] = data[handle[w]] \o lines
         /\ at' \in [Writers -> Nat]
         /\ at'[w] = Len(data'[handle[w]])
         /\ DOMAIN data' = DOMAIN data
<1> DEFINE old == data[handle[w]]
           n == Len(old)
           l == Len(lines)
           both == old \o lines
           end == at[w] + l
           written == [i \in 1 .. Max({n, end}) |->
                          IF i \in at[w] + 1 .. end THEN lines[i - at[w]]
                          ELSE IF i <= n THEN old[i] ELSE Hole]
<1>1. /\ task[w] \in Tasks /\ TempName(task[w]) \in DOMAIN dir
      /\ dir[TempName(task[w])] = handle[w] /\ at[w] = n
  BY DEF OwnFile, IsBusy, ItsName
<1>2. handle[w] \in DOMAIN data /\ old \in Seq(Piece)
  BY <1>1 DEF FileInv
<1>3. data' = [data EXCEPT ![handle[w]] = written] /\ at' = [at EXCEPT ![w] = end]
  BY DEF Write
<1> HIDE DEF old
<1>4. /\ both \in Seq(Piece) /\ n \in Nat /\ l \in Nat /\ Len(both) = n + l
      /\ DOMAIN both = 1 .. n + l
      /\ \A i \in 1 .. n + l : both[i] = IF i <= n THEN old[i] ELSE lines[i - n]
  <2>1. both \in Seq(Piece) /\ n \in Nat /\ l \in Nat /\ Len(both) = n + l
        /\ \A i \in 1 .. n + l : both[i] = IF i <= n THEN old[i] ELSE lines[i - n]
    BY <1>2, ConcatProperties
  <2> HIDE DEF both, n, l
  <2>2. QED
    BY <2>1
<1> HIDE DEF both, n, l
<1>5. Max({n, end}) = n + l /\ end = n + l
  <2>1. end = n + l
    BY <1>1, <1>4
  <2>2. n + l \in {n, n + l} /\ \A y \in {n, n + l} : n + l >= y
    BY <1>4
  <2>3. \A x \in {n, n + l} : (\A y \in {n, n + l} : x >= y) => x = n + l
    BY <1>4
  <2>4. Max({n, n + l}) = CHOOSE x \in {n, n + l} : \A y \in {n, n + l} : x >= y
    BY DEF Max
  <2> HIDE DEF end
  <2>5. Max({n, n + l}) = n + l
    BY <2>2, <2>3, <2>4
  <2>6. QED
    BY <2>1, <2>5
<1>6. written = both
  <2>1. written = [i \in 1 .. n + l |-> IF i \in n + 1 .. n + l THEN lines[i - n]
                                        ELSE IF i <= n THEN old[i] ELSE Hole]
    BY <1>1, <1>5
  <2> HIDE DEF written
  <2>2. \A i \in 1 .. n + l : written[i] = IF i <= n THEN old[i] ELSE lines[i - n]
    BY <1>4, <2>1
  <2>3. written \in [1 .. n + l -> Piece]
    <3>1. \A i \in 1 .. n + l : written[i] = both[i]
      BY <1>4, <2>2
    <3>2. \A i \in 1 .. n + l : both[i] \in Piece
      BY <1>4
    <3>3. written = [i \in 1 .. n + l |-> written[i]]
      BY <2>1
    <3>4. QED
      BY <3>1, <3>2, <3>3
  <2>4. written \in Seq(Piece) /\ Len(written) = n + l
    <3>1. n + l \in Nat
      BY <1>4
    <3>2. QED
      BY <2>3, <3>1
  <2>5. \A i \in 1 .. Len(written) : written[i] = both[i]
    BY <1>4, <2>2, <2>4
  <2> HIDE DEF written
  <2>6. QED
    BY <1>4, <2>4, <2>5, SeqEqual
<1> HIDE DEF written, end
<1>7. /\ DOMAIN data' = DOMAIN data /\ data'[handle[w]] = both
      /\ \A i \in DOMAIN data : i # handle[w] => data'[i] = data[i]
  BY <1>2, <1>3, <1>6
<1>8. \A n1 \in Inputs : n1 \in DOMAIN dir => dir[n1] \in DOMAIN data /\ dir[n1] # handle[w]
  <2>1. TempName(task[w]) \notin Inputs
    BY <1>1, TaskFacts DEF TempName
  <2>2. QED
    BY <1>1, <2>1 DEF FileInv
<1>9. \A n1 \in Inputs : n1 \in DOMAIN dir => data'[dir'[n1]] = data[dir[n1]]
  BY <1>7, <1>8
<1>10. Files' = Files
  BY <1>9, FilesAreKept
<1>11. FileInv'
  <2>1. \A i \in DOMAIN data' : data'[i] \in Seq(Piece)
    BY <1>4, <1>7 DEF FileInv
  <2>2. QED
    BY <1>7, <1>9, <2>1 DEF FileInv
<1>12. at' \in [Writers -> Nat] /\ at'[w] = n + l
  BY <1>3, <1>4, <1>5 DEF ShapeInv
<1>13. QED
  BY <1>2, <1>4, <1>7, <1>10, <1>11, <1>12 DEF both, old

-----------------------------------------------------------------------------
(* What a process has read and not yet written are messages of the input   *)
(* it opened last.                                                         *)
Works(w) ==
    IsBusy(w) \/ pc[w] = "done" =>
        /\ opened[w] \in 0 .. Len(task[w].inputs)
        /\ pc[w] = "done" => opened[w] = Len(task[w].inputs)
        /\ pc[w] = "copying" => opened[w] # 0 /\ ~IsPlain(task[w])
        /\ pc[w] # "copying" => queue[w] = <<>>
        /\ queue[w] \in Seq(Seq(Piece))
        /\ \A q \in 1 .. Len(queue[w]) :
               \E m \in DOMAIN TheseMessages(task[w], Files, opened[w]) :
                   queue[w][q] = TheseMessages(task[w], Files, opened[w])[m]

(* The premises of CountsAddUp. *)
IsPromised(t, files) == IsSound(t, files) /\ (IsPlain(t) => CountIsExact(t, files))

(* As many marks as messages were counted. *)
Holding(t, files, content, total, isWhole) ==
    /\ Cardinality(Marks(content)) = total
    /\ IsOfTheKind(t, files, content)
    /\ IsMailbox(content)
    /\ isWhole => \A i \in 1 .. Len(content) : content[i].nl

Counts(w) ==
    IsBusy(w) \/ pc[w] = "done" =>
        /\ stats[w].tagged = IF task[w].label THEN stats[w].total ELSE 0
        /\ task[w].op = "merge" /\ ~IsPlain(task[w]) =>
               stats[w].total + stats[w].duplicates + Len(queue[w])
                   = Len(FlattenSeq(SubSeq(SourcesOf(task[w], Files), 1, opened[w])))
        /\ IsPromised(task[w], Files) =>
               Holding(task[w], Files, data[handle[w]], stats[w].total,
                       ~IsPlain(task[w]) \/ opened[w] < Len(task[w].inputs))

CountInv(w) == FileInv /\ ShapeInv /\ OwnFile(w) /\ Works(w) /\ Counts(w)

LEMMA NothingIsHeld ==
  ASSUME NEW t, NEW files, NEW isWhole
  PROVE  Holding(t, files, <<>>, 0, isWhole)
<1>1. <<>> \in Seq(Piece) /\ Len(<<>>) = 0
  OBVIOUS
<1>2. Marks(<<>>) = {}
  BY <1>1 DEF Marks
<1>3. Cardinality({}) = 0
  BY FS_EmptySet
<1>4. Cardinality(Marks(<<>>)) = 0
  BY <1>2, <1>3
<1>5. \A i \in 1 .. Len(<<>>) : FALSE
  BY <1>1
<1>6. IsOfTheKind(t, files, <<>>)
  BY <1>5 DEF IsOfTheKind
<1>7. QED
  BY <1>4, <1>5, <1>6, EmptyIsAMailbox DEF Holding

LEMMA MoreIsHeld ==
  ASSUME NEW t, NEW files, NEW old \in Seq(Piece), NEW new \in Seq(Piece),
         NEW n \in Nat, NEW m \in Nat, NEW isWhole,
         Holding(t, files, old, n, TRUE), Holding(t, files, new, m, isWhole)
  PROVE  Holding(t, files, old \o new, n + m, isWhole)
<1>1. Cardinality(Marks(old \o new)) = n + m
  BY MarksAdd DEF Holding
<1>2. IsOfTheKind(t, files, old \o new)
  BY KindStays DEF Holding
<1>3. \A i \in 1 .. Len(old) : old[i].nl
  BY DEF Holding
<1>4. /\ IsMailbox(old \o new)
      /\ isWhole => \A i \in 1 .. Len(old \o new) : (old \o new)[i].nl
  BY <1>3, LinesStayWhole DEF Holding
<1>5. QED
  BY <1>1, <1>2, <1>4 DEF Holding

LEMMA RecordIsHeld ==
  ASSUME NEW t, NEW files, NEW record, IsRecord(t, files, record)
  PROVE  record \in Seq(Piece) /\ Holding(t, files, record, 1, TRUE)
BY DEF IsRecord, Holding, IsMailbox

LEMMA CountInvInit == \A w \in Writers : Init => CountInv(w)
<1> SUFFICES ASSUME NEW w \in Writers, Init
             PROVE  CountInv(w)
  OBVIOUS
<1>1. PICK disk \in Disks :
          /\ dir = [n \in DOMAIN disk |-> <<n, 0>>]
          /\ data = [i \in (DOMAIN disk) \X {0} |-> disk[i[1]]]
  BY DEF Init
<1>2. \A n \in DOMAIN disk : n \in Names /\ IsMailbox(disk[n]) /\ IsInput(disk[n])
  BY DisksAssumption DEF IsInput
<1>3. /\ DOMAIN dir = DOMAIN disk
      /\ \A n \in DOMAIN disk : dir[n] = <<n, 0>> /\ <<n, 0>> \in DOMAIN data
      /\ \A n \in DOMAIN disk : data[<<n, 0>>] = disk[n]
      /\ \A i \in DOMAIN data : \E n \in DOMAIN disk : i = <<n, 0>>
  BY <1>1
<1>4. /\ ShapeInv /\ pc[w] = "idle" /\ runs \in [Writers -> Nat]
      /\ \A v \in Writers : runs[v] = 0
  BY DEF Init, ShapeInv, NoStats
<1>5. FileInv
  <2>1. \A m, n \in DOMAIN dir : dir[m] = dir[n] => m = n
    <3>1. ASSUME NEW m \in DOMAIN disk, NEW n \in DOMAIN disk, <<m, 0>> = <<n, 0>>
          PROVE  m = n
      BY <3>1
    <3>2. \A n \in DOMAIN dir : n \in DOMAIN disk /\ dir[n] = <<n, 0>>
      BY <1>3
    <3>3. ASSUME NEW m \in DOMAIN dir, NEW n \in DOMAIN dir, dir[m] = dir[n]
          PROVE  m = n
      <4>1. <<m, 0>> = <<n, 0>> /\ m \in DOMAIN disk /\ n \in DOMAIN disk
        BY <3>2, <3>3
      <4>2. QED
        BY <3>1, <4>1
    <3>4. QED
      BY <3>3
  <2>2. \A i \in DOMAIN data : data[i] \in Seq(Piece)
    BY <1>2, <1>3 DEF IsMailbox
  <2>3. \A v \in Writers, k \in Nat : k > runs[v] => <<v, k>> \notin DOMAIN data
    BY <1>3, <1>4
  <2>4. \A n \in DOMAIN dir : dir[n] \in DOMAIN data /\ IsInput(data[dir[n]])
    BY <1>2, <1>3
  <2>5. QED
    BY <2>1, <2>2, <2>3, <2>4 DEF FileInv
<1>6. QED
  BY <1>4, <1>5 DEF CountInv, OwnFile, Works, Counts, IsBusy

LEMMA CreatedIs ==
  ASSUME NEW w \in Writers, NEW t \in Tasks, FileInv, ShapeInv,
         CreateTemp(w, TempName(t)), runs' = [runs EXCEPT ![w] = @ + 1]
  PROVE  /\ FileInv'
         /\ handle' = [v \in Writers |-> handle'[v]]
         /\ TempName(t) \in DOMAIN dir' /\ dir'[TempName(t)] = handle'[w]
         /\ data'[handle'[w]] = <<>>
<1> DEFINE name == TempName(t)
           inode == <<w, runs[w] + 1>>
<1>1. name \notin Inputs
  BY TaskFacts DEF TempName
<1>2. runs[w] \in Nat /\ runs[w] + 1 \in Nat /\ runs[w] + 1 > runs[w]
      /\ \A v \in Writers : runs[v] \in Nat /\ runs'[v] = IF v = w THEN runs[w] + 1 ELSE runs[v]
  BY DEF ShapeInv
<1>3. \A v \in Writers, k \in Nat : k > runs'[v] => k > runs[v]
  BY <1>2
<1>4. <<>> \in Seq(Piece)
  OBVIOUS
<1> HIDE DEF name
<1>5. CASE name \in DOMAIN dir
  <2>1. handle' = [handle EXCEPT ![w] = dir[name]] /\ dir' = dir
        /\ data' = [data EXCEPT ![dir[name]] = <<>>]
    BY <1>5 DEF CreateTemp, name
  <2>2. dir[name] \in DOMAIN data
    BY <1>5 DEF FileInv
  <2>3. /\ DOMAIN data' = DOMAIN data /\ data'[dir[name]] = <<>>
        /\ \A i \in DOMAIN data : i # dir[name] => data'[i] = data[i]
    BY <2>1, <2>2
  <2>4. handle'[w] = dir[name] /\ handle' = [v \in Writers |-> handle'[v]]
    BY <2>1 DEF ShapeInv
  <2>5. \A n \in Inputs : n \in DOMAIN dir => data'[dir[n]] = data[dir[n]]
    BY <1>1, <1>5, <2>3 DEF FileInv
  <2>6. \A i \in DOMAIN data' : data'[i] \in Seq(Piece)
    BY <1>4, <2>3 DEF FileInv
  <2>7. FileInv'
    BY <1>3, <2>1, <2>3, <2>5, <2>6 DEF FileInv
  <2>8. QED
    BY <1>5, <2>1, <2>3, <2>4, <2>7 DEF name
<1>6. CASE name \notin DOMAIN dir
  <2>1. /\ handle' = [handle EXCEPT ![w] = inode]
        /\ data' = [i \in DOMAIN data \cup {inode} |-> IF i = inode THEN <<>> ELSE data[i]]
        /\ dir' = [n \in DOMAIN dir \cup {name} |-> IF n = name THEN inode ELSE dir[n]]
    BY <1>6 DEF CreateTemp, name
  <2>2. inode \notin DOMAIN data
    BY <1>2 DEF FileInv
  <2>3. /\ DOMAIN data' = DOMAIN data \cup {inode} /\ data'[inode] = <<>>
        /\ \A i \in DOMAIN data : data'[i] = data[i]
        /\ DOMAIN dir' = DOMAIN dir \cup {name} /\ dir'[name] = inode
        /\ \A n \in DOMAIN dir : dir'[n] = dir[n]
    BY <1>6, <2>1, <2>2
  <2>4. handle'[w] = inode /\ handle' = [v \in Writers |-> handle'[v]]
    BY <2>1 DEF ShapeInv
  <2>5. \A v \in Writers, k \in Nat : k > runs'[v] => <<v, k>> # inode
    BY <1>2
  <2> HIDE DEF inode
  <2>6. \A m, n \in DOMAIN dir' : dir'[m] = dir'[n] => m = n
    BY <2>2, <2>3 DEF FileInv
  <2>7. \A n \in DOMAIN dir' : dir'[n] \in DOMAIN data'
    BY <2>3 DEF FileInv
  <2>8. \A i \in DOMAIN data' : data'[i] \in Seq(Piece)
    BY <1>4, <2>3 DEF FileInv
  <2>9. \A n \in Inputs : n \in DOMAIN dir' => IsInput(data'[dir'[n]])
    BY <1>1, <2>3 DEF FileInv
  <2>10. \A v \in Writers, k \in Nat : k > runs'[v] => <<v, k>> \notin DOMAIN data'
    BY <1>3, <2>3, <2>5 DEF FileInv
  <2>11. FileInv'
    BY <2>6, <2>7, <2>8, <2>9, <2>10 DEF FileInv
  <2>12. QED
    BY <2>3, <2>4, <2>11 DEF name
<1>7. QED
  BY <1>5, <1>6

LEMMA CountInvStart ==
  ASSUME NEW w \in Writers, NEW t \in Tasks, CountInv(w), Start(w, t)
  PROVE  CountInv(w)'
<1>1. FileInv /\ ShapeInv
  BY DEF CountInv
<1>2. CreateTemp(w, TempName(t)) /\ runs' = [runs EXCEPT ![w] = @ + 1]
  BY DEF Start
<1>3. /\ FileInv'
      /\ handle' = [v \in Writers |-> handle'[v]]
      /\ TempName(t) \in DOMAIN dir' /\ dir'[TempName(t)] = handle'[w]
      /\ data'[handle'[w]] = <<>>
  BY <1>1, <1>2, CreatedIs
<1>4. /\ task' = [v \in Writers |-> task'[v]] /\ task'[w] = t
      /\ pc' = [v \in Writers |-> pc'[v]] /\ pc'[w] = "reading"
      /\ queue' = [v \in Writers |-> queue'[v]] /\ queue'[w] = <<>>
      /\ at' \in [Writers -> Nat] /\ at'[w] = 0
      /\ opened' \in [Writers -> Nat] /\ opened'[w] = 0
      /\ runs' \in [Writers -> Nat]
  <2>1. /\ task' = [task EXCEPT ![w] = t] /\ pc' = [pc EXCEPT ![w] = "reading"]
        /\ queue' = [queue EXCEPT ![w] = <<>>]
        /\ at' = [at EXCEPT ![w] = 0] /\ opened' = [opened EXCEPT ![w] = 0]
        /\ runs' = [runs EXCEPT ![w] = runs[w] + 1]
    BY DEF Start
  <2>2. /\ pc = [v \in Writers |-> pc[v]] /\ task = [v \in Writers |-> task[v]]
        /\ queue = [v \in Writers |-> queue[v]]
        /\ at \in [Writers -> Nat] /\ opened \in [Writers -> Nat] /\ runs \in [Writers -> Nat]
    BY <1>1 DEF ShapeInv
  <2>3. task' = [v \in Writers |-> task'[v]] /\ task'[w] = t
    BY <2>1, <2>2
  <2>4. pc' = [v \in Writers |-> pc'[v]] /\ pc'[w] = "reading"
    BY <2>1, <2>2
  <2>5. queue' = [v \in Writers |-> queue'[v]] /\ queue'[w] = <<>>
    BY <2>1, <2>2
  <2>6. /\ at' \in [Writers -> Nat] /\ at'[w] = 0
        /\ opened' \in [Writers -> Nat] /\ opened'[w] = 0
        /\ runs' \in [Writers -> Nat]
    BY <2>1, <2>2
  <2>7. QED
    BY <2>3, <2>4, <2>5, <2>6
<1>5. /\ stats' \in [Writers -> [total : Nat, duplicates : Nat, tagged : Nat]]
      /\ stats'[w].total = 0 /\ stats'[w].duplicates = 0 /\ stats'[w].tagged = 0
  BY <1>1 DEF Start, ShapeInv, NoStats
<1>6. ShapeInv'
  BY <1>3, <1>4, <1>5 DEF ShapeInv
<1>7. OwnFile(w)'
  BY <1>3, <1>4 DEF OwnFile, ItsName, TempName
<1>8. Works(w)'
  <2>1. Len(t.inputs) \in Nat
    BY TaskFacts
  <2>2. <<>> \in Seq(Seq(Piece)) /\ Len(<<>>) = 0
    OBVIOUS
  <2>3. \A q \in 1 .. Len(<<>>) : FALSE
    BY <2>2
  <2>4. QED
    BY <1>4, <2>1, <2>2, <2>3 DEF Works, IsBusy
<1>9. Counts(w)'
  <2>1. Len(FlattenSeq(SubSeq(SourcesOf(t, Files'), 1, 0))) = 0
    <3>1. Readable(Files')
      BY <1>3, FilesStayReadable
    <3>2. 0 \in 0 .. Len(t.inputs)
      BY TaskFacts
    <3> DEFINE now == Files'
    <3> HIDE DEF now
    <3>3. Readable(now)
      BY <3>1 DEF now
    <3>4. Len(FlattenSeq(SubSeq(SourcesOf(t, now), 1, 0))) = 0
      BY <3>2, <3>3, CountSources
    <3>5. QED
      BY <3>4 DEF now
  <2>2. \A files, isWhole : Holding(t, files, <<>>, 0, isWhole)
    BY NothingIsHeld
  <2>3. Len(<<>>) = 0
    OBVIOUS
  <2>4. QED
    BY <1>3, <1>4, <1>5, <2>1, <2>2, <2>3 DEF Counts
<1>10. QED
  BY <1>3, <1>6, <1>7, <1>8, <1>9 DEF CountInv

LEMMA SameFiles ==
  ASSUME FileInv, dir' = dir, data' = data, runs' = runs
  PROVE  FileInv' /\ Files' = Files
BY DEF FileInv, Files, Holds

(* The messages that an export takes from its mailbox. *)
PickedFrom(messages, set) ==
    [i \in DOMAIN Picked(messages, set) |-> messages[Picked(messages, set)[i]]]

LEMMA PickedFromIs ==
  ASSUME NEW S, NEW messages \in Seq(S), NEW wanted
  PROVE  /\ PickedFrom(messages, wanted) \in Seq(S)
         /\ \A q \in 1 .. Len(PickedFrom(messages, wanted)) :
                \E m \in DOMAIN messages : PickedFrom(messages, wanted)[q] = messages[m]
<1> DEFINE set == DOMAIN messages \cap wanted
           list == Ascending(set)
           count == Cardinality(set)
           some == [i \in DOMAIN list |-> messages[list[i]]]
<1>1. Len(messages) \in Nat /\ DOMAIN messages = 1 .. Len(messages)
  OBVIOUS
<1>2. PickedFrom(messages, wanted) = some
  BY DEF PickedFrom, Picked
<1>3. set \in SUBSET Nat /\ IsFiniteSet(set) /\ set \subseteq DOMAIN messages
  <2>1. IsFiniteSet(1 .. Len(messages))
    BY <1>1, FS_Interval
  <2>2. set \in SUBSET (1 .. Len(messages))
    BY <1>1
  <2>3. QED
    BY <1>1, <2>1, <2>2, FS_Subset
<1> HIDE DEF set
<1>4. count \in Nat /\ list \in [1 .. count -> set]
  BY <1>3, AscendingListsTheSet
<1> HIDE DEF list, count
<1>5. \A i \in 1 .. count : list[i] \in DOMAIN messages /\ messages[list[i]] \in S
  <2>1. \A i \in 1 .. count : list[i] \in DOMAIN messages
    BY <1>3, <1>4
  <2>2. QED
    BY <1>1, <2>1
<1>6. some = [i \in 1 .. count |-> messages[list[i]]]
  BY <1>4
<1> HIDE DEF some
<1>7. some \in [1 .. count -> S]
  BY <1>5, <1>6
<1>8. some \in Seq(S) /\ Len(some) = count
  BY <1>4, <1>7
<1>9. \A q \in 1 .. Len(some) : \E m \in DOMAIN messages : some[q] = messages[m]
  BY <1>5, <1>6, <1>8
<1>10. QED
  BY <1>2, <1>8, <1>9

LEMMA CountInvOpen ==
  ASSUME NEW w \in Writers, CountInv(w), OpenInput(w)
  PROVE  CountInv(w)'
<1> DEFINE t == task[w]
           k == opened[w] + 1
           messages == TheseMessages(t, Files, k)
           some == PickedFrom(messages, t.chosen)
           new == IF t.op = "merge" THEN messages ELSE some
<1>1. FileInv /\ ShapeInv /\ OwnFile(w) /\ Works(w) /\ Counts(w)
  BY DEF CountInv
<1>2. /\ pc[w] = "reading" /\ opened[w] < Len(t.inputs) /\ ~IsPlain(t)
      /\ opened' = [opened EXCEPT ![w] = opened[w] + 1]
      /\ pc' = [pc EXCEPT ![w] = "copying"]
      /\ dir' = dir /\ data' = data /\ task' = task /\ handle' = handle /\ at' = at
      /\ stats' = stats /\ runs' = runs
  BY DEF OpenInput, IsPlain
<1>3. t \in Tasks /\ opened[w] \in 0 .. Len(t.inputs) /\ Len(t.inputs) \in Nat
      /\ DOMAIN t.inputs = 1 .. Len(t.inputs) /\ t.op \in {"merge", "export"}
  BY <1>1, <1>2, TaskFacts DEF OwnFile, Works, IsBusy
<1>4. k \in DOMAIN t.inputs /\ k \in 0 .. Len(t.inputs) /\ k # 0
  BY <1>2, <1>3
<1>5. Files[t.inputs[k]] = Holds(NextInput(w))
  <2>1. t.inputs[k] \in Inputs /\ NextInput(w) = t.inputs[k]
    BY <1>3, <1>4, TaskFacts DEF NextInput
  <2> HIDE DEF t, k
  <2>2. QED
    BY <2>1 DEF Files
<1>6. queue' = [queue EXCEPT ![w] = new]
  BY <1>5 DEF OpenInput, TheseMessages, PickedFrom
<1>7. Readable(Files)
  BY <1>1, FilesAreReadable
<1>8. /\ messages \in Seq(Seq(Piece)) /\ Len(messages) \in Nat
      /\ DOMAIN messages = 1 .. Len(messages)
  BY <1>3, <1>4, <1>7, TheseMessagesAre
<1> HIDE DEF messages
<1>9. /\ some \in Seq(Seq(Piece))
      /\ \A q \in 1 .. Len(some) : \E m \in DOMAIN messages : some[q] = messages[m]
  <2> DEFINE S == Seq(Piece)
             wanted == t.chosen
  <2>1. messages \in Seq(S)
    BY <1>8
  <2> HIDE DEF S, wanted
  <2>2. /\ PickedFrom(messages, wanted) \in Seq(S)
        /\ \A q \in 1 .. Len(PickedFrom(messages, wanted)) :
               \E m \in DOMAIN messages : PickedFrom(messages, wanted)[q] = messages[m]
    BY <2>1, PickedFromIs
  <2>3. QED
    BY <2>2 DEF S, wanted
<1> HIDE DEF some
<1>10. /\ new \in Seq(Seq(Piece))
       /\ \A q \in 1 .. Len(new) : \E m \in DOMAIN messages : new[q] = messages[m]
  BY <1>8, <1>9
<1>11. t.op = "merge" => new = messages
  OBVIOUS
<1> HIDE DEF new
<1>12. /\ pc' = [v \in Writers |-> pc'[v]] /\ pc'[w] = "copying"
       /\ queue' = [v \in Writers |-> queue'[v]] /\ queue'[w] = new
       /\ opened' \in [Writers -> Nat] /\ opened'[w] = k
  <2>1. opened[w] + 1 \in Nat
    BY <1>3
  <2>2. /\ pc = [v \in Writers |-> pc[v]] /\ queue = [v \in Writers |-> queue[v]]
        /\ opened \in [Writers -> Nat]
    BY <1>1 DEF ShapeInv
  <2>3. opened' \in [Writers -> Nat] /\ opened'[w] = opened[w] + 1
    BY <1>2, <2>1, <2>2
  <2>4. queue' = [v \in Writers |-> queue'[v]] /\ queue'[w] = new
    BY <1>6, <2>2
  <2>5. pc' = [v \in Writers |-> pc'[v]] /\ pc'[w] = "copying"
    BY <1>2, <2>2
  <2>6. QED
    BY <2>3, <2>4, <2>5
<1>13. ShapeInv'
  BY <1>1, <1>2, <1>12 DEF ShapeInv
<1>14. FileInv' /\ Files' = Files
  BY <1>1, <1>2, SameFiles
<1>15. OwnFile(w)'
  BY <1>1, <1>2, <1>12 DEF OwnFile, ItsName, IsBusy
<1>16. Works(w)'
  BY <1>2, <1>3, <1>4, <1>10, <1>12, <1>14 DEF Works, IsBusy, messages
<1>17. Counts(w)'
  <2>1. queue[w] = <<>>
    BY <1>1, <1>2 DEF Works, IsBusy
  <2>2. Len(queue[w]) = 0
    BY <2>1
  <2> DEFINE before == Len(FlattenSeq(SubSeq(SourcesOf(t, Files), 1, opened[w])))
             after == Len(FlattenSeq(SubSeq(SourcesOf(t, Files), 1, k)))
  <2>3. after = before + Len(messages) /\ before \in Nat
    BY <1>2, <1>3, <1>7, CountSources DEF messages
  <2>4. /\ stats[w].tagged = IF t.label THEN stats[w].total ELSE 0
        /\ t.op = "merge" => stats[w].total + stats[w].duplicates + Len(queue[w]) = before
        /\ IsPromised(t, Files) =>
               Holding(t, Files, data[handle[w]], stats[w].total, TRUE)
    <3>1. (~IsPlain(t) \/ opened[w] < Len(t.inputs)) = TRUE
      BY <1>2
    <3>2. QED
      BY <1>1, <1>2, <3>1 DEF Counts, IsBusy
  <2>5. t.op = "merge" => stats[w].total + stats[w].duplicates + Len(new) = after
    <3>1. stats[w].total \in Nat /\ stats[w].duplicates \in Nat
      BY <1>1 DEF ShapeInv
    <3> HIDE DEF before, after
    <3>2. QED
      BY <1>8, <1>11, <2>2, <2>3, <2>4, <3>1
  <2>6. (~IsPlain(t) \/ k < Len(t.inputs)) = TRUE
    BY <1>2
  <2>7. task'[w] = t /\ stats'[w] = stats[w] /\ data'[handle'[w]] = data[handle[w]]
    BY <1>2
  <2> HIDE DEF before, t
  <2>8. /\ stats'[w].tagged = IF t.label THEN stats'[w].total ELSE 0
        /\ t.op = "merge" =>
               stats'[w].total + stats'[w].duplicates + Len(queue'[w])
                   = Len(FlattenSeq(SubSeq(SourcesOf(t, Files'), 1, opened'[w])))
        /\ IsPromised(t, Files') =>
               Holding(t, Files', data'[handle'[w]], stats'[w].total,
                       ~IsPlain(t) \/ opened'[w] < Len(t.inputs))
    BY <1>12, <1>14, <2>4, <2>5, <2>6, <2>7 DEF after
  <2>9. QED
    BY <2>7, <2>8 DEF Counts
<1>18. QED
  BY <1>13, <1>14, <1>15, <1>16, <1>17 DEF CountInv

(* Steps after which the process has read and written the same.            *)
LEMMA CountInvIdle ==
  ASSUME NEW w \in Writers, CountInv(w), InputCopied(w) \/ Fail(w) \/ UNCHANGED vars
  PROVE  CountInv(w)'
<1>1. FileInv /\ ShapeInv /\ OwnFile(w) /\ Works(w) /\ Counts(w)
  BY DEF CountInv
<1>2. /\ dir' = dir /\ data' = data /\ task' = task /\ handle' = handle /\ at' = at
      /\ opened' = opened /\ queue' = queue /\ stats' = stats /\ runs' = runs
  BY DEF InputCopied, Fail, vars
<1>3. FileInv' /\ Files' = Files
  BY <1>1, <1>2, SameFiles
<1>4. pc = [v \in Writers |-> pc[v]]
  BY <1>1 DEF ShapeInv
<1>5. ShapeInv'
  <2>1. pc' = [v \in Writers |-> pc'[v]]
    <3>1. pc' = pc \/ pc' = [pc EXCEPT ![w] = "reading"] \/ pc' = [pc EXCEPT ![w] = "failed"]
      BY DEF InputCopied, Fail, vars
    <3>2. QED
      BY <1>4, <3>1
  <2>2. QED
    BY <1>1, <1>2, <2>1 DEF ShapeInv
<1>6. CASE Fail(w)
  <2>1. pc'[w] = "failed"
    BY <1>4, <1>6 DEF Fail
  <2>2. QED
    BY <1>3, <1>5, <2>1 DEF CountInv, OwnFile, Works, Counts, IsBusy
<1>7. CASE InputCopied(w)
  <2>1. pc[w] = "copying" /\ pc'[w] = "reading" /\ queue[w] = <<>>
    BY <1>4, <1>7 DEF InputCopied
  <2>2. OwnFile(w)'
    BY <1>1, <1>2, <2>1 DEF OwnFile, ItsName, IsBusy
  <2>3. Works(w)'
    BY <1>1, <1>2, <1>3, <2>1 DEF Works, IsBusy
  <2>4. Counts(w)'
    BY <1>1, <1>2, <1>3, <2>1 DEF Counts, IsBusy
  <2>5. QED
    BY <1>3, <1>5, <2>2, <2>3, <2>4 DEF CountInv
<1>8. CASE UNCHANGED vars
  <2>1. pc' = pc
    BY <1>8 DEF vars
  <2>2. OwnFile(w)'
    BY <1>1, <1>2, <2>1 DEF OwnFile, ItsName, IsBusy
  <2>3. Works(w)'
    BY <1>1, <1>2, <1>3, <2>1 DEF Works, IsBusy
  <2>4. Counts(w)'
    BY <1>1, <1>2, <1>3, <2>1 DEF Counts, IsBusy
  <2>5. QED
    BY <1>3, <1>5, <2>2, <2>3, <2>4 DEF CountInv
<1>9. QED
  BY <1>6, <1>7, <1>8

(* A message at the head of the queue is one of the input. *)
LEMMA NextMessage ==
  ASSUME NEW w \in Writers, CountInv(w), pc[w] = "copying", queue[w] # <<>>
  PROVE  /\ task[w] \in Tasks /\ opened[w] \in DOMAIN task[w].inputs /\ ~IsPlain(task[w])
         /\ \E m \in DOMAIN TheseMessages(task[w], Files, opened[w]) :
                Head(queue[w]) = TheseMessages(task[w], Files, opened[w])[m]
         /\ Tail(queue[w]) \in Seq(Seq(Piece)) /\ Len(Tail(queue[w])) \in Nat
         /\ Len(queue[w]) = Len(Tail(queue[w])) + 1
         /\ \A q \in 1 .. Len(Tail(queue[w])) :
                \E m \in DOMAIN TheseMessages(task[w], Files, opened[w]) :
                    Tail(queue[w])[q] = TheseMessages(task[w], Files, opened[w])[m]
<1> DEFINE messages == TheseMessages(task[w], Files, opened[w])
           all == queue[w]
           S == Seq(Piece)
<1>1. OwnFile(w) /\ Works(w)
  BY DEF CountInv
<1>2. task[w] \in Tasks /\ ~IsPlain(task[w]) /\ opened[w] \in 0 .. Len(task[w].inputs) /\ opened[w] # 0
  BY <1>1 DEF OwnFile, Works, IsBusy
<1>3. opened[w] \in DOMAIN task[w].inputs
  BY <1>2, TaskFacts
<1>4. all \in Seq(S) /\ \A q \in 1 .. Len(all) : \E m \in DOMAIN messages : all[q] = messages[m]
  BY <1>1 DEF Works, IsBusy
<1>5. all # <<>>
  OBVIOUS
<1> HIDE DEF messages, all, S
<1>6. /\ Tail(all) \in Seq(S) /\ Len(Tail(all)) = Len(all) - 1
      /\ \A q \in 1 .. Len(Tail(all)) : Tail(all)[q] = all[q + 1]
      /\ Head(all) = all[1]
  BY <1>4, <1>5, HeadTailProperties
<1>7. Len(all) \in Nat /\ Len(all) # 0
  BY <1>4, <1>5
<1>8. Len(Tail(all)) \in Nat /\ Len(all) = Len(Tail(all)) + 1 /\ 1 \in 1 .. Len(all)
  BY <1>6, <1>7
<1>9. \A q \in 1 .. Len(Tail(all)) : q + 1 \in 1 .. Len(all)
  BY <1>8
<1>10. \A q \in 1 .. Len(Tail(all)) : \E m \in DOMAIN messages : Tail(all)[q] = messages[m]
  BY <1>4, <1>6, <1>9
<1>11. \E m \in DOMAIN messages : Head(all) = messages[m]
  BY <1>4, <1>6, <1>8
<1>12. QED
  BY <1>2, <1>3, <1>6, <1>8, <1>10, <1>11 DEF messages, all, S

(* A message is taken from the queue, and either written or counted as a   *)
(* duplicate.                                                              *)
LEMMA MessageTaken ==
  ASSUME NEW w \in Writers, CountInv(w), pc[w] = "copying", queue[w] # <<>>,
         queue' = [queue EXCEPT ![w] = Tail(queue[w])],
         pc' = pc, task' = task, handle' = handle, opened' = opened, runs' = runs,
         stats' \in [Writers -> [total : Nat, duplicates : Nat, tagged : Nat]],
         at' \in [Writers -> Nat], FileInv', Files' = Files, OwnFile(w)',
         stats'[w].tagged = IF task[w].label THEN stats'[w].total ELSE 0,
         stats'[w].total + stats'[w].duplicates = stats[w].total + stats[w].duplicates + 1,
         IsPromised(task[w], Files) =>
             Holding(task[w], Files, data'[handle[w]], stats'[w].total, TRUE)
  PROVE  CountInv(w)'
<1> DEFINE t == task[w]
           before == Len(FlattenSeq(SubSeq(SourcesOf(t, Files), 1, opened[w])))
<1>1. FileInv /\ ShapeInv /\ Works(w) /\ Counts(w)
  BY DEF CountInv
<1>2. /\ opened[w] \in DOMAIN t.inputs /\ ~IsPlain(t) /\ Tail(queue[w]) \in Seq(Seq(Piece))
      /\ Len(Tail(queue[w])) \in Nat /\ Len(queue[w]) = Len(Tail(queue[w])) + 1
      /\ \A q \in 1 .. Len(Tail(queue[w])) :
             \E m \in DOMAIN TheseMessages(t, Files, opened[w]) :
                 Tail(queue[w])[q] = TheseMessages(t, Files, opened[w])[m]
  BY NextMessage
<1>3. queue' = [v \in Writers |-> queue'[v]] /\ queue'[w] = Tail(queue[w])
  BY <1>1 DEF ShapeInv
<1>4. ShapeInv'
  BY <1>1, <1>3 DEF ShapeInv
<1>5. Works(w)'
  BY <1>1, <1>2, <1>3 DEF Works, IsBusy
<1>6. Counts(w)'
  <2>1. t.op = "merge" => stats[w].total + stats[w].duplicates + Len(queue[w]) = before
    BY <1>1, <1>2 DEF Counts, IsBusy
  <2>2. /\ stats[w].total \in Nat /\ stats[w].duplicates \in Nat
        /\ stats'[w].total \in Nat /\ stats'[w].duplicates \in Nat
    BY <1>1 DEF ShapeInv
  <2> HIDE DEF before
  <2>3. t.op = "merge" => stats'[w].total + stats'[w].duplicates + Len(queue'[w]) = before
    <3> DEFINE a == stats[w].total
               b == stats[w].duplicates
               c == stats'[w].total
               d == stats'[w].duplicates
               more == Len(queue[w])
               less == Len(queue'[w])
    <3>1. /\ c + d = a + b + 1 /\ more = less + 1 /\ less \in Nat
          /\ a \in Nat /\ b \in Nat /\ c \in Nat /\ d \in Nat
          /\ t.op = "merge" => a + b + more = before
      BY <1>2, <1>3, <2>1, <2>2
    <3> HIDE DEF a, b, c, d, more, less
    <3>2. c + d + less = a + b + more
      BY <3>1
    <3>3. t.op = "merge" => c + d + less = before
      BY <3>1, <3>2
    <3>4. QED
      BY <3>3 DEF c, d, less
  <2>4. (~IsPlain(t) \/ opened[w] < Len(t.inputs)) = TRUE
    BY <1>2
  <2>5. task'[w] = t /\ opened'[w] = opened[w] /\ data'[handle'[w]] = data'[handle[w]]
    OBVIOUS
  <2>6. stats'[w].tagged = IF t.label THEN stats'[w].total ELSE 0
    OBVIOUS
  <2>7. IsPromised(t, Files) => Holding(t, Files, data'[handle[w]], stats'[w].total, TRUE)
    OBVIOUS
  <2> HIDE DEF t
  <2>8. /\ stats'[w].tagged = IF t.label THEN stats'[w].total ELSE 0
        /\ t.op = "merge" =>
               stats'[w].total + stats'[w].duplicates + Len(queue'[w])
                   = Len(FlattenSeq(SubSeq(SourcesOf(t, Files'), 1, opened'[w])))
        /\ IsPromised(t, Files') =>
               Holding(t, Files', data'[handle'[w]], stats'[w].total,
                       ~IsPlain(t) \/ opened'[w] < Len(t.inputs))
    BY <2>3, <2>4, <2>5, <2>6, <2>7 DEF before
  <2>9. QED
    BY <2>5, <2>8 DEF Counts
<1>7. QED
  BY <1>4, <1>5, <1>6 DEF CountInv

LEMMA RecordWritten ==
  ASSUME NEW w \in Writers, CountInv(w), pc[w] = "copying", queue[w] # <<>>,
         queue' = [queue EXCEPT ![w] = Tail(queue[w])],
         dir' = dir, pc' = pc, task' = task, handle' = handle, opened' = opened, runs' = runs,
         NEW record \in Seq(Piece), Write(w, record),
         IsPromised(task[w], Files) => IsRecord(task[w], Files, record),
         stats' \in [Writers -> [total : Nat, duplicates : Nat, tagged : Nat]],
         stats'[w].total = stats[w].total + 1,
         stats'[w].duplicates = stats[w].duplicates,
         stats'[w].tagged = stats[w].tagged + IF task[w].label THEN 1 ELSE 0
  PROVE  CountInv(w)'
<1> DEFINE t == task[w]
           old == data[handle[w]]
<1>1. FileInv /\ ShapeInv /\ OwnFile(w) /\ Counts(w) /\ IsBusy(w)
  BY DEF CountInv, IsBusy
<1>2. /\ FileInv' /\ Files' = Files /\ old \in Seq(Piece) /\ data'[handle[w]] = old \o record
      /\ at' \in [Writers -> Nat] /\ at'[w] = Len(data'[handle[w]])
  BY <1>1, WriteAppends
<1>3. OwnFile(w)'
  <2>1. /\ pc'[w] = "copying" /\ ItsName(w)' = TempName(t)
        /\ t \in Tasks /\ TempName(t) \in DOMAIN dir /\ dir[TempName(t)] = handle[w]
    BY <1>1 DEF OwnFile, ItsName, IsBusy
  <2>2. QED
    BY <1>2, <2>1 DEF OwnFile
<1>4. /\ stats[w].total \in Nat /\ stats[w].duplicates \in Nat /\ stats[w].tagged \in Nat
  BY <1>1 DEF ShapeInv
<1>5. stats'[w].tagged = IF t.label THEN stats'[w].total ELSE 0
  BY <1>1, <1>4 DEF Counts
<1>6. stats'[w].total + stats'[w].duplicates = stats[w].total + stats[w].duplicates + 1
  BY <1>4
<1>7. IsPromised(t, Files) => Holding(t, Files, data'[handle[w]], stats'[w].total, TRUE)
  <2> SUFFICES ASSUME IsPromised(t, Files)
               PROVE  Holding(t, Files, data'[handle[w]], stats'[w].total, TRUE)
    OBVIOUS
  <2>1. ~IsPlain(t)
    BY NextMessage
  <2>2. (~IsPlain(t) \/ opened[w] < Len(t.inputs)) = TRUE
    BY <2>1
  <2>3. Holding(t, Files, old, stats[w].total, TRUE)
    BY <1>1, <2>2 DEF Counts
  <2>4. Holding(t, Files, record, 1, TRUE)
    BY RecordIsHeld
  <2> DEFINE files == Files
             n == stats[w].total
  <2>5. /\ Holding(t, files, old, n, TRUE) /\ Holding(t, files, record, 1, TRUE)
        /\ n \in Nat /\ 1 \in Nat
    BY <1>4, <2>3, <2>4
  <2> HIDE DEF t, old, files, n
  <2>6. Holding(t, files, old \o record, n + 1, TRUE)
    BY <1>2, <2>5, MoreIsHeld
  <2>7. QED
    BY <1>2, <2>6 DEF files, n
<1>8. QED
  BY <1>2, <1>3, <1>5, <1>6, <1>7, MessageTaken

(* What is counted for a written message. *)
LEMMA CountedAre ==
  ASSUME NEW w \in Writers, NEW gain \in Nat,
         stats \in [Writers -> [total : Nat, duplicates : Nat, tagged : Nat]]
  PROVE  LET plain == [stats EXCEPT ![w].total = @ + 1]
             both == [stats EXCEPT ![w].total = @ + 1, ![w].tagged = @ + gain]
         IN  /\ plain \in [Writers -> [total : Nat, duplicates : Nat, tagged : Nat]]
             /\ plain[w].total = stats[w].total + 1
             /\ plain[w].duplicates = stats[w].duplicates
             /\ plain[w].tagged = stats[w].tagged
             /\ both \in [Writers -> [total : Nat, duplicates : Nat, tagged : Nat]]
             /\ both[w].total = stats[w].total + 1
             /\ both[w].duplicates = stats[w].duplicates
             /\ both[w].tagged = stats[w].tagged + gain
<1> DEFINE plain == [stats EXCEPT ![w].total = @ + 1]
           both == [stats EXCEPT ![w].total = @ + 1, ![w].tagged = @ + gain]
           Stats == [total : Nat, duplicates : Nat, tagged : Nat]
           old == stats[w]
           counted == [old EXCEPT !.total = old.total + 1]
           all == [old EXCEPT !.total = old.total + 1, !.tagged = old.tagged + gain]
<1>1. old \in Stats /\ old.total + 1 \in Nat /\ old.tagged + gain \in Nat
  OBVIOUS
<1>2. plain = [stats EXCEPT ![w] = counted]
  OBVIOUS
<1>3. both = [stats EXCEPT ![w] = all]
  OBVIOUS
<1> HIDE DEF plain, both, old
<1>4. /\ counted \in Stats /\ counted.total = old.total + 1
      /\ counted.duplicates = old.duplicates /\ counted.tagged = old.tagged
  BY <1>1
<1>5. all \in Stats
  BY <1>1
<1>6. all.total = old.total + 1
  BY <1>1
<1>7. all.duplicates = old.duplicates
  BY <1>1
<1>8. all.tagged = old.tagged + gain
  BY <1>1
<1> HIDE DEF counted, all
<1>9. plain \in [Writers -> Stats] /\ plain[w] = counted
  BY <1>2, <1>4
<1>10. both \in [Writers -> Stats] /\ both[w] = all
  BY <1>3, <1>5
<1>11. QED
  BY <1>4, <1>6, <1>7, <1>8, <1>9, <1>10 DEF plain, both, old

LEMMA CountInvMerge ==
  ASSUME NEW w \in Writers, CountInv(w), MergeMessage(w)
  PROVE  CountInv(w)'
<1> DEFINE t == task[w]
           k == opened[w]
           raw == Head(queue[w])
           record == MergeRecord(w, raw)
<1>1. FileInv /\ ShapeInv /\ OwnFile(w) /\ Works(w) /\ Counts(w)
  BY DEF CountInv
<1>2. /\ pc[w] = "copying" /\ t.op = "merge" /\ queue[w] # <<>>
      /\ queue' = [queue EXCEPT ![w] = Tail(queue[w])]
      /\ dir' = dir /\ task' = task /\ pc' = pc /\ handle' = handle /\ opened' = opened
      /\ runs' = runs
  BY DEF MergeMessage
<1>3. /\ stats[w].total \in Nat /\ stats[w].duplicates \in Nat /\ stats[w].tagged \in Nat
      /\ stats \in [Writers -> [total : Nat, duplicates : Nat, tagged : Nat]]
      /\ at \in [Writers -> Nat]
  BY <1>1 DEF ShapeInv
<1>4. CASE IsDuplicate(w, raw)
  <2>1. /\ stats' = [stats EXCEPT ![w].duplicates = stats[w].duplicates + 1]
        /\ data' = data /\ at' = at
    BY <1>4 DEF MergeMessage
  <2>2. /\ stats' \in [Writers -> [total : Nat, duplicates : Nat, tagged : Nat]]
        /\ stats'[w].total = stats[w].total /\ stats'[w].tagged = stats[w].tagged
        /\ stats'[w].duplicates = stats[w].duplicates + 1
    BY <1>3, <2>1
  <2>3. FileInv' /\ Files' = Files
    BY <1>1, <1>2, <2>1, SameFiles
  <2>4. OwnFile(w)'
    BY <1>1, <1>2, <2>1 DEF OwnFile, ItsName, IsBusy
  <2>5. stats'[w].tagged = IF t.label THEN stats'[w].total ELSE 0
    BY <1>1, <1>2, <2>2 DEF Counts, IsBusy
  <2>6. stats'[w].total + stats'[w].duplicates = stats[w].total + stats[w].duplicates + 1
    BY <1>3, <2>2
  <2>7. IsPromised(t, Files) => Holding(t, Files, data'[handle[w]], stats'[w].total, TRUE)
    <3>1. ~IsPlain(t)
      BY <1>2, NextMessage
    <3>2. (~IsPlain(t) \/ opened[w] < Len(t.inputs)) = TRUE
      BY <3>1
    <3>3. IsPromised(t, Files) => Holding(t, Files, data[handle[w]], stats[w].total, TRUE)
      BY <1>1, <1>2, <3>2 DEF Counts, IsBusy
    <3>4. QED
      BY <2>1, <2>2, <3>3
  <2>8. at' \in [Writers -> Nat]
    BY <1>3, <2>1
  <2>9. QED
    BY <1>2, <2>2, <2>3, <2>4, <2>5, <2>6, <2>7, <2>8, MessageTaken
<1>5. CASE ~IsDuplicate(w, raw)
  <2>1. /\ Write(w, record)
        /\ stats' = [stats EXCEPT ![w].total = @ + 1, ![w].tagged = @ + IF t.label THEN 1 ELSE 0]
    BY <1>5 DEF MergeMessage
  <2> DEFINE gain == IF t.label THEN 1 ELSE 0
  <2>2. gain \in Nat /\ stats' = [stats EXCEPT ![w].total = @ + 1, ![w].tagged = @ + gain]
    BY <2>1
  <2> HIDE DEF gain
  <2>3. /\ stats' \in [Writers -> [total : Nat, duplicates : Nat, tagged : Nat]]
        /\ stats'[w].total = stats[w].total + 1
        /\ stats'[w].duplicates = stats[w].duplicates
        /\ stats'[w].tagged = stats[w].tagged + gain
    BY <1>3, <2>2, CountedAre
  <2>4. /\ t \in Tasks /\ k \in DOMAIN t.inputs
        /\ \E m \in DOMAIN TheseMessages(t, Files, k) : raw = TheseMessages(t, Files, k)[m]
    BY <1>2, NextMessage
  <2>5. Readable(Files)
    BY <1>1, FilesAreReadable
  <2>6. record = MergedFrom(t, k, raw)
    BY DEF MergeRecord, MergedFrom
  <2> DEFINE files == Files
  <2>7. t \in Tasks /\ k \in DOMAIN t.inputs /\ Readable(files) /\ t.op = "merge"
    BY <1>2, <2>4, <2>5
  <2>8. PICK m \in DOMAIN TheseMessages(t, files, k) : raw = TheseMessages(t, files, k)[m]
    BY <2>4
  <2> HIDE DEF files, t, k, raw, record
  <2>9. record \in Seq(Piece)
    BY <2>6, <2>7, <2>8, WrittenType
  <2>10. IsPromised(t, files) => IsRecord(t, files, record)
    <3> SUFFICES ASSUME IsPromised(t, files)
                 PROVE  IsRecord(t, files, record)
      OBVIOUS
    <3>1. Alike(t, files) /\ HasEnvelopes(t, files)
      BY DEF IsPromised, IsSound
    <3>2. QED
      BY <2>6, <2>7, <2>8, <3>1, WrittenIsARecord
  <2>11. QED
    BY <1>2, <2>1, <2>3, <2>9, <2>10, RecordWritten DEF gain, files, t
<1>6. QED
  BY <1>4, <1>5

LEMMA CountInvExport ==
  ASSUME NEW w \in Writers, CountInv(w), ExportMessage(w)
  PROVE  CountInv(w)'
<1> DEFINE t == task[w]
           k == opened[w]
           raw == Head(queue[w])
           record == MboxRecord(raw)
           files == Files
<1>1. FileInv /\ ShapeInv
  BY DEF CountInv
<1>2. /\ pc[w] = "copying" /\ t.op = "export" /\ queue[w] # <<>>
      /\ queue' = [queue EXCEPT ![w] = Tail(queue[w])]
      /\ dir' = dir /\ task' = task /\ pc' = pc /\ handle' = handle /\ opened' = opened
      /\ runs' = runs
      /\ Write(w, record)
      /\ stats' = [stats EXCEPT ![w].total = stats[w].total + 1]
  BY DEF ExportMessage
<1>3. /\ stats' \in [Writers -> [total : Nat, duplicates : Nat, tagged : Nat]]
      /\ stats'[w].total = stats[w].total + 1
      /\ stats'[w].duplicates = stats[w].duplicates
      /\ stats'[w].tagged = stats[w].tagged /\ stats[w].tagged \in Nat
  <2>1. stats \in [Writers -> [total : Nat, duplicates : Nat, tagged : Nat]] /\ 0 \in Nat
    BY <1>1 DEF ShapeInv
  <2>2. stats' = [stats EXCEPT ![w].total = @ + 1]
    BY <1>2
  <2>3. stats[w].tagged \in Nat
    BY <2>1
  <2>4. QED
    BY <2>1, <2>2, <2>3, CountedAre
<1>4. /\ t \in Tasks /\ k \in DOMAIN t.inputs
      /\ \E m \in DOMAIN TheseMessages(t, Files, k) : raw = TheseMessages(t, Files, k)[m]
  BY <1>2, NextMessage
<1>5. Readable(files)
  BY <1>1, FilesAreReadable
<1>6. ~t.label /\ stats'[w].tagged = stats[w].tagged + IF t.label THEN 1 ELSE 0
  <2>1. ~t.label
    BY <1>2, <1>4, TaskFacts
  <2>2. QED
    BY <1>3, <2>1
<1>7. PICK m \in DOMAIN TheseMessages(t, files, k) : raw = TheseMessages(t, files, k)[m]
  BY <1>4
<1> HIDE DEF files, t, k, raw, record
<1>8. record \in Seq(Piece)
  BY <1>4, <1>5, <1>7, WrittenType DEF record
<1>9. IsPromised(t, files) => IsRecord(t, files, record)
  <2> SUFFICES ASSUME IsPromised(t, files)
               PROVE  IsRecord(t, files, record)
    OBVIOUS
  <2>1. Alike(t, files) /\ HasEnvelopes(t, files)
    BY DEF IsPromised, IsSound
  <2>2. QED
    BY <1>2, <1>4, <1>5, <1>7, <2>1, WrittenIsARecord DEF record
<1>10. QED
  BY <1>2, <1>3, <1>6, <1>8, <1>9, RecordWritten DEF files, t

LEMMA CountInvCopy ==
  ASSUME NEW w \in Writers, CountInv(w), CopyInput(w)
  PROVE  CountInv(w)'
<1> DEFINE t == task[w]
           k == opened[w] + 1
           files == Files
           bytes == files[t.inputs[k]]
           counted == {i \in DOMAIN bytes : BeginsWithFrom(bytes[i])}
           more == Cardinality(counted)
           old == data[handle[w]]
           n == stats[w].total
<1>1. FileInv /\ ShapeInv /\ OwnFile(w) /\ Works(w) /\ Counts(w)
  BY DEF CountInv
<1>2. /\ pc[w] = "reading" /\ opened[w] < Len(t.inputs) /\ IsPlain(t) /\ ~t.label
      /\ opened' = [opened EXCEPT ![w] = opened[w] + 1]
      /\ dir' = dir /\ task' = task /\ pc' = pc /\ handle' = handle /\ queue' = queue
      /\ runs' = runs
  BY DEF CopyInput, IsPlain
<1>3. t \in Tasks /\ opened[w] \in 0 .. Len(t.inputs) /\ Len(t.inputs) \in Nat
      /\ DOMAIN t.inputs = 1 .. Len(t.inputs)
  BY <1>1, <1>2, TaskFacts DEF OwnFile, Works, IsBusy
<1>4. k \in DOMAIN t.inputs /\ k \in 0 .. Len(t.inputs) /\ k \in Nat
  BY <1>2, <1>3
<1>5. t.inputs[k] \in Inputs /\ NextInput(w) = t.inputs[k]
  BY <1>3, <1>4, TaskFacts DEF NextInput
<1>6. bytes = Holds(NextInput(w))
  <2> HIDE DEF t, k
  <2>1. QED
    BY <1>5 DEF Files
<1>7. Readable(files)
  BY <1>1, FilesAreReadable
<1> HIDE DEF k
<1>8. IsMailbox(bytes) /\ bytes \in Seq(Piece)
  BY <1>5, <1>7 DEF Readable, IsInput, IsMailbox
<1>9. Write(w, bytes) /\ stats' = [stats EXCEPT ![w].total = @ + more]
  BY <1>6 DEF CopyInput
<1> HIDE DEF bytes, files
<1>10. counted \subseteq 1 .. Len(bytes) /\ more \in Nat
  <2>1. DOMAIN bytes = 1 .. Len(bytes)
    BY <1>8
  <2>2. counted \in SUBSET (1 .. Len(bytes))
    BY <2>1
  <2>3. IsFiniteSet(1 .. Len(bytes))
    BY <1>8, FS_Interval
  <2>4. IsFiniteSet(counted)
    BY <2>2, <2>3, FS_Subset
  <2>5. QED
    BY <2>2, <2>4, FS_CardinalityType
<1> HIDE DEF counted, more
<1>11. stats \in [Writers -> [total : Nat, duplicates : Nat, tagged : Nat]] /\ n \in Nat
  BY <1>1 DEF ShapeInv
<1>12. stats' \in [Writers -> [total : Nat, duplicates : Nat, tagged : Nat]]
  BY <1>9, <1>10, <1>11
<1>13. stats'[w].total = n + more
  BY <1>9, <1>11
<1>14. stats'[w].tagged = stats[w].tagged
  BY <1>9, <1>11
<1>15. /\ FileInv' /\ Files' = Files /\ old \in Seq(Piece) /\ data'[handle[w]] = old \o bytes
       /\ at' \in [Writers -> Nat] /\ at'[w] = Len(data'[handle[w]])
  <2>1. IsBusy(w)
    BY <1>2 DEF IsBusy
  <2>2. QED
    BY <1>1, <1>2, <1>8, <1>9, <2>1, WriteAppends
<1>16. opened' \in [Writers -> Nat] /\ opened'[w] = k
  <2>1. opened \in [Writers -> Nat]
    BY <1>1 DEF ShapeInv
  <2>2. opened[w] + 1 \in Nat
    BY <2>1
  <2>3. QED
    BY <1>2, <2>1, <2>2 DEF k
<1>17. ShapeInv'
  BY <1>1, <1>2, <1>12, <1>15, <1>16 DEF ShapeInv
<1>18. OwnFile(w)'
  <2>1. /\ pc'[w] = "reading" /\ ItsName(w)' = TempName(t)
        /\ TempName(t) \in DOMAIN dir /\ dir[TempName(t)] = handle[w]
    BY <1>1, <1>2 DEF OwnFile, ItsName, IsBusy
  <2>2. QED
    BY <1>2, <1>3, <1>15, <2>1 DEF OwnFile
<1>19. Works(w)'
  <2>1. queue[w] = <<>>
    BY <1>1, <1>2 DEF Works, IsBusy
  <2>2. <<>> \in Seq(Seq(Piece)) /\ Len(<<>>) = 0
    OBVIOUS
  <2>3. \A q \in 1 .. Len(<<>>) : FALSE
    BY <2>2
  <2>4. QED
    BY <1>2, <1>4, <1>16, <2>1, <2>2, <2>3 DEF Works, IsBusy
<1>20. Counts(w)'
  <2>1. stats'[w].tagged = IF t.label THEN stats'[w].total ELSE 0
    BY <1>1, <1>2, <1>14 DEF Counts, IsBusy
  <2>2. IsPromised(t, files) =>
            Holding(t, files, old \o bytes, n + more, k < Len(t.inputs))
    <3> SUFFICES ASSUME IsPromised(t, files)
                 PROVE  Holding(t, files, old \o bytes, n + more, k < Len(t.inputs))
      OBVIOUS
    <3>1. Holding(t, files, old, n, TRUE)
      <4>1. (~IsPlain(t) \/ opened[w] < Len(t.inputs)) = TRUE
        BY <1>2
      <4>2. QED
        BY <1>1, <1>2, <4>1 DEF Counts, IsBusy, files
    <3>2. Alike(t, files) /\ CanBeConcatenated(t, files) /\ CountIsExact(t, files)
      BY <1>2 DEF IsPromised, IsSound
    <3> HIDE DEF t, old, n
    <3>3. /\ counted = Marks(bytes) /\ IsOfTheKind(t, files, bytes)
          /\ k < Len(t.inputs) => \A i \in 1 .. Len(bytes) : bytes[i].nl
      BY <1>3, <1>4, <1>7, <3>2, CopiedIs DEF bytes, counted
    <3>4. Holding(t, files, bytes, more, k < Len(t.inputs))
      BY <1>8, <3>3 DEF Holding, more
    <3>5. QED
      BY <1>8, <1>10, <1>11, <1>15, <3>1, <3>4, MoreIsHeld
  <2>3. task'[w] = t /\ data'[handle'[w]] = old \o bytes
    BY <1>2, <1>15
  <2>4. (~IsPlain(t) \/ k < Len(t.inputs)) = (k < Len(t.inputs))
    BY <1>2
  <2>5. Files' = files
    BY <1>15 DEF files
  <2> HIDE DEF t, n, old
  <2>6. /\ stats'[w].tagged = IF t.label THEN stats'[w].total ELSE 0
        /\ IsPromised(t, Files') =>
               Holding(t, Files', data'[handle'[w]], stats'[w].total,
                       ~IsPlain(t) \/ opened'[w] < Len(t.inputs))
    BY <1>13, <1>16, <2>1, <2>2, <2>3, <2>4, <2>5
  <2>7. QED
    BY <1>2, <2>3, <2>6 DEF Counts
<1>21. QED
  BY <1>15, <1>17, <1>18, <1>19, <1>20 DEF CountInv

LEMMA CountInvCommit ==
  ASSUME NEW w \in Writers, CountInv(w), Commit(w)
  PROVE  CountInv(w)'
<1> DEFINE t == task[w]
           temp == TempName(t)
<1>1. FileInv /\ ShapeInv /\ OwnFile(w) /\ Works(w) /\ Counts(w)
  BY DEF CountInv
<1>2. /\ pc[w] = "reading" /\ opened[w] = Len(t.inputs)
      /\ data' = data /\ task' = task /\ handle' = handle /\ at' = at /\ opened' = opened
      /\ queue' = queue /\ stats' = stats /\ runs' = runs
  BY DEF Commit
<1>3. /\ t \in Tasks /\ temp \in DOMAIN dir /\ dir[temp] = handle[w]
  BY <1>1, <1>2 DEF OwnFile, ItsName, IsBusy
<1>4. dir' = Renamed(temp, t.output) /\ pc' = [pc EXCEPT ![w] = "done"]
  BY <1>3 DEF Commit
<1>5. pc' = [v \in Writers |-> pc'[v]] /\ pc'[w] = "done"
  <2>1. pc = [v \in Writers |-> pc[v]]
    BY <1>1 DEF ShapeInv
  <2>2. QED
    BY <1>4, <2>1
<1>6. ShapeInv'
  BY <1>1, <1>2, <1>5 DEF ShapeInv
<1>7. t.output \notin Inputs /\ temp \notin Inputs
  BY <1>3, TaskFacts DEF TempName
<1> DEFINE output == t.output
<1> HIDE DEF temp
<1>8. /\ DOMAIN dir' = (DOMAIN dir \ {temp}) \cup {output}
      /\ dir'[output] = dir[temp]
      /\ \A n \in DOMAIN dir' : n # output => n \in DOMAIN dir /\ n # temp /\ dir'[n] = dir[n]
  <2> HIDE DEF output
  <2>1. dir' = [n \in (DOMAIN dir \ {temp}) \cup {output} |-> IF n = output THEN dir[temp] ELSE dir[n]]
    BY <1>4 DEF Renamed, output
  <2>2. QED
    BY <2>1
<1> HIDE DEF output
<1>9. \A n \in Inputs : n \in DOMAIN dir' <=> n \in DOMAIN dir
  BY <1>7, <1>8 DEF output
<1>10. \A n \in Inputs : n \in DOMAIN dir => data'[dir'[n]] = data[dir[n]]
  BY <1>2, <1>7, <1>8 DEF output
<1>11. Files' = Files
  BY <1>9, <1>10, FilesAreKept
<1>12. FileInv'
  <2>1. \A m, n \in DOMAIN dir' : dir'[m] = dir'[n] => m = n
    BY <1>1, <1>3, <1>8 DEF FileInv
  <2>2. \A n \in DOMAIN dir' : dir'[n] \in DOMAIN data
    BY <1>1, <1>3, <1>8 DEF FileInv
  <2>3. \A n \in Inputs : n \in DOMAIN dir' => IsInput(data'[dir'[n]])
    BY <1>1, <1>9, <1>10 DEF FileInv
  <2>4. QED
    BY <1>1, <1>2, <2>1, <2>2, <2>3 DEF FileInv
<1>13. OwnFile(w)'
  <2>1. ItsName(w)' = output
    BY <1>2, <1>5 DEF ItsName, output
  <2>2. at[w] = Len(data[handle[w]])
    BY <1>1, <1>2 DEF OwnFile, IsBusy
  <2>3. QED
    BY <1>2, <1>3, <1>8, <2>1, <2>2 DEF OwnFile
<1>14. Works(w)'
  BY <1>1, <1>2, <1>5, <1>11 DEF Works, IsBusy
<1>15. Counts(w)'
  BY <1>1, <1>2, <1>5, <1>11 DEF Counts, IsBusy
<1>16. QED
  BY <1>6, <1>12, <1>13, <1>14, <1>15 DEF CountInv

LEMMA CountInvStep ==
  ASSUME NEW w, Writers = {w}, CountInv(w), [Next]_vars
  PROVE  CountInv(w)'
<1>1. w \in Writers
  OBVIOUS
<1>2. CASE \E t \in Tasks : Start(w, t)
  BY <1>1, <1>2, CountInvStart
<1>3. CASE OpenInput(w)
  BY <1>1, <1>3, CountInvOpen
<1>4. CASE MergeMessage(w)
  BY <1>1, <1>4, CountInvMerge
<1>5. CASE ExportMessage(w)
  BY <1>1, <1>5, CountInvExport
<1>6. CASE CopyInput(w)
  BY <1>1, <1>6, CountInvCopy
<1>7. CASE Commit(w)
  BY <1>1, <1>7, CountInvCommit
<1>8. CASE InputCopied(w) \/ Fail(w) \/ UNCHANGED vars
  BY <1>1, <1>8, CountInvIdle
<1>9. QED
  BY <1>2, <1>3, <1>4, <1>5, <1>6, <1>7, <1>8 DEF Next

LEMMA CountInvAddsUp ==
  ASSUME NEW w, Writers = {w}, CountInv(w)
  PROVE  CountsAddUp
<1> DEFINE t == task[w]
           files == Files
           all == FlattenSeq(InputsOf(t, files))
           exact == IsPlain(t) => \A i \in DOMAIN all : all[i].kind # "malformed" /\ ~all[i].bom
           content == data[handle[w]]
<1>1. w \in Writers /\ FileInv /\ ShapeInv /\ OwnFile(w) /\ Works(w) /\ Counts(w)
  BY DEF CountInv
<1>2. ASSUME pc[w] = "done", IsSound(t, files), exact
      PROVE  /\ stats[w].total = Len(MessagesIn(Holds(t.output)))
             /\ t.op = "merge" /\ ~IsPlain(t) =>
                    stats[w].total + stats[w].duplicates = Len(Sources(t, files))
             /\ stats[w].tagged = IF t.label THEN stats[w].total ELSE 0
  <2>1. IsPromised(t, files)
    BY <1>2 DEF IsPromised, CountIsExact
  <2>2. /\ t \in Tasks /\ t.output \in DOMAIN dir /\ dir[t.output] = handle[w]
    BY <1>1, <1>2 DEF OwnFile, ItsName
  <2>3. opened[w] = Len(t.inputs) /\ queue[w] = <<>>
    BY <1>1, <1>2 DEF Works
  <2>4. \E isWhole : Holding(t, files, content, stats[w].total, isWhole)
    BY <1>1, <1>2, <2>1 DEF Counts
  <2>5. stats[w].tagged = IF t.label THEN stats[w].total ELSE 0
    BY <1>1, <1>2 DEF Counts
  <2>6. t.op = "merge" /\ ~IsPlain(t) =>
            stats[w].total + stats[w].duplicates + Len(queue[w])
                = Len(FlattenSeq(SubSeq(SourcesOf(t, files), 1, opened[w])))
    BY <1>1, <1>2 DEF Counts
  <2>7. Holds(t.output) = content
    BY <2>2 DEF Holds
  <2>8. Readable(files) /\ Alike(t, files)
    BY <1>1, <1>2, FilesAreReadable DEF IsSound
  <2>9. stats[w].total \in Nat /\ stats[w].duplicates \in Nat
    BY <1>1 DEF ShapeInv
  <2>10. Len(queue[w]) = 0
    BY <2>3
  <2> HIDE DEF t, files, content
  <2>11. /\ IsMailbox(content) /\ content \in Seq(Piece) /\ IsOfTheKind(t, files, content)
         /\ Cardinality(Marks(content)) = stats[w].total
    BY <2>4 DEF Holding, IsMailbox
  <2>12. Starts(content) = Marks(content)
    BY <2>2, <2>8, <2>11, StartsAreMarks
  <2>13. Len(MessagesIn(content)) = Cardinality(Starts(content))
    BY <2>11, MessagesAre
  <2>14. /\ Len(t.inputs) \in 0 .. Len(t.inputs)
    BY <2>2, TaskFacts
  <2>15. FlattenSeq(SubSeq(SourcesOf(t, files), 1, Len(t.inputs))) = Sources(t, files)
    BY <2>2, <2>8, <2>14, CountSources
  <2>16. t.op = "merge" /\ ~IsPlain(t) =>
             stats[w].total + stats[w].duplicates = Len(Sources(t, files))
    BY <2>3, <2>6, <2>9, <2>10, <2>15
  <2>17. QED
    BY <2>5, <2>7, <2>11, <2>12, <2>13, <2>16
<1> HIDE DEF t
<1>3. pc[w] = "done" /\ IsSound(t, files) /\ exact =>
          /\ stats[w].total = Len(MessagesIn(Holds(t.output)))
          /\ t.op = "merge" /\ ~IsPlain(t) =>
                 stats[w].total + stats[w].duplicates = Len(Sources(t, files))
          /\ stats[w].tagged = IF t.label THEN stats[w].total ELSE 0
  BY <1>2
<1>4. \A v \in Writers : v = w
  OBVIOUS
<1>5. QED
  BY <1>3, <1>4 DEF CountsAddUp, Files, t

(* The numbers that a merge or an export reports are those of the mailbox  *)
(* that it wrote, where no other process writes at the same time           *)
(* (export/mbox.rs:83-106, 112-123).                                       *)
THEOREM ReportedCountsAddUp ==
  ASSUME NEW w, Writers = {w}
  PROVE  Spec => []CountsAddUp
<1>1. Init => CountInv(w)
  BY CountInvInit
<1>2. CountInv(w) /\ [Next]_vars => CountInv(w)'
  BY CountInvStep
<1>3. CountInv(w) => CountsAddUp
  BY CountInvAddsUp
<1>4. QED
  BY <1>1, <1>2, <1>3, PTL DEF Spec

-----------------------------------------------------------------------------
(* What a reader finds in a mailbox that is written.                       *)

(* Where the elements of one of the sequences are in the concatenation.    *)
LEMMA FlattenAt ==
  ASSUME NEW S, NEW seqs \in Seq(Seq(S)), NEW n \in 0 .. Len(seqs), n < Len(seqs),
         NEW before, before = Len(FlattenSeq(SubSeq(seqs, 1, n)))
  PROVE  /\ before \in Nat /\ Len(seqs[n + 1]) \in Nat /\ Len(FlattenSeq(seqs)) \in Nat
         /\ before + Len(seqs[n + 1]) <= Len(FlattenSeq(seqs))
         /\ \A i \in 1 .. Len(seqs[n + 1]) : FlattenSeq(seqs)[before + i] = seqs[n + 1][i]
<1> DEFINE last == Len(seqs)
           f == [m \in 0 .. last |-> FlattenSeq(SubSeq(seqs, 1, m))]
           l == Len(seqs[n + 1])
<1>1. last \in Nat /\ \A m \in 1 .. last : seqs[m] \in Seq(S)
  OBVIOUS
<1>2. /\ \A m \in 0 .. last : f[m] \in Seq(S)
      /\ \A m \in 0 .. last : m < last => f[m + 1] = f[m] \o seqs[m + 1]
  <2>1. ASSUME NEW m \in 0 .. last
        PROVE  f[m] \in Seq(S)
    BY FlattenOneMore
  <2>2. ASSUME NEW m \in 0 .. last, m < last
        PROVE  f[m + 1] = f[m] \o seqs[m + 1]
    <3>1. m + 1 \in 0 .. last
      BY <1>1, <2>2
    <3>2. FlattenSeq(SubSeq(seqs, 1, m + 1)) = FlattenSeq(SubSeq(seqs, 1, m)) \o seqs[m + 1]
      BY <2>2, FlattenOneMore
    <3>3. QED
      BY <3>1, <3>2
  <2>3. QED
    BY <2>1, <2>2
<1>3. f[last] = FlattenSeq(seqs)
  <2>1. SubSeq(seqs, 1, last) = seqs /\ last \in 0 .. last
    OBVIOUS
  <2>2. QED
    BY <2>1
<1>4. f[n] = FlattenSeq(SubSeq(seqs, 1, n))
  OBVIOUS
<1> HIDE DEF f, last
<1>5. n \in 0 .. last /\ n < last /\ n + 1 \in 1 .. last /\ n + 1 \in 0 .. last /\ seqs[n + 1] \in Seq(S)
  BY <1>1 DEF last
<1>6. f[n] \in Seq(S) /\ before = Len(f[n]) /\ f[n + 1] = f[n] \o seqs[n + 1]
  BY <1>2, <1>4, <1>5
<1>7. /\ f[n + 1] \in Seq(S) /\ Len(f[n + 1]) = Len(f[n]) + Len(seqs[n + 1])
      /\ \A i \in 1 .. Len(f[n]) + Len(seqs[n + 1]) :
             f[n + 1][i] = IF i <= Len(f[n]) THEN f[n][i] ELSE seqs[n + 1][i - Len(f[n])]
  <2>1. /\ f[n] \o seqs[n + 1] \in Seq(S) /\ Len(f[n] \o seqs[n + 1]) = Len(f[n]) + Len(seqs[n + 1])
        /\ \A i \in 1 .. Len(f[n]) + Len(seqs[n + 1]) :
               (f[n] \o seqs[n + 1])[i] = IF i <= Len(f[n]) THEN f[n][i] ELSE seqs[n + 1][i - Len(f[n])]
    BY ZenonT(30), <1>5, <1>6, ConcatProperties
  <2>2. QED
    BY <1>6, <2>1
<1>8. l \in Nat /\ before \in Nat
  BY <1>5, <1>6
<1>9. Len(f[n + 1]) = before + l
  BY <1>6, <1>7
<1>10. \A i \in 1 .. l : f[n + 1][before + i] = seqs[n + 1][i]
  <2>1. \A i \in 1 .. before + l :
            f[n + 1][i] = IF i <= before THEN f[n][i] ELSE seqs[n + 1][i - before]
    BY <1>6, <1>7
  <2> HIDE DEF l
  <2>2. ASSUME NEW i \in 1 .. l
        PROVE  before + i \in 1 .. before + l /\ ~(before + i <= before) /\ (before + i) - before = i
    BY <1>8
  <2>3. QED
    BY <2>1, <2>2
<1> HIDE DEF l
<1> DEFINE same == before + l
           long == f[n + 1]
           G == {m \in 0 .. last : n < m =>
                   same <= Len(f[m]) /\ \A i \in 1 .. same : f[m][i] = long[i]}
<1>11. same \in Nat
  BY <1>8
<1>12. Len(long) = same /\ long = f[n + 1]
  BY <1>9
<1> HIDE DEF same, long
<1>13. 0 \in G
  <2>1. 0 \in 0 .. last /\ ~(n < 0)
    BY <1>1, <1>5
  <2>2. QED
    BY <2>1
<1>14. ASSUME NEW m \in 0 .. last, m \in G, m < last
       PROVE  m + 1 \in G
  <2>1. m + 1 \in 0 .. last /\ m + 1 \in 1 .. last
    BY <1>1, <1>14
  <2>2. CASE m = n
    <3>1. same <= Len(f[m + 1]) /\ \A i \in 1 .. same : f[m + 1][i] = long[i]
      BY <2>2, <1>11, <1>12
    <3>2. QED
      BY <2>1, <3>1
  <2>3. CASE m < n
    <3>1. ~(n < m + 1)
      BY <1>5, <2>3
    <3>2. QED
      BY <2>1, <3>1
  <2>4. CASE n < m
    <3>1. same <= Len(f[m]) /\ \A i \in 1 .. same : f[m][i] = long[i]
      BY <1>14, <2>4
    <3>2. f[m] \in Seq(S) /\ seqs[m + 1] \in Seq(S) /\ f[m + 1] = f[m] \o seqs[m + 1]
      BY <1>1, <1>2, <1>14, <2>1
    <3> DEFINE old == f[m]
               new == seqs[m + 1]
               all == f[m + 1]
    <3>3. /\ Len(old \o new) = Len(old) + Len(new)
          /\ \A i \in 1 .. Len(old) + Len(new) :
                 (old \o new)[i] = IF i <= Len(old) THEN old[i] ELSE new[i - Len(old)]
      <4>1. old \in Seq(S) /\ new \in Seq(S)
        BY <3>2
      <4> HIDE DEF old, new
      <4>2. QED
        BY <4>1, ConcatProperties
    <3>4. Len(old) \in Nat /\ Len(new) \in Nat
      BY <3>2
    <3>5. all = old \o new /\ same <= Len(old) /\ \A i \in 1 .. same : old[i] = long[i]
      BY <3>1, <3>2
    <3> HIDE DEF old, new, all
    <3>6. \A i \in 1 .. same : i \in 1 .. Len(old) + Len(new) /\ i <= Len(old)
      BY <1>11, <3>4, <3>5
    <3>7. same <= Len(all)
      BY <1>11, <3>3, <3>4, <3>5
    <3>8. \A i \in 1 .. same : all[i] = long[i]
      BY <3>3, <3>5, <3>6
    <3>9. QED
      BY <2>1, <3>7, <3>8 DEF all
  <2>5. QED
    BY <1>5, <2>2, <2>3, <2>4
<1>15. last \in G
  <2> HIDE DEF G
  <2>1. \A m \in 0 .. last : m \in G
    BY <1>1, <1>13, <1>14, InductionUpTo
  <2>2. QED
    BY <1>1, <2>1
<1>16. same <= Len(f[last]) /\ \A i \in 1 .. same : f[last][i] = long[i]
  BY <1>5, <1>15
<1>17. \A i \in 1 .. l : before + i \in 1 .. same
  BY <1>8 DEF same
<1>18. Len(f[last]) \in Nat
  BY <1>1, <1>2
<1>19. \A i \in 1 .. l : f[last][before + i] = seqs[n + 1][i]
  BY <1>10, <1>16, <1>17 DEF long
<1>20. QED
  BY <1>3, <1>8, <1>16, <1>18, <1>19 DEF same, l

(* Where the k-th of the pieces that begin at the marks of the list ends.  *)
EndOf(content, list, count, k) == IF k = count THEN Len(content) ELSE list[k + 1] - 1

(* The messages, one by one, of a mailbox with a message at every mark.    *)
LEMMA MessagesAt ==
  ASSUME NEW content, IsMailbox(content), Starts(content) = Marks(content)
  PROVE  LET list == Ascending(Marks(content))
             count == Cardinality(Marks(content))
         IN  /\ count \in Nat /\ list \in [1 .. count -> Marks(content)]
             /\ \A i \in Marks(content) : \E k \in 1 .. count : list[k] = i
             /\ \A i, j \in 1 .. count : i < j => list[i] < list[j]
             /\ MessagesIn(content) \in Seq(Seq(Piece))
             /\ Len(MessagesIn(content)) = count
             /\ \A k \in 1 .. count :
                    /\ MessagesIn(content)[k]
                           = SubSeq(content, list[k], EndOf(content, list, count, k))
                    /\ list[k] \in 1 .. Len(content)
                    /\ EndOf(content, list, count, k) \in 1 .. Len(content)
                    /\ list[k] <= EndOf(content, list, count, k)
<1> DEFINE marks == Marks(content)
           list == Ascending(marks)
           count == Cardinality(marks)
           cut == [k \in 1 .. count |-> SubSeq(content, list[k], EndOf(content, list, count, k))]
<1>1. content \in Seq(Piece) /\ Len(content) \in Nat /\ DOMAIN content = 1 .. Len(content)
  BY DEF IsMailbox
<1>2. marks \subseteq 1 .. Len(content) /\ IsFiniteSet(marks) /\ marks \in SUBSET Nat
  <2>1. marks \subseteq 1 .. Len(content) /\ IsFiniteSet(marks)
    BY <1>1, MarksAreFinite
  <2> HIDE DEF marks
  <2>2. QED
    BY <1>1, <2>1
<1>3. /\ MessagesIn(content) = [k \in DOMAIN list |->
             SubSeq(content, list[k], IF k = Len(list) THEN Len(content) ELSE list[k + 1] - 1)]
      /\ MessagesIn(content) \in Seq(Seq(Piece))
  <2>1. Picked(content, Starts(content)) = list
    <3>1. DOMAIN content \cap Starts(content) = marks
      BY <1>1, <1>2
    <3>2. QED
      BY <3>1 DEF Picked
  <2>2. MessagesIn(content) \in Seq(Seq(Piece))
    BY MessagesAre
  <2>3. QED
    BY <2>1, <2>2, WholeLinesAreRead DEF MessagesIn
<1> HIDE DEF marks
<1>4. /\ count \in Nat /\ list \in [1 .. count -> marks]
      /\ \A i \in marks : \E n \in 1 .. count : list[n] = i
      /\ \A i, j \in 1 .. count : i < j => list[i] < list[j]
  BY <1>2, AscendingListsTheSet
<1> HIDE DEF list, count
<1>5. DOMAIN list = 1 .. count /\ Len(list) = count
  BY <1>4
<1>6. MessagesIn(content) = cut
  BY <1>3, <1>5 DEF EndOf
<1>7. \A k \in 1 .. count : cut[k] = SubSeq(content, list[k], EndOf(content, list, count, k))
  OBVIOUS
<1>8. Len(cut) = count
  BY <1>4
<1> HIDE DEF cut
<1>9. ASSUME NEW k \in 1 .. count
      PROVE  /\ list[k] \in 1 .. Len(content)
             /\ EndOf(content, list, count, k) \in 1 .. Len(content)
             /\ list[k] <= EndOf(content, list, count, k)
  <2>1. list[k] \in 1 .. Len(content)
    BY <1>2, <1>4
  <2>2. CASE k = count
    BY <1>1, <2>1, <2>2 DEF EndOf
  <2>3. CASE k # count
    <3>1. k + 1 \in 1 .. count /\ k < k + 1
      BY <1>4, <2>3
    <3>2. list[k + 1] \in 1 .. Len(content) /\ list[k] < list[k + 1]
      BY <1>2, <1>4, <3>1
    <3>3. EndOf(content, list, count, k) = list[k + 1] - 1
      BY <2>3 DEF EndOf
    <3>4. QED
      BY <1>1, <2>1, <3>2, <3>3
  <2>4. QED
    BY <2>2, <2>3
<1>10. QED
  BY <1>3, <1>4, <1>6, <1>7, <1>8, <1>9 DEF list, count, marks

(* A part of one of two sequences is a part of their concatenation. *)
LEMMA PartOfBoth ==
  ASSUME NEW S, NEW old \in Seq(S), NEW new \in Seq(S), NEW i \in Nat, NEW j \in Nat, 1 <= i
  PROVE  /\ j <= Len(old) => SubSeq(old \o new, i, j) = SubSeq(old, i, j)
         /\ j <= Len(new) =>
                SubSeq(old \o new, i + Len(old), j + Len(old)) = SubSeq(new, i, j)
<1> DEFINE both == old \o new
           n == Len(old)
           l == Len(new)
<1>1. /\ n \in Nat /\ l \in Nat /\ Len(both) = n + l
      /\ \A k \in 1 .. n + l : both[k] = IF k <= n THEN old[k] ELSE new[k - n]
  BY ConcatProperties
<1> HIDE DEF both, n, l
<1>2. ASSUME j <= n
      PROVE  SubSeq(both, i, j) = SubSeq(old, i, j)
  <2>1. SubSeq(both, i, j) = [k \in 1 .. (1 + j - i) |-> both[k + i - 1]]
    BY DEF SubSeq
  <2>2. SubSeq(old, i, j) = [k \in 1 .. (1 + j - i) |-> old[k + i - 1]]
    BY DEF SubSeq
  <2>3. ASSUME NEW k \in 1 .. (1 + j - i)
        PROVE  both[k + i - 1] = old[k + i - 1]
    <3>1. k + i - 1 \in 1 .. n + l /\ k + i - 1 <= n
      BY <1>1, <1>2
    <3>2. QED
      BY <1>1, <3>1
  <2>4. QED
    BY <2>1, <2>2, <2>3
<1>3. ASSUME j <= l
      PROVE  SubSeq(both, i + n, j + n) = SubSeq(new, i, j)
  <2> DEFINE a == i + n
             b == j + n
  <2>1. a \in Nat /\ b \in Nat /\ 1 + b - a = 1 + j - i
    BY <1>1
  <2>2. ASSUME NEW k \in 1 .. 1 + j - i
        PROVE  both[k + a - 1] = new[k + i - 1]
    <3>1. /\ k + a - 1 \in 1 .. n + l /\ ~(k + a - 1 <= n)
          /\ (k + a - 1) - n = k + i - 1
      BY <1>1, <1>3
    <3>2. both[k + a - 1] = new[(k + a - 1) - n]
      BY <1>1, <3>1
    <3>3. QED
      BY <3>1, <3>2
  <2> HIDE DEF a, b
  <2>3. SubSeq(both, a, b) = [k \in 1 .. 1 + b - a |-> both[k + a - 1]]
    BY <2>1 DEF SubSeq
  <2> DEFINE c == 1 + b - a
             d == 1 + j - i
  <2>4. SubSeq(new, i, j) = [k \in 1 .. d |-> new[k + i - 1]]
    BY DEF SubSeq
  <2>5. c = d /\ SubSeq(both, a, b) = [k \in 1 .. c |-> both[k + a - 1]]
    BY <2>1, <2>3
  <2>6. \A k \in 1 .. d : both[k + a - 1] = new[k + i - 1]
    BY <2>2
  <2> HIDE DEF c, d
  <2>7. SubSeq(both, a, b) = SubSeq(new, i, j)
    BY <2>4, <2>5, <2>6
  <2>8. QED
    BY <2>7 DEF a, b
<1>4. QED
  BY <1>2, <1>3 DEF both, n, l

(* Two mailboxes in one file: the messages of the one and then those of    *)
(* the other.                                                              *)
LEMMA MessagesJoin ==
  ASSUME NEW old, NEW new, IsMailbox(old), IsMailbox(new), IsMailbox(old \o new),
         new # <<>> => IsMark(new[1]),
         Starts(old) = Marks(old), Starts(new) = Marks(new),
         Starts(old \o new) = Marks(old \o new)
  PROVE  LET a == Len(MessagesIn(old))
             b == Len(MessagesIn(new))
         IN  /\ a \in Nat /\ b \in Nat /\ Len(MessagesIn(old \o new)) = a + b
             /\ \A i \in 1 .. a : MessagesIn(old \o new)[i] = MessagesIn(old)[i]
             /\ \A i \in 1 .. b : MessagesIn(old \o new)[a + i] = MessagesIn(new)[i]
<1> DEFINE n == Len(old)
           m == Len(new)
           both == old \o new
           oldMarks == Marks(old)
           newMarks == Marks(new)
           shifted == {i + n : i \in newMarks}
           a == Cardinality(oldMarks)
           b == Cardinality(newMarks)
           f == Ascending(oldMarks)
           s == Ascending(newMarks)
           g == Ascending(Marks(both))
           count == Cardinality(Marks(both))
<1>1. /\ old \in Seq(Piece) /\ new \in Seq(Piece) /\ n \in Nat /\ m \in Nat
      /\ Len(both) = n + m
  BY ConcatProperties DEF IsMailbox
<1>2. Marks(both) = oldMarks \cup shifted
  BY <1>1, MarksJoin
<1>3. /\ a \in Nat /\ f \in [1 .. a -> oldMarks]
      /\ \A i \in oldMarks : \E k \in 1 .. a : f[k] = i
      /\ Len(MessagesIn(old)) = a
      /\ \A k \in 1 .. a :
             /\ MessagesIn(old)[k] = SubSeq(old, f[k], EndOf(old, f, a, k))
             /\ f[k] \in 1 .. n /\ EndOf(old, f, a, k) \in 1 .. n
  BY MessagesAt
<1>4. /\ b \in Nat /\ s \in [1 .. b -> newMarks]
      /\ \A i \in newMarks : \E k \in 1 .. b : s[k] = i
      /\ \A i, j \in 1 .. b : i < j => s[i] < s[j]
      /\ Len(MessagesIn(new)) = b
      /\ \A k \in 1 .. b :
             /\ MessagesIn(new)[k] = SubSeq(new, s[k], EndOf(new, s, b, k))
             /\ s[k] \in 1 .. m /\ EndOf(new, s, b, k) \in 1 .. m
  BY MessagesAt
<1>5. /\ count \in Nat /\ Len(MessagesIn(both)) = count
      /\ \A k \in 1 .. count : MessagesIn(both)[k] = SubSeq(both, g[k], EndOf(both, g, count, k))
  BY MessagesAt
<1>6. /\ count = a + b
      /\ \A i \in 1 .. a + b : g[i] = IF i <= a THEN f[i] ELSE s[i - a] + n
  <2>1. /\ oldMarks \in SUBSET Nat /\ IsFiniteSet(oldMarks) /\ \A k \in oldMarks : k <= n
        /\ newMarks \in SUBSET Nat /\ IsFiniteSet(newMarks) /\ \A k \in newMarks : k > 0
    <3>1. /\ oldMarks \subseteq 1 .. n /\ newMarks \subseteq 1 .. m
          /\ IsFiniteSet(oldMarks) /\ IsFiniteSet(newMarks)
      BY <1>1, MarksAreFinite
    <3> HIDE DEF oldMarks, newMarks
    <3>2. QED
      BY <1>1, <3>1
  <2> HIDE DEF oldMarks, newMarks, n
  <2>2. /\ Cardinality(oldMarks \cup {k + n : k \in newMarks}) = a + b
        /\ \A i \in 1 .. a + b : Ascending(oldMarks \cup {k + n : k \in newMarks})[i] =
               IF i <= a THEN f[i] ELSE s[i - a] + n
    BY <1>1, <2>1, AscendingJoin
  <2>3. QED
    BY <1>2, <2>2
<1>7. new = <<>> <=> m = 0
  BY <1>1
<1>8. m > 0 => b > 0 /\ s[1] = 1
  <2>1. SUFFICES ASSUME m > 0
                 PROVE  b > 0 /\ s[1] = 1
    OBVIOUS
  <2>2. 1 \in newMarks
    BY <1>1, <1>7, <2>1 DEF Marks
  <2> HIDE DEF newMarks, s, b
  <2>3. PICK k \in 1 .. b : s[k] = 1
    BY <1>4, <2>2
  <2>4. 1 \in 1 .. b /\ b > 0
    BY <1>4
  <2>5. 1 < k => s[1] < s[k]
    BY <1>4, <2>4
  <2>6. s[1] \in 1 .. m
    BY <1>4, <2>4
  <2>7. s[1] \in Nat /\ s[1] >= 1 /\ b \in Nat
    BY <1>1, <1>4, <2>6
  <2>8. ~(1 < k)
    BY <2>3, <2>5, <2>7
  <2>9. k = 1
    BY <2>7, <2>8
  <2>10. QED
    BY <2>3, <2>4, <2>9
<1>9. b > 0 => m > 0
  <2> HIDE DEF s, b
  <2>1. b \in Nat
    BY <1>4
  <2>2. b > 0 => 1 \in 1 .. b
    BY <2>1
  <2>3. b > 0 => s[1] \in 1 .. m
    BY <1>4, <2>2
  <2>4. QED
    BY <1>1, <2>3
<1> HIDE DEF f, s, g, a, b, count, oldMarks, newMarks, n, m, both
<1>10. ASSUME NEW i \in 1 .. a
       PROVE  MessagesIn(both)[i] = MessagesIn(old)[i]
  <2>1. i \in 1 .. count /\ i \in 1 .. a + b /\ g[i] = f[i]
    BY <1>3, <1>4, <1>6
  <2>2. EndOf(both, g, count, i) = EndOf(old, f, a, i)
    <3>1. CASE i < a
      <4>1. i + 1 \in 1 .. a + b /\ i + 1 <= a /\ i # a /\ i # count
        BY <1>3, <1>4, <1>6, <3>1
      <4>2. g[i + 1] = f[i + 1]
        BY <1>6, <4>1
      <4>3. QED
        BY <4>1, <4>2 DEF EndOf
    <3>2. CASE i = a /\ m > 0
      <4>1. i + 1 \in 1 .. a + b /\ ~(i + 1 <= a) /\ (i + 1) - a = 1 /\ i # count
        BY <1>3, <1>4, <1>6, <1>8, <3>2
      <4>2. g[i + 1] = 1 + n
        BY <1>6, <1>8, <3>2, <4>1
      <4>3. EndOf(both, g, count, i) = (1 + n) - 1
        BY <4>1, <4>2 DEF EndOf
      <4>4. EndOf(old, f, a, i) = n
        BY <3>2 DEF EndOf, n
      <4>5. QED
        BY <1>1, <4>3, <4>4
    <3>3. CASE i = a /\ m = 0
      <4>1. b = 0 /\ i = count
        BY <1>3, <1>4, <1>6, <1>9, <3>3
      <4>2. EndOf(both, g, count, i) = n + m
        BY <1>1, <4>1 DEF EndOf
      <4>3. EndOf(old, f, a, i) = n
        BY <3>3 DEF EndOf, n
      <4>4. QED
        BY <1>1, <3>3, <4>2, <4>3
    <3>4. QED
      BY <1>1, <1>3, <3>1, <3>2, <3>3
  <2> DEFINE from == f[i]
             to == EndOf(old, f, a, i)
  <2>3. /\ from \in 1 .. n /\ to \in 1 .. n /\ MessagesIn(old)[i] = SubSeq(old, from, to)
        /\ MessagesIn(both)[i] = SubSeq(both, from, to)
    BY <1>3, <1>5, <2>1, <2>2
  <2> HIDE DEF from, to
  <2>4. from \in Nat /\ to \in Nat /\ 1 <= from /\ to <= Len(old)
    BY <1>1, <2>3 DEF n
  <2>5. SubSeq(old \o new, from, to) = SubSeq(old, from, to)
    BY <1>1, <2>4, PartOfBoth
  <2>6. QED
    BY <2>3, <2>5 DEF both
<1>11. ASSUME NEW i \in 1 .. b
       PROVE  MessagesIn(both)[a + i] = MessagesIn(new)[i]
  <2>1. /\ a + i \in 1 .. count /\ a + i \in 1 .. a + b /\ ~(a + i <= a) /\ (a + i) - a = i
    BY <1>3, <1>4, <1>6
  <2>2. g[a + i] = s[i] + n
    BY <1>6, <2>1
  <2>3. s[i] \in 1 .. m /\ EndOf(new, s, b, i) \in 1 .. m
    BY <1>4
  <2>4. EndOf(both, g, count, a + i) = EndOf(new, s, b, i) + n
    <3>1. CASE i = b
      <4>1. a + i = count
        BY <1>6, <3>1
      <4>2. EndOf(both, g, count, a + i) = n + m
        BY <1>1, <4>1 DEF EndOf
      <4>3. EndOf(new, s, b, i) = m
        BY <3>1 DEF EndOf, m
      <4>4. QED
        BY <1>1, <4>2, <4>3
    <3>2. CASE i # b
      <4>1. /\ i + 1 \in 1 .. b /\ (a + i) + 1 \in 1 .. a + b /\ ~((a + i) + 1 <= a)
            /\ ((a + i) + 1) - a = i + 1 /\ a + i # count
        BY <1>3, <1>4, <1>6, <3>2
      <4>2. g[(a + i) + 1] = s[i + 1] + n
        BY <1>6, <4>1
      <4>3. EndOf(both, g, count, a + i) = (s[i + 1] + n) - 1
        BY <4>1, <4>2 DEF EndOf
      <4>4. EndOf(new, s, b, i) = s[i + 1] - 1
        BY <3>2 DEF EndOf
      <4>5. s[i + 1] \in 1 .. m
        BY <1>4, <4>1
      <4>6. QED
        BY <1>1, <4>3, <4>4, <4>5
    <3>3. QED
      BY <3>1, <3>2
  <2> DEFINE from == s[i]
             to == EndOf(new, s, b, i)
  <2>5. /\ from \in 1 .. m /\ to \in 1 .. m /\ MessagesIn(new)[i] = SubSeq(new, from, to)
        /\ MessagesIn(both)[a + i] = SubSeq(both, from + n, to + n)
    BY <1>4, <1>5, <2>1, <2>2, <2>3, <2>4
  <2> HIDE DEF from, to
  <2>6. from \in Nat /\ to \in Nat /\ 1 <= from /\ to <= Len(new)
    BY <1>1, <2>5 DEF m
  <2>7. SubSeq(old \o new, from + Len(old), to + Len(old)) = SubSeq(new, from, to)
    BY <1>1, <2>6, PartOfBoth
  <2>8. QED
    BY <2>5, <2>7 DEF both, n
<1>12. QED
  BY <1>3, <1>4, <1>5, <1>6, <1>10, <1>11 DEF both

(* A file of the kind begins with a mark, if it has any lines. *)
LEMMA KindHasMark ==
  ASSUME NEW t \in Tasks, NEW files, Readable(files), Alike(t, files),
         NEW content, IsOfTheKind(t, files, content), content # <<>>
  PROVE  IsMark(content[1])
<1>1. ArePatches(t, files) \/ HaveNoPatches(t, files)
  BY AlikeIs
<1>2. QED
  BY <1>1 DEF IsOfTheKind, IsMark

(* A reader finds in a record the one message that it is. *)
LEMMA RecordIsAMessage ==
  ASSUME NEW t \in Tasks, NEW files, Readable(files), Alike(t, files),
         NEW record, IsRecord(t, files, record)
  PROVE  Len(MessagesIn(record)) = 1 /\ MessagesIn(record)[1] = record
<1> DEFINE n == Len(record)
           marks == Marks(record)
<1>1. /\ record \in Seq(Piece) /\ record # <<>> /\ n \in Nat /\ n \in 1 .. n /\ 1 \in 1 .. n
      /\ IsMailbox(record) /\ Cardinality(marks) = 1 /\ IsOfTheKind(t, files, record)
  BY DEF IsRecord, IsMailbox
<1>2. Starts(record) = Marks(record)
  BY <1>1, StartsAreMarks
<1>3. 1 \in marks
  BY <1>1, KindHasMark DEF Marks
<1>4. marks = {1}
  <2>1. IsFiniteSet(marks)
    BY <1>1, MarksAreFinite
  <2> HIDE DEF marks
  <2>2. \E x : marks = {x}
    BY <1>1, <2>1, FS_Singleton
  <2>3. QED
    BY <1>3, <2>2
<1> DEFINE list == Ascending(marks)
           count == Cardinality(marks)
<1>5. /\ list \in [1 .. count -> marks] /\ Len(MessagesIn(record)) = count
      /\ \A k \in 1 .. count :
             MessagesIn(record)[k] = SubSeq(record, list[k], EndOf(record, list, count, k))
  BY <1>1, <1>2, MessagesAt
<1> HIDE DEF list, marks
<1>6. list[1] = 1 /\ EndOf(record, list, count, 1) = n
  BY <1>1, <1>4, <1>5 DEF EndOf
<1>7. MessagesIn(record)[1] = SubSeq(record, 1, n)
  <2> DEFINE c == count
  <2>1. c = 1 /\ 1 \in 1 .. c
    BY <1>1
  <2>2. QED
    BY <1>5, <1>6, <2>1
<1>8. SubSeq(record, 1, n) = record
  BY <1>1, SubSeqFull
<1>9. QED
  BY <1>1, <1>5, <1>7, <1>8

(* What a reader compares: the lines without a label, each complete. *)
LEMMA BareIs ==
  ASSUME NEW message \in Seq(Piece), NEW count \in Nat,
         NEW list \in [1 .. count -> 1 .. Len(message)],
         \A i, j \in 1 .. count : i < j => list[i] < list[j],
         \A i \in 1 .. Len(message) :
             message[i].label = <<>> <=> \E k \in 1 .. count : list[k] = i
  PROVE  Bare(message) = [i \in 1 .. count |-> [message[list[i]] EXCEPT !.nl = TRUE]]
<1> DEFINE own == DOMAIN message \cap {i \in DOMAIN message : message[i].label = <<>>}
<1>1. DOMAIN message = 1 .. Len(message) /\ Len(message) \in Nat
  OBVIOUS
<1>2. \A i : i \in own <=> i \in 1 .. Len(message) /\ message[i].label = <<>>
  BY <1>1
<1>3. own \in SUBSET Nat
  BY <1>1
<1> DEFINE picked == Picked(message, {i \in DOMAIN message : message[i].label = <<>>})
<1>4. picked = Ascending(own) /\ Bare(message) = [i \in DOMAIN picked |-> [message[picked[i]] EXCEPT !.nl = TRUE]]
  BY DEF Picked, Bare
<1> HIDE DEF own, picked
<1>5. list \in [1 .. count -> own] /\ \A k \in own : \E n \in 1 .. count : list[n] = k
  BY <1>1, <1>2
<1>6. Ascending(own) = list
  BY <1>3, <1>5, AscendingIs
<1>7. picked = list /\ DOMAIN list = 1 .. count
  BY <1>4, <1>6
<1>8. QED
  BY <1>4, <1>7

(* The message as it is in its mailbox. *)
Completed(raw) == [i \in 1 .. Len(raw) |-> [raw[i] EXCEPT !.nl = TRUE]]

LEMMA BareWithoutLabels ==
  ASSUME NEW raw \in Seq(Piece), HasNoLabels(raw)
  PROVE  Bare(raw) = Completed(raw)
<1> DEFINE n == Len(raw)
           list == [i \in 1 .. n |-> i]
<1>1. n \in Nat /\ list \in [1 .. n -> 1 .. n]
  OBVIOUS
<1>2. \A i \in 1 .. n : list[i] = i /\ raw[i].label = <<>>
  BY DEF HasNoLabels
<1>3. list = [i \in 1 .. n |-> list[i]]
  OBVIOUS
<1> HIDE DEF list
<1>4. /\ \A i, j \in 1 .. n : i < j => list[i] < list[j]
      /\ \A i \in 1 .. n : raw[i].label = <<>> <=> \E k \in 1 .. n : list[k] = i
  BY <1>2
<1>5. Bare(raw) = [i \in 1 .. n |-> [raw[list[i]] EXCEPT !.nl = TRUE]]
  BY <1>1, <1>4, BareIs
<1>6. QED
  BY <1>2, <1>5 DEF Completed

(* A newline at the end changes neither labels nor what is compared. *)
LEMMA EndLineKeeps ==
  ASSUME NEW lines \in Seq(Piece), lines # <<>>
  PROVE  /\ EndLine(lines) \in Seq(Piece) /\ Len(EndLine(lines)) = Len(lines)
         /\ \A i \in 1 .. Len(lines) :
                /\ EndLine(lines)[i].label = lines[i].label
                /\ [EndLine(lines)[i] EXCEPT !.nl = TRUE] = [lines[i] EXCEPT !.nl = TRUE]
<1> DEFINE n == Len(lines)
           e == [lines[n] EXCEPT !.nl = TRUE]
           ended == EndLine(lines)
<1>1. n \in Nat /\ n \in 1 .. n /\ lines[n] \in Piece
  OBVIOUS
<1>2. e.label = lines[n].label /\ [e EXCEPT !.nl = TRUE] = [lines[n] EXCEPT !.nl = TRUE]
  BY <1>1 DEF Piece
<1>3. ended = [lines EXCEPT ![n] = e]
  BY DEF EndLine
<1>4. ended \in Seq(Piece) /\ Len(ended) = n
  BY EndLineType
<1> HIDE DEF n, e
<1>5. \A j \in 1 .. n : [lines EXCEPT ![n] = e][j] = IF j = n THEN e ELSE lines[j]
  BY <1>1 DEF n
<1> HIDE DEF ended
<1>6. ASSUME NEW i \in 1 .. n
      PROVE  ended[i].label = lines[i].label /\ [ended[i] EXCEPT !.nl = TRUE] = [lines[i] EXCEPT !.nl = TRUE]
  <2>1. ended[i] = IF i = n THEN e ELSE lines[i]
    BY <1>3, <1>5
  <2>2. QED
    BY <1>2, <2>1
<1>7. QED
  BY <1>4, <1>6 DEF ended, n

LEMMA EndedIsTheSame ==
  ASSUME NEW raw \in Seq(Piece), raw # <<>>, HasNoLabels(raw)
  PROVE  Bare(EndLine(raw)) = Completed(raw)
<1> DEFINE ended == EndLine(raw)
           n == Len(raw)
<1>1. /\ ended \in Seq(Piece) /\ Len(ended) = n
      /\ \A i \in 1 .. n :
             /\ ended[i].label = raw[i].label
             /\ [ended[i] EXCEPT !.nl = TRUE] = [raw[i] EXCEPT !.nl = TRUE]
  BY EndLineKeeps
<1> HIDE DEF ended
<1>2. HasNoLabels(ended)
  BY <1>1 DEF HasNoLabels
<1>3. Bare(ended) = Completed(ended)
  BY <1>1, <1>2, BareWithoutLabels
<1>4. Completed(ended) = Completed(raw)
  BY <1>1 DEF Completed
<1>5. QED
  BY <1>3, <1>4 DEF ended

LEMMA LabelOfLine ==
  ASSUME NEW name \in Seq(STRING)
  PROVE  LabelLine(name).label = name
<1> DEFINE plain == LineRecord("text")
           none == <<>>
<1>1. plain = [kind |-> "text", bom |-> FALSE, nl |-> TRUE, id |-> "", label |-> none]
  BY DEF LineRecord
<1>2. LabelLine(name) = [plain EXCEPT !.label = name]
  BY DEF LabelLine
<1> HIDE DEF plain, none
<1>3. QED
  BY <1>1, <1>2

LEMMA LabelledIsTheSame ==
  ASSUME NEW raw \in Seq(Piece), raw # <<>>, HasNoLabels(raw), StartsWithFrom(raw[1]), raw[1].nl,
         NEW name \in Seq(STRING), name # <<>>
  PROVE  LET made == EndLine(InjectSourceHeader(raw, name))
         IN  Bare(made) = Completed(raw) /\ Len(made) > 1 /\ IsLabelled(made, name)
<1> DEFINE n == Len(raw)
           new == InjectSourceHeader(raw, name)
           made == EndLine(new)
           list == [i \in 1 .. n |-> IF i = 1 THEN 1 ELSE i + 1]
<1>1. n \in Nat /\ 1 \in 1 .. n
  OBVIOUS
<1>2. /\ new \in Seq(Piece) /\ Len(new) = n + 1 /\ new # <<>>
      /\ new[1] = raw[1] /\ new[2] = LabelLine(name)
      /\ \A i \in 3 .. n + 1 : new[i] = raw[i - 1]
  BY InjectedBelow
<1> HIDE DEF new
<1>3. /\ made \in Seq(Piece) /\ Len(made) = Len(new)
      /\ \A i \in 1 .. Len(new) :
             /\ made[i].label = new[i].label
             /\ [made[i] EXCEPT !.nl = TRUE] = [new[i] EXCEPT !.nl = TRUE]
  BY <1>2, EndLineKeeps
<1> HIDE DEF n, made
<1>4. made \in Seq(Piece) /\ \A i \in 1 .. n + 1 : made[i].label = new[i].label
  BY <1>2, <1>3
<1>5. Len(made) = n + 1 /\ DOMAIN made = 1 .. n + 1
  BY <1>2, <1>3
<1>6. \A i \in 1 .. n : raw[i].label = <<>>
  BY DEF HasNoLabels, n
<1>7. made[1].label = <<>> /\ made[2].label = name
  <2>1. 1 \in 1 .. n + 1 /\ 2 \in 1 .. n + 1
    BY <1>1
  <2>2. LabelLine(name).label = name
    BY LabelOfLine
  <2>3. QED
    BY <1>1, <1>2, <1>6, <1>4, <2>1, <2>2
<1>8. ASSUME NEW i \in 3 .. n + 1
      PROVE  made[i].label = <<>>
  <2>1. i \in 1 .. n + 1 /\ i - 1 \in 1 .. n
    BY <1>1
  <2>2. made[i].label = new[i].label /\ new[i] = raw[i - 1] /\ raw[i - 1].label = <<>>
    BY <1>2, <1>6, <1>4, <2>1
  <2>3. QED
    BY <2>2
<1>9. \A i \in 1 .. n + 1 : i = 1 \/ i = 2 \/ i \in 3 .. n + 1
  BY <1>1
<1>10. IsLabelled(made, name) /\ Len(made) > 1
  <2>1. \A i \in 1 .. n + 1 : made[i].label # <<>> <=> (i = 2 /\ made[i].label = name)
    BY <1>7, <1>8, <1>9
  <2>2. QED
    BY <1>1, <1>5, <2>1 DEF IsLabelled
<1>11. list \in [1 .. n -> 1 .. Len(made)]
  BY <1>1, <1>5
<1>12. \A i \in 1 .. n : list[i] = IF i = 1 THEN 1 ELSE i + 1
  OBVIOUS
<1> HIDE DEF list
<1>13. \A i, j \in 1 .. n : i < j => list[i] < list[j]
  BY <1>1, <1>12
<1>14. ASSUME NEW i \in 1 .. Len(made)
       PROVE  made[i].label = <<>> <=> \E k \in 1 .. n : list[k] = i
  <2>1. CASE i = 1
    BY <1>1, <1>7, <1>12, <2>1
  <2>2. CASE i = 2
    <3>1. \A k \in 1 .. n : list[k] # 2
      BY <1>1, <1>12
    <3>2. QED
      BY <1>7, <2>2, <3>1
  <2>3. CASE i \in 3 .. n + 1
    <3>1. i - 1 \in 1 .. n /\ i - 1 # 1 /\ (i - 1) + 1 = i
      BY <1>1, <2>3
    <3>2. list[i - 1] = i
      BY <1>12, <3>1
    <3>3. QED
      BY <1>8, <2>3, <3>1, <3>2
  <2>4. QED
    BY <1>5, <1>9, <2>1, <2>2, <2>3
<1>15. Bare(made) = [i \in 1 .. n |-> [made[list[i]] EXCEPT !.nl = TRUE]]
  BY ZenonT(30), <1>1, <1>4, <1>11, <1>13, <1>14, BareIs
<1>16. ASSUME NEW i \in 1 .. n
       PROVE  [made[list[i]] EXCEPT !.nl = TRUE] = [raw[i] EXCEPT !.nl = TRUE]
  <2>1. CASE i = 1
    <3>1. 1 \in 1 .. Len(new)
      BY <1>1, <1>2
    <3>2. list[i] = 1
      BY <1>12, <2>1
    <3>3. QED
      BY <1>2, <1>3, <2>1, <3>1, <3>2
  <2>2. CASE i # 1
    <3>1. i + 1 \in 3 .. n + 1 /\ i + 1 \in 1 .. Len(new) /\ (i + 1) - 1 = i
      BY <1>1, <1>2, <2>2
    <3>2. list[i] = i + 1 /\ new[i + 1] = raw[i]
      BY <1>2, <1>12, <2>2, <3>1
    <3>3. QED
      BY <1>3, <3>1, <3>2
  <2>3. QED
    BY <2>1, <2>2
<1>17. Bare(made) = [i \in 1 .. n |-> [raw[i] EXCEPT !.nl = TRUE]]
  BY <1>15, <1>16
<1>18. QED
  BY <1>10, <1>17 DEF Completed, made, new, n

LEMMA MessageHasNoLabels ==
  ASSUME NEW t \in Tasks, NEW files, Readable(files), NEW k \in DOMAIN t.inputs,
         NEW m \in DOMAIN TheseMessages(t, files, k)
  PROVE  HasNoLabels(TheseMessages(t, files, k)[m])
<1> DEFINE content == files[t.inputs[k]]
           raw == TheseMessages(t, files, k)[m]
<1>1. IsMailbox(content) /\ HasNoLabels(content)
  BY TheseMessagesAre
<1>2. PICK i \in Starts(content), j \in 1 .. Len(content) :
          /\ i <= j /\ raw = SubSeq(content, i, j)
          /\ \A n \in i + 1 .. j : n \notin Starts(content)
  BY <1>1, MessagesAre DEF TheseMessages
<1>3. Starts(content) \subseteq 1 .. Len(content)
  BY <1>1, MessagesAre
<1> HIDE DEF content, raw
<1>4. content \in Seq(Piece) /\ Len(content) \in Nat
  BY <1>1 DEF IsMailbox
<1>5. i \in Nat /\ j \in Nat /\ \A n \in i .. j : content[n] \in Piece
  BY <1>2, <1>3, <1>4
<1>6. /\ Len(raw) = j - i + 1
      /\ \A n \in 1 .. j - i + 1 : raw[n] = content[i + n - 1]
  BY <1>2, <1>5, SubSeqProperties
<1>7. \A n \in 1 .. j - i + 1 : i + n - 1 \in 1 .. Len(content)
  BY <1>2, <1>3, <1>4, <1>5
<1>8. QED
  BY <1>1, <1>6, <1>7 DEF HasNoLabels, raw

(* What is written of a message is, for a reader, that message. *)
LEMMA WrittenMatches ==
  ASSUME NEW t \in Tasks, NEW files, Readable(files), Alike(t, files), HasEnvelopes(t, files),
         NEW k \in DOMAIN t.inputs, NEW m \in DOMAIN TheseMessages(t, files, k),
         NEW source, source.message = TheseMessages(t, files, k)[m],
         source.name = SourceLabels(t)[k]
  PROVE  /\ t.op = "merge" => Matches(t, MergedFrom(t, k, TheseMessages(t, files, k)[m]), source)
         /\ t.op = "export" => Matches(t, MboxRecord(TheseMessages(t, files, k)[m]), source)
<1> DEFINE raw == TheseMessages(t, files, k)[m]
           name == SourceLabels(t)[k]
<1>1. IsOneMessage(raw) /\ HasNoLabels(raw)
  BY MessagesAreOneEach, MessageHasNoLabels
<1>2. name \in Seq(STRING) /\ name # <<>>
  BY NamesAreLabels
<1>3. (t.label => raw[1].nl) /\ (t.op = "export" => ~raw[1].bom)
  <2>1. PICK other \in Range(Sources(t, files)) : other.message = raw
    BY MessageIsASource
  <2> HIDE DEF raw
  <2>2. QED
    BY <2>1 DEF HasEnvelopes
<1>4. source.message = raw /\ source.name = name
  OBVIOUS
<1> HIDE DEF raw, name
<1>5. raw \in Seq(Piece) /\ raw # <<>> /\ StartsWithFrom(raw[1])
  BY <1>1 DEF IsOneMessage, IsMark, StartsWithFrom
<1>6. Bare(raw) = Completed(raw) /\ Bare(EndLine(raw)) = Completed(raw)
  BY <1>1, <1>5, BareWithoutLabels, EndedIsTheSame
<1>7. t.label =>
          LET made == EndLine(InjectSourceHeader(raw, name))
          IN  Bare(made) = Completed(raw) /\ Len(made) > 1 /\ IsLabelled(made, name)
  BY <1>1, <1>2, <1>3, <1>5, LabelledIsTheSame
<1>8. t.op = "merge" => Matches(t, MergedFrom(t, k, raw), source)
  <2>1. CASE t.label
    <3>1. MergedFrom(t, k, raw) = EndLine(InjectSourceHeader(raw, name))
      BY <2>1 DEF MergedFrom, name
    <3>2. QED
      BY <1>4, <1>6, <1>7, <2>1, <3>1 DEF Matches
  <2>2. CASE ~t.label
    <3>1. MergedFrom(t, k, raw) = EndLine(raw)
      BY <2>2 DEF MergedFrom
    <3>2. QED
      BY <1>4, <1>6, <2>2, <3>1 DEF Matches
  <2>3. QED
    BY <2>1, <2>2
<1>9. t.op = "export" => Matches(t, MboxRecord(raw), source)
  <2>1. SUFFICES ASSUME t.op = "export"
                 PROVE  Matches(t, MboxRecord(raw), source)
    OBVIOUS
  <2>2. ~t.label
    BY <2>1, TaskFacts
  <2>3. MboxRecord(raw) = EndLine(raw)
    BY <1>3, <1>5, <2>1 DEF MboxRecord, BeginsWithFrom
  <2>4. QED
    BY <1>4, <1>6, <2>2, <2>3 DEF Matches
<1>10. QED
  BY <1>8, <1>9 DEF raw

-----------------------------------------------------------------------------
(* What is found so far.                                                   *)

(* The sources that a reader is to find, by their numbers. *)
WantedSources(t, files) ==
    {k \in DOMAIN Sources(t, files) : IsWanted(t, Sources(t, files), k)}

Wants(t, files) == Ascending(WantedSources(t, files))

LEMMA WantsAre ==
  ASSUME NEW t \in Tasks, NEW files, Readable(files)
  PROVE  LET last == Len(Sources(t, files))
             list == Wants(t, files)
             count == Len(Wants(t, files))
         IN  /\ last \in Nat /\ DOMAIN Sources(t, files) = 1 .. last
             /\ count \in Nat /\ list \in [1 .. count -> 1 .. last]
             /\ \A i \in 1 .. count : IsWanted(t, Sources(t, files), list[i])
             /\ \A k \in 1 .. last : IsWanted(t, Sources(t, files), k) => \E i \in 1 .. count : list[i] = k
             /\ \A i, j \in 1 .. count : i < j => list[i] < list[j]
             /\ Wanted(t, files) = [i \in 1 .. count |-> Sources(t, files)[list[i]]]
<1> DEFINE all == Sources(t, files)
           last == Len(all)
           set == WantedSources(t, files)
           list == Wants(t, files)
           n == Cardinality(set)
<1>1. last \in Nat /\ DOMAIN all = 1 .. last
  <2>1. PICK S : SourcesOf(t, files) \in Seq(Seq(S))
    BY SourcesType
  <2>2. all \in Seq(S)
    BY <2>1, FlattenType, SourcesAre
  <2> HIDE DEF all
  <2>3. QED
    BY <2>2
<1> HIDE DEF last
<1>2. set \subseteq 1 .. last /\ \A k : k \in set <=> k \in 1 .. last /\ IsWanted(t, all, k)
  BY <1>1 DEF WantedSources
<1>3. list = Ascending(set) /\ DOMAIN all \cap set = set
  BY <1>1, <1>2 DEF Wants
<1>4. Wanted(t, files) = [i \in DOMAIN list |-> all[list[i]]]
  <2>1. Picked(all, set) = list
    BY <1>3 DEF Picked
  <2>2. set = {k \in DOMAIN all : IsWanted(t, all, k)}
    BY DEF WantedSources
  <2> HIDE DEF all, set, list
  <2>3. Picked(Sources(t, files), {k \in DOMAIN Sources(t, files) : IsWanted(t, Sources(t, files), k)}) = list
    BY <2>1, <2>2 DEF all
  <2>4. QED
    BY <2>3 DEF Wanted, all
<1> HIDE DEF all, set, list
<1>5. IsFiniteSet(set) /\ set \in SUBSET Nat
  <2>1. IsFiniteSet(1 .. last)
    BY <1>1, FS_Interval
  <2>2. IsFiniteSet(set)
    BY <1>2, <2>1, FS_Subset
  <2>3. QED
    BY <1>1, <1>2, <2>2
<1>6. /\ n \in Nat /\ list \in [1 .. n -> set]
      /\ \A k \in set : \E i \in 1 .. n : list[i] = k
      /\ \A i, j \in 1 .. n : i < j => list[i] < list[j]
  BY <1>3, <1>5, AscendingListsTheSet
<1> HIDE DEF n
<1>7. Len(list) = n /\ DOMAIN list = 1 .. n
  BY <1>6
<1>8. list \in [1 .. n -> 1 .. last] /\ \A i \in 1 .. n : IsWanted(t, all, list[i])
  BY <1>2, <1>6
<1>9. \A k \in 1 .. last : IsWanted(t, all, k) => \E i \in 1 .. n : list[i] = k
  BY <1>2, <1>6
<1>10. Wanted(t, files) = [i \in 1 .. n |-> all[list[i]]]
  BY <1>4, <1>7
<1>11. QED
  BY <1>1, <1>6, <1>7, <1>8, <1>9, <1>10 DEF all, last, list

(* What a reader finds are the first of the wanted messages. *)
IsFound(t, files, content) ==
    LET found == MessagesIn(content)
    IN  /\ Len(found) <= Len(Wants(t, files))
        /\ \A i \in 1 .. Len(found) : Matches(t, found[i], Sources(t, files)[Wants(t, files)[i]])

(* A file of the kind, with whole lines if something is to follow. *)
IsKept(t, files, content, isWhole) ==
    /\ IsMailbox(content) /\ IsOfTheKind(t, files, content)
    /\ isWhole => \A i \in 1 .. Len(content) : content[i].nl

LEMMA NothingIsFound ==
  ASSUME NEW t \in Tasks, NEW files, Readable(files)
  PROVE  /\ Len(MessagesIn(<<>>)) = 0
         /\ IsFound(t, files, <<>>)
         /\ \A isWhole : IsKept(t, files, <<>>, isWhole)
<1> DEFINE none == <<>>
<1>1. IsMailbox(none) /\ Len(none) = 0
  BY EmptyIsAMailbox
<1>2. none = <<>>
  OBVIOUS
<1> HIDE DEF none
<1>3. Len(MessagesIn(none)) = 0
  <2>1. Starts(none) \subseteq 1 .. Len(none) /\ Len(MessagesIn(none)) = Cardinality(Starts(none))
    BY <1>1, MessagesAre
  <2>2. Starts(none) = {}
    BY <1>1, <2>1
  <2>3. QED
    BY <2>1, <2>2, FS_EmptySet
<1>4. Len(Wants(t, files)) \in Nat
  BY WantsAre
<1>5. IsFound(t, files, none)
  BY <1>3, <1>4 DEF IsFound
<1>6. \A isWhole : IsKept(t, files, none, isWhole)
  BY <1>1, <1>2 DEF IsKept, IsOfTheKind
<1>7. QED
  BY <1>2, <1>3, <1>5, <1>6

(* More messages, of which each is the next of the wanted ones.            *)
LEMMA MoreIsFound ==
  ASSUME NEW t \in Tasks, NEW files, Readable(files), Alike(t, files),
         NEW old, NEW new, NEW isWhole,
         IsFound(t, files, old), IsKept(t, files, old, TRUE), IsKept(t, files, new, isWhole),
         Len(MessagesIn(old)) + Len(MessagesIn(new)) <= Len(Wants(t, files)),
         \A i \in 1 .. Len(MessagesIn(new)) :
             Matches(t, MessagesIn(new)[i],
                     Sources(t, files)[Wants(t, files)[Len(MessagesIn(old)) + i]])
  PROVE  /\ Len(MessagesIn(old \o new)) = Len(MessagesIn(old)) + Len(MessagesIn(new))
         /\ IsFound(t, files, old \o new) /\ IsKept(t, files, old \o new, isWhole)
<1> DEFINE a == Len(MessagesIn(old))
           b == Len(MessagesIn(new))
           both == old \o new
           list == Wants(t, files)
           all == Sources(t, files)
<1>1. /\ IsMailbox(old) /\ IsOfTheKind(t, files, old) /\ old \in Seq(Piece)
      /\ \A i \in 1 .. Len(old) : old[i].nl
  BY DEF IsKept, IsMailbox
<1>2. IsMailbox(new) /\ IsOfTheKind(t, files, new) /\ new \in Seq(Piece)
  BY DEF IsKept, IsMailbox
<1>3. /\ IsMailbox(both) /\ IsOfTheKind(t, files, both) /\ both \in Seq(Piece)
      /\ (\A i \in 1 .. Len(new) : new[i].nl) => \A i \in 1 .. Len(both) : both[i].nl
  BY <1>1, <1>2, LinesStayWhole, KindStays
<1>4. Starts(old) = Marks(old) /\ Starts(new) = Marks(new) /\ Starts(both) = Marks(both)
  <2> HIDE DEF both
  <2>1. QED
    BY <1>1, <1>2, <1>3, StartsAreMarks
<1>5. new # <<>> => IsMark(new[1])
  BY <1>2, KindHasMark
<1>6. /\ a \in Nat /\ b \in Nat /\ Len(MessagesIn(both)) = a + b
      /\ \A i \in 1 .. a : MessagesIn(both)[i] = MessagesIn(old)[i]
      /\ \A i \in 1 .. b : MessagesIn(both)[a + i] = MessagesIn(new)[i]
  BY <1>1, <1>2, <1>3, <1>4, <1>5, MessagesJoin
<1>7. /\ \A i \in 1 .. a : Matches(t, MessagesIn(old)[i], all[list[i]])
      /\ \A i \in 1 .. b : Matches(t, MessagesIn(new)[i], all[list[a + i]])
      /\ a + b <= Len(list)
  BY DEF IsFound
<1>8. IsKept(t, files, both, isWhole)
  BY <1>3 DEF IsKept
<1> HIDE DEF a, b, both, list, all
<1>9. ASSUME NEW i \in 1 .. a + b
      PROVE  Matches(t, MessagesIn(both)[i], all[list[i]])
  <2>1. CASE i \in 1 .. a
    BY <1>6, <1>7, <2>1
  <2>2. CASE i \notin 1 .. a
    <3>1. i - a \in 1 .. b /\ a + (i - a) = i
      BY <1>6, <2>2
    <3>2. MessagesIn(both)[a + (i - a)] = MessagesIn(new)[i - a]
      BY <1>6, <3>1
    <3>3. Matches(t, MessagesIn(new)[i - a], all[list[a + (i - a)]])
      BY <1>7, <3>1
    <3>4. QED
      BY <3>1, <3>2, <3>3
  <2>3. QED
    BY <2>1, <2>2
<1>10. IsFound(t, files, both)
  BY <1>6, <1>7, <1>9 DEF IsFound, list, all
<1>11. QED
  BY <1>6, <1>8, <1>10 DEF a, b, both

(* A record is one message more. *)
LEMMA RecordIsFound ==
  ASSUME NEW t \in Tasks, NEW files, Readable(files), Alike(t, files),
         NEW old, NEW record, IsFound(t, files, old), IsKept(t, files, old, TRUE),
         IsRecord(t, files, record),
         Len(MessagesIn(old)) + 1 <= Len(Wants(t, files)),
         Matches(t, record, Sources(t, files)[Wants(t, files)[Len(MessagesIn(old)) + 1]])
  PROVE  /\ Len(MessagesIn(old \o record)) = Len(MessagesIn(old)) + 1
         /\ IsFound(t, files, old \o record) /\ IsKept(t, files, old \o record, TRUE)
<1>1. Len(MessagesIn(record)) = 1 /\ MessagesIn(record)[1] = record
  BY RecordIsAMessage
<1>2. IsKept(t, files, record, TRUE)
  BY DEF IsRecord, IsKept, IsMailbox
<1> DEFINE n == Len(MessagesIn(old))
           next == Sources(t, files)[Wants(t, files)[n + 1]]
<1>3. n + Len(MessagesIn(record)) <= Len(Wants(t, files))
  BY <1>1
<1>4. \A i \in 1 .. Len(MessagesIn(record)) :
          Matches(t, MessagesIn(record)[i], Sources(t, files)[Wants(t, files)[n + i]])
  <2>1. \A i \in 1 .. 1 : i = 1
    OBVIOUS
  <2>2. QED
    BY <1>1, <2>1
<1>5. /\ Len(MessagesIn(old \o record)) = n + Len(MessagesIn(record))
      /\ IsFound(t, files, old \o record) /\ IsKept(t, files, old \o record, TRUE)
  BY <1>2, <1>3, <1>4, MoreIsFound
<1>6. QED
  BY <1>1, <1>5

(* How many sources the first inputs have. *)
SourcesUpTo(t, files, k) == Len(FlattenSeq(SubSeq(SourcesOf(t, files), 1, k)))

(* Where the messages of an input are among the sources. *)
LEMMA SourceAt ==
  ASSUME NEW t \in Tasks, NEW files, Readable(files), NEW k \in 0 .. Len(t.inputs), k < Len(t.inputs)
  PROVE  LET before == SourcesUpTo(t, files, k)
             messages == TheseMessages(t, files, k + 1)
             all == Sources(t, files)
         IN  /\ before \in Nat /\ Len(messages) \in Nat /\ k + 1 \in DOMAIN t.inputs
             /\ SourcesUpTo(t, files, k + 1) = before + Len(messages)
             /\ before + Len(messages) <= Len(all)
             /\ \A i \in 1 .. Len(messages) :
                    /\ all[before + i].message = messages[i]
                    /\ all[before + i].name = SourceLabels(t)[k + 1]
                    /\ all[before + i].number = i
<1> DEFINE before == SourcesUpTo(t, files, k)
           messages == TheseMessages(t, files, k + 1)
           all == Sources(t, files)
           parts == SourcesOf(t, files)
           part == [n \in DOMAIN messages |->
                       [message |-> messages[n], name |-> SourceLabels(t)[k + 1], number |-> n]]
<1>1. /\ Len(t.inputs) \in Nat /\ DOMAIN t.inputs = 1 .. Len(t.inputs) /\ k + 1 \in DOMAIN t.inputs
  <2>1. Len(t.inputs) \in Nat /\ DOMAIN t.inputs = 1 .. Len(t.inputs)
    BY TaskFacts
  <2>2. QED
    BY <2>1
<1>2. Len(messages) \in Nat /\ DOMAIN messages = 1 .. Len(messages)
  BY <1>1, TheseMessagesAre
<1>3. SourcesUpTo(t, files, k + 1) = before + Len(messages)
  BY CountSources DEF SourcesUpTo
<1>4. PICK S : parts \in Seq(Seq(S))
  BY SourcesType
<1>5. parts[k + 1] = part /\ DOMAIN parts = DOMAIN t.inputs
  BY <1>1 DEF SourcesOf
<1>6. all = FlattenSeq(parts)
  BY SourcesAre
<1>7. before = Len(FlattenSeq(SubSeq(parts, 1, k)))
  BY DEF SourcesUpTo
<1> HIDE DEF messages, parts, all, before
<1>8. Len(parts) = Len(t.inputs) /\ k \in 0 .. Len(parts) /\ k < Len(parts)
  BY <1>1, <1>4, <1>5
<1>9. /\ before \in Nat /\ before + Len(parts[k + 1]) <= Len(FlattenSeq(parts))
      /\ \A i \in 1 .. Len(parts[k + 1]) : FlattenSeq(parts)[before + i] = parts[k + 1][i]
  BY ZenonT(30), <1>4, <1>7, <1>8, FlattenAt
<1>10. Len(part) = Len(messages)
  BY <1>2
<1>11. \A i \in 1 .. Len(messages) :
           part[i].message = messages[i] /\ part[i].name = SourceLabels(t)[k + 1] /\ part[i].number = i
  BY <1>2
<1> HIDE DEF part
<1>12. before + Len(messages) <= Len(all) /\ \A i \in 1 .. Len(messages) : all[before + i] = part[i]
  BY <1>5, <1>6, <1>9, <1>10
<1>13. \A i \in 1 .. Len(messages) :
           /\ all[before + i].message = messages[i]
           /\ all[before + i].name = SourceLabels(t)[k + 1]
           /\ all[before + i].number = i
  BY <1>11, <1>12
<1>14. QED
  BY <1>1, <1>2, <1>3, <1>9, <1>12, <1>13 DEF before, messages, all

(* So far a merge has passed, of all sources, the first "passed": a reader *)
(* finds p messages, the wanted ones among them; those after them are in   *)
(* the queue; and it knows their ids.                                      *)
IsPassed(t, files, p, k, rest, seen, passed) ==
    LET all == Sources(t, files)
    IN  /\ passed \in 0 .. Len(all)
        /\ passed + Len(rest) = SourcesUpTo(t, files, k)
        /\ \A i \in 1 .. Len(Wants(t, files)) : Wants(t, files)[i] <= passed <=> i <= p
        /\ \A q \in 1 .. Len(rest) :
               /\ passed + q <= Len(all)
               /\ all[passed + q].message = rest[q]
               /\ all[passed + q].name = SourceLabels(t)[k]
        /\ t.dedup => seen = {MessageId(all[j].message) : j \in 1 .. passed}

(* The first message of the queue is wanted unless it is a duplicate.      *)
PassesNext(t, files, p, k, rest, seen, passed) ==
    LET id == MessageId(Head(rest))
        isDuplicate == t.dedup /\ id # "" /\ id \in seen
        more == IF t.dedup THEN seen \cup {id} ELSE seen
        next == Sources(t, files)[passed + 1]
    IN  /\ next.message = Head(rest) /\ next.name = SourceLabels(t)[k]
        /\ isDuplicate => IsPassed(t, files, p, k, Tail(rest), seen, passed + 1)
        /\ ~isDuplicate =>
               /\ p + 1 <= Len(Wants(t, files)) /\ Wants(t, files)[p + 1] = passed + 1
               /\ IsPassed(t, files, p + 1, k, Tail(rest), more, passed + 1)

LEMMA NextIsPassed ==
  ASSUME NEW t \in Tasks, NEW files, Readable(files), t.op = "merge",
         NEW p \in 0 .. Len(Wants(t, files)), NEW k, NEW rest \in Seq(Seq(Piece)), rest # <<>>,
         NEW seen, NEW passed, IsPassed(t, files, p, k, rest, seen, passed)
  PROVE  PassesNext(t, files, p, k, rest, seen, passed)
<1> DEFINE all == Sources(t, files)
           last == Len(all)
           list == Wants(t, files)
           count == Len(list)
           id == MessageId(Head(rest))
           isDuplicate == t.dedup /\ id # "" /\ id \in seen
           l == Len(rest)
           S == Seq(Piece)
           ids(n) == {MessageId(all[j].message) : j \in 1 .. n}
<1>1. /\ last \in Nat /\ count \in Nat /\ list \in [1 .. count -> 1 .. last]
      /\ \A i \in 1 .. count : IsWanted(t, all, list[i])
      /\ \A m \in 1 .. last : IsWanted(t, all, m) => \E i \in 1 .. count : list[i] = m
      /\ \A i, j \in 1 .. count : i < j => list[i] < list[j]
  BY WantsAre
<1>2. /\ passed \in 0 .. last /\ passed + l = SourcesUpTo(t, files, k)
      /\ \A i \in 1 .. count : list[i] <= passed <=> i <= p
      /\ \A q \in 1 .. l :
             /\ passed + q <= last
             /\ all[passed + q].message = rest[q]
             /\ all[passed + q].name = SourceLabels(t)[k]
      /\ t.dedup => seen = ids(passed)
  BY DEF IsPassed
<1>3. l \in Nat /\ 1 \in 1 .. l
  OBVIOUS
<1>4. /\ Tail(rest) \in Seq(Seq(Piece)) /\ Len(Tail(rest)) = l - 1
      /\ \A q \in 1 .. l - 1 : Tail(rest)[q] = rest[q + 1]
      /\ Head(rest) = rest[1]
  <2>1. rest \in Seq(S) /\ rest # <<>>
    OBVIOUS
  <2> HIDE DEF S
  <2>2. /\ Tail(rest) \in Seq(S) /\ Len(Tail(rest)) = Len(rest) - 1
        /\ \A q \in 1 .. Len(Tail(rest)) : Tail(rest)[q] = rest[q + 1]
        /\ Head(rest) = rest[1]
    BY <2>1, HeadTailProperties
  <2>3. QED
    BY <2>2 DEF S
<1> DEFINE next == passed + 1
<1>5. /\ next \in 1 .. last /\ next \in 0 .. last /\ next \in Nat /\ passed \in Nat /\ p \in Nat
      /\ next - 1 = passed
  <2>1. p \in 0 .. count /\ count \in Nat /\ last \in Nat /\ passed \in 0 .. last /\ passed + 1 <= last
    BY <1>1, <1>2, <1>3
  <2> HIDE DEF count, last
  <2>2. QED
    BY <2>1
<1>6. all[next].message = Head(rest) /\ all[next].name = SourceLabels(t)[k]
  BY <1>2, <1>3, <1>4
<1>7. MessageId(all[next].message) = id
  BY <1>6
<1> HIDE DEF all, last, list, count, id, l
<1>8. \A m \in 1 .. next : m \in 1 .. passed \/ m = next
  BY <1>5
<1>9. \A m \in 1 .. passed : m \in 1 .. next
  BY <1>5
<1>10. ids(next) = ids(passed) \cup {id}
  BY <1>5, <1>7, <1>8, <1>9
<1>11. IsWanted(t, all, next) <=> ~isDuplicate
  <2>1. IsWanted(t, all, next) <=>
            (t.dedup /\ id # "" => \A j \in 1 .. passed : MessageId(all[j].message) # id)
    BY <1>5, <1>7 DEF IsWanted
  <2>2. id \in ids(passed) <=> \E j \in 1 .. passed : MessageId(all[j].message) = id
    OBVIOUS
  <2>3. t.dedup => (id \in seen <=> id \in ids(passed))
    BY <1>2
  <2> HIDE DEF ids
  <2>4. QED
    BY <2>1, <2>2, <2>3
<1>12. next + Len(Tail(rest)) = SourcesUpTo(t, files, k)
  <2>1. passed + l = SourcesUpTo(t, files, k)
    BY <1>2
  <2>2. next + Len(Tail(rest)) = passed + l
    <3> DEFINE less == Len(Tail(rest))
    <3>1. less = l - 1
      BY <1>4
    <3> HIDE DEF less
    <3>2. l \in Nat
      BY <1>3
    <3>3. next + less = passed + l
      BY <1>5, <3>1, <3>2
    <3>4. QED
      BY <3>3 DEF less
  <2>3. QED
    BY <2>1, <2>2
<1>13. ASSUME NEW q \in 1 .. Len(Tail(rest))
       PROVE  /\ next + q <= last
              /\ all[next + q].message = Tail(rest)[q]
              /\ all[next + q].name = SourceLabels(t)[k]
  <2>1. q + 1 \in 1 .. l /\ passed + (q + 1) = next + q /\ q \in 1 .. l - 1
    BY <1>3, <1>4, <1>5
  <2>2. QED
    BY <1>2, <1>4, <2>1
<1>14. ASSUME isDuplicate
       PROVE  IsPassed(t, files, p, k, Tail(rest), seen, next)
  <2>1. \A i \in 1 .. count : list[i] # next
    BY <1>1, <1>11, <1>14
  <2>2. \A i \in 1 .. count : list[i] <= next <=> i <= p
    BY <1>1, <1>2, <1>5, <2>1
  <2>3. t.dedup => seen = ids(next)
    BY <1>2, <1>10, <1>14
  <2>4. QED
    BY <1>5, <1>12, <1>13, <2>2, <2>3 DEF IsPassed, all, last, list, count
<1>15. ASSUME ~isDuplicate
       PROVE  /\ p + 1 <= count /\ list[p + 1] = next
              /\ IsPassed(t, files, p + 1, k, Tail(rest),
                          IF t.dedup THEN seen \cup {id} ELSE seen, next)
  <2>1. PICK j \in 1 .. count : list[j] = next
    BY <1>1, <1>5, <1>11, <1>15
  <2>2. ~(j <= p)
    BY <1>2, <1>5, <2>1
  <2>3. p + 1 \in 1 .. count /\ p + 1 <= j /\ j \in Nat
    BY <1>1, <1>5, <2>2
  <2>4. ~(p + 1 < j)
    <3>1. SUFFICES ASSUME p + 1 < j
                   PROVE  FALSE
      OBVIOUS
    <3>2. list[p + 1] < next /\ list[p + 1] \in Nat
      BY <1>1, <2>1, <2>3, <3>1
    <3>3. list[p + 1] <= passed
      BY <1>5, <3>2
    <3>4. p + 1 <= p
      BY <1>2, <2>3, <3>3
    <3>5. QED
      BY <1>5, <3>4
  <2>5. j = p + 1
    BY <1>5, <2>3, <2>4
  <2>6. ASSUME NEW i \in 1 .. count
        PROVE  list[i] <= next <=> i <= p + 1
    <3>1. list[i] \in Nat /\ i \in Nat
      BY <1>1
    <3>2. CASE i <= p
      <4>1. list[i] <= passed
        BY <1>2, <3>2
      <4>2. QED
        BY <1>5, <3>1, <3>2, <4>1
    <3>3. CASE i = p + 1
      BY <1>5, <2>1, <2>5, <3>3
    <3>4. CASE p + 1 < i
      <4>1. next < list[i]
        BY <1>1, <2>1, <2>3, <2>5, <3>4
      <4>2. QED
        BY <1>5, <3>1, <3>4, <4>1
    <3>5. QED
      BY <1>5, <3>1, <3>2, <3>3, <3>4
  <2> DEFINE more == IF t.dedup THEN seen \cup {id} ELSE seen
  <2>7. t.dedup => more = ids(next)
    BY <1>2, <1>10
  <2> HIDE DEF more
  <2>8. IsPassed(t, files, p + 1, k, Tail(rest), more, next)
    BY <1>5, <1>12, <1>13, <2>6, <2>7 DEF IsPassed, all, last, list, count
  <2>9. QED
    BY <2>1, <2>3, <2>5, <2>8 DEF more
<1>16. QED
  BY <1>6, <1>14, <1>15 DEF PassesNext, all, list, count, id

LEMMA NoneIsPassed ==
  ASSUME NEW t \in Tasks, NEW files, Readable(files)
  PROVE  IsPassed(t, files, 0, 0, <<>>, {}, 0)
<1> DEFINE list == Wants(t, files)
           last == Len(Sources(t, files))
           none == <<>>
           ids == {MessageId(Sources(t, files)[j].message) : j \in 1 .. 0}
<1>1. last \in Nat /\ Len(list) \in Nat /\ list \in [1 .. Len(list) -> 1 .. last]
  BY WantsAre
<1>2. SourcesUpTo(t, files, 0) = 0
  <2>1. 0 \in 0 .. Len(t.inputs)
    BY TaskFacts
  <2>2. QED
    BY <2>1, CountSources DEF SourcesUpTo
<1>3. Len(none) = 0
  OBVIOUS
<1>4. ids = {}
  OBVIOUS
<1> HIDE DEF list, last, none, ids
<1>5. \A i \in 1 .. Len(list) : list[i] <= 0 <=> i <= 0
  BY <1>1
<1>6. 0 \in 0 .. last /\ 0 + Len(none) = SourcesUpTo(t, files, 0) /\ \A q \in 1 .. Len(none) : FALSE
  BY <1>1, <1>2, <1>3
<1>7. IsPassed(t, files, 0, 0, none, {}, 0)
  BY <1>4, <1>5, <1>6 DEF IsPassed, list, last, ids
<1>8. QED
  BY <1>7 DEF none

LEMMA OpenedIsPassed ==
  ASSUME NEW t \in Tasks, NEW files, Readable(files), NEW p, NEW k \in 0 .. Len(t.inputs),
         k < Len(t.inputs), NEW seen, NEW passed, IsPassed(t, files, p, k, <<>>, seen, passed)
  PROVE  IsPassed(t, files, p, k + 1, TheseMessages(t, files, k + 1), seen, passed)
<1> DEFINE all == Sources(t, files)
           messages == TheseMessages(t, files, k + 1)
           l == Len(messages)
           before == SourcesUpTo(t, files, k)
           none == <<>>
<1>1. /\ before \in Nat /\ l \in Nat
      /\ SourcesUpTo(t, files, k + 1) = before + l
      /\ before + l <= Len(all)
      /\ \A i \in 1 .. l :
             /\ all[before + i].message = messages[i]
             /\ all[before + i].name = SourceLabels(t)[k + 1]
             /\ all[before + i].number = i
  BY SourceAt
<1>2. Len(none) = 0
  OBVIOUS
<1>3. passed \in 0 .. Len(all) /\ passed + Len(none) = before
  BY DEF IsPassed
<1>4. Len(all) \in Nat
  BY WantsAre
<1> HIDE DEF none, before
<1>5. passed = before
  BY <1>1, <1>2, <1>3, <1>4
<1>6. /\ \A i \in 1 .. Len(Wants(t, files)) : Wants(t, files)[i] <= passed <=> i <= p
      /\ t.dedup => seen = {MessageId(all[j].message) : j \in 1 .. passed}
  BY DEF IsPassed
<1> HIDE DEF all, messages, l
<1>7. ASSUME NEW q \in 1 .. l
      PROVE  /\ passed + q <= Len(all)
             /\ all[passed + q].message = messages[q]
             /\ all[passed + q].name = SourceLabels(t)[k + 1]
  BY <1>1, <1>4, <1>5
<1>8. QED
  BY <1>1, <1>3, <1>5, <1>6, <1>7 DEF IsPassed, all, messages, l

(* A plain merge wants every message. *)
LEMMA PlainWantsAll ==
  ASSUME NEW t \in Tasks, NEW files, Readable(files), IsPlain(t)
  PROVE  /\ Len(Wants(t, files)) = Len(Sources(t, files))
         /\ \A i \in 1 .. Len(Sources(t, files)) : Wants(t, files)[i] = i
<1> DEFINE last == Len(Sources(t, files))
<1>1. last \in Nat /\ DOMAIN Sources(t, files) = 1 .. last
  BY WantsAre
<1>2. \A k : IsWanted(t, Sources(t, files), k)
  BY DEF IsWanted, IsPlain
<1> HIDE DEF last
<1>3. WantedSources(t, files) = 1 .. last
  BY <1>1, <1>2 DEF WantedSources
<1>4. Wants(t, files) = [i \in 1 .. last |-> i]
  BY <1>1, <1>3, AscendingAll DEF Wants
<1>5. QED
  BY <1>1, <1>4 DEF last

LEMMA CopiedIsPassed ==
  ASSUME NEW t \in Tasks, NEW files, Readable(files), IsPlain(t),
         NEW p \in 0 .. Len(Wants(t, files)), NEW k \in 0 .. Len(t.inputs), k < Len(t.inputs),
         NEW seen, NEW passed, IsPassed(t, files, p, k, <<>>, seen, passed)
  PROVE  LET messages == TheseMessages(t, files, k + 1)
             l == Len(messages)
         IN  /\ p + l <= Len(Wants(t, files))
             /\ \A i \in 1 .. l : Sources(t, files)[Wants(t, files)[p + i]].message = messages[i]
             /\ IsPassed(t, files, p + l, k + 1, <<>>, seen, passed + l)
<1> DEFINE all == Sources(t, files)
           last == Len(all)
           list == Wants(t, files)
           messages == TheseMessages(t, files, k + 1)
           l == Len(messages)
           before == SourcesUpTo(t, files, k)
           none == <<>>
<1>1. /\ before \in Nat /\ l \in Nat
      /\ SourcesUpTo(t, files, k + 1) = before + l
      /\ before + l <= Len(all)
      /\ \A i \in 1 .. l :
             /\ all[before + i].message = messages[i]
             /\ all[before + i].name = SourceLabels(t)[k + 1]
             /\ all[before + i].number = i
  BY SourceAt
<1>2. Len(none) = 0
  OBVIOUS
<1>3. /\ passed \in 0 .. last /\ passed + Len(none) = before
      /\ \A i \in 1 .. Len(list) : list[i] <= passed <=> i <= p
  BY DEF IsPassed
<1>4. last \in Nat
  BY WantsAre
<1>5. Len(list) = last /\ \A i \in 1 .. last : list[i] = i
  BY PlainWantsAll
<1>6. ~t.dedup
  BY DEF IsPlain
<1>7. p \in 0 .. last
  BY <1>5
<1> HIDE DEF all, last, list, messages, l, before, none
<1>8. passed = before /\ p \in Nat /\ passed \in Nat
  BY <1>1, <1>2, <1>3, <1>4, <1>7
<1>9. p = passed
  <2>1. \A i \in 1 .. last : i <= passed <=> i <= p
    BY <1>3, <1>5
  <2>2. p > 0 => p <= passed
    BY SMTT(20), <1>4, <1>7, <1>8, <2>1
  <2>3. passed > 0 => passed <= p
    BY SMTT(20), <1>3, <1>4, <1>8, <2>1
  <2>4. QED
    BY <1>8, <2>2, <2>3
<1>10. p + l <= last /\ p + l \in Nat /\ p + l = before + l /\ passed + l = p + l
  BY <1>1, <1>4, <1>8, <1>9 DEF last
<1>11. ASSUME NEW i \in 1 .. l
       PROVE  all[list[p + i]].message = messages[i]
  <2>1. p + i \in 1 .. last
    BY <1>1, <1>4, <1>8, <1>10
  <2>2. list[p + i] = before + i
    BY <1>5, <1>8, <1>9, <2>1
  <2>3. QED
    BY <1>1, <2>2
<1>12. \A i \in 1 .. Len(list) : list[i] <= passed + l <=> i <= p + l
  BY <1>5, <1>10
<1>13. /\ passed + l \in 0 .. last
       /\ (passed + l) + Len(none) = SourcesUpTo(t, files, k + 1)
       /\ \A q \in 1 .. Len(none) : FALSE
  <2>1. passed + l \in 0 .. last
    BY <1>4, <1>10
  <2>2. SourcesUpTo(t, files, k + 1) = passed + l
    BY <1>1, <1>10
  <2>3. passed + l \in Nat
    BY <1>10
  <2>4. QED
    BY <1>2, <2>1, <2>2, <2>3
<1>14. IsPassed(t, files, p + l, k + 1, none, seen, passed + l)
  BY <1>6, <1>12, <1>13 DEF IsPassed, all, last, list
<1>15. QED
  BY <1>5, <1>10, <1>11, <1>14 DEF all, last, list, messages, l, none

LEMMA AllIsPassed ==
  ASSUME NEW t \in Tasks, NEW files, Readable(files), NEW p \in 0 .. Len(Wants(t, files)),
         NEW seen, NEW passed, IsPassed(t, files, p, Len(t.inputs), <<>>, seen, passed)
  PROVE  p = Len(Wants(t, files))
<1> DEFINE last == Len(Sources(t, files))
           list == Wants(t, files)
           count == Len(list)
           none == <<>>
<1>1. last \in Nat /\ count \in Nat /\ list \in [1 .. count -> 1 .. last]
  BY WantsAre
<1>2. /\ passed \in 0 .. last /\ passed + Len(none) = SourcesUpTo(t, files, Len(t.inputs))
      /\ \A i \in 1 .. count : list[i] <= passed <=> i <= p
  BY DEF IsPassed
<1>3. SourcesUpTo(t, files, Len(t.inputs)) = last
  <2>1. Len(t.inputs) \in 0 .. Len(t.inputs)
    BY TaskFacts
  <2>2. QED
    BY <2>1, CountSources DEF SourcesUpTo
<1>4. Len(none) = 0
  OBVIOUS
<1>5. p \in 0 .. count
  OBVIOUS
<1> HIDE DEF last, list, count, none
<1>6. passed = last
  BY <1>1, <1>2, <1>3, <1>4
<1>7. count > 0 => count \in 1 .. count /\ list[count] <= last
  BY <1>1
<1>8. count > 0 => count <= p
  BY <1>2, <1>6, <1>7
<1>9. p = count
  BY <1>1, <1>5, <1>8
<1>10. QED
  BY <1>9 DEF count, list

(* An export has written the first p of the messages it is to write, once  *)
(* it has opened its mailbox; the others are in the queue.                 *)
IsTaken(t, files, p, k, rest) ==
    IF k = 0
    THEN p = 0
    ELSE /\ p + Len(rest) = Len(Wants(t, files))
         /\ \A q \in 1 .. Len(rest) :
                LET next == Sources(t, files)[Wants(t, files)[p + q]]
                IN  next.message = rest[q] /\ next.name = SourceLabels(t)[k]

LEMMA ExportHasOne ==
  ASSUME NEW t \in Tasks, t.op = "export"
  PROVE  Len(t.inputs) = 1 /\ DOMAIN t.inputs = {1}
<1>1. t \in Task
  BY TasksAssumption
<1>2. Len(t.inputs) = 1
  BY <1>1 DEF Task
<1>3. DOMAIN t.inputs = 1 .. Len(t.inputs)
  BY TaskFacts
<1>4. QED
  BY <1>2, <1>3

(* What an export picks from its mailbox is what it is to write. *)
LEMMA PickedIsTaken ==
  ASSUME NEW t \in Tasks, NEW files, Readable(files), t.op = "export"
  PROVE  IsTaken(t, files, 0, 1, PickedFrom(TheseMessages(t, files, 1), t.chosen))
<1> DEFINE messages == TheseMessages(t, files, 1)
           all == Sources(t, files)
           last == Len(all)
           l == Len(messages)
           list == Wants(t, files)
           count == Len(list)
           set == DOMAIN messages \cap t.chosen
           some == PickedFrom(messages, t.chosen)
<1>1. Len(t.inputs) = 1 /\ DOMAIN t.inputs = {1}
  BY ExportHasOne
<1>2. 0 \in 0 .. Len(t.inputs) /\ 0 < Len(t.inputs) /\ 1 \in 0 .. Len(t.inputs) /\ 0 + 1 = 1
  BY <1>1
<1>3. SourcesUpTo(t, files, 0) = 0 /\ SourcesUpTo(t, files, 1) = last
  <2>1. 1 = Len(t.inputs)
    BY <1>1
  <2>2. FlattenSeq(SubSeq(SourcesOf(t, files), 1, 1)) = Sources(t, files)
    BY <1>2, <2>1, CountSources
  <2>3. Len(FlattenSeq(SubSeq(SourcesOf(t, files), 1, 0))) = 0
    BY <1>2, CountSources
  <2>4. QED
    BY <2>2, <2>3 DEF SourcesUpTo
<1>4. /\ l \in Nat /\ last = 0 + l
      /\ \A i \in 1 .. l :
             /\ all[0 + i].message = messages[i]
             /\ all[0 + i].name = SourceLabels(t)[1]
             /\ all[0 + i].number = i
  <2> DEFINE k == 0
  <2>1. k \in 0 .. Len(t.inputs) /\ k < Len(t.inputs) /\ k + 1 = 1 /\ k = 0
    BY <1>2
  <2> HIDE DEF k
  <2>2. LET before == SourcesUpTo(t, files, k)
            these == TheseMessages(t, files, k + 1)
        IN  /\ Len(these) \in Nat
            /\ SourcesUpTo(t, files, k + 1) = before + Len(these)
            /\ \A i \in 1 .. Len(these) :
                   /\ all[before + i].message = these[i]
                   /\ all[before + i].name = SourceLabels(t)[k + 1]
                   /\ all[before + i].number = i
    BY <2>1, SourceAt
  <2> HIDE DEF all, messages, last
  <2>3. SourcesUpTo(t, files, k) = 0 /\ SourcesUpTo(t, files, k + 1) = last
        /\ TheseMessages(t, files, k + 1) = messages
    BY <1>3, <2>1 DEF messages
  <2>4. QED
    BY <2>1, <2>2, <2>3
<1>5. DOMAIN messages = 1 .. l /\ DOMAIN all = 1 .. last
  BY <1>1, TheseMessagesAre, WantsAre
<1> HIDE DEF messages, all, last, l
<1>6. l = last /\ \A i \in 1 .. l : all[i].message = messages[i] /\ all[i].name = SourceLabels(t)[1] /\ all[i].number = i
  <2>1. \A i \in 1 .. l : 0 + i = i
    OBVIOUS
  <2>2. QED
    BY <1>4, <2>1
<1>7. ~t.dedup
  BY TaskFacts
<1>8. \A i \in 1 .. l : IsWanted(t, all, i) <=> i \in t.chosen
  BY <1>6, <1>7 DEF IsWanted
<1>9. WantedSources(t, files) = set
  <2>1. WantedSources(t, files) = {i \in 1 .. l : IsWanted(t, all, i)}
    BY <1>5, <1>6 DEF WantedSources, all
  <2>2. QED
    BY <1>5, <1>8, <2>1
<1>10. list = Picked(messages, t.chosen) /\ some = [i \in DOMAIN list |-> messages[list[i]]]
  BY <1>9 DEF Wants, Picked, PickedFrom
<1>11. count \in Nat /\ list \in [1 .. count -> 1 .. last]
  BY WantsAre DEF last, all
<1> HIDE DEF list, count, some, set
<1>12. DOMAIN list = 1 .. count
  BY <1>11
<1>13. some = [i \in 1 .. count |-> messages[list[i]]]
  BY <1>10, <1>12
<1>14. Len(some) = count
  BY <1>11, <1>13
<1>15. ASSUME NEW q \in 1 .. Len(some)
       PROVE  all[list[0 + q]].message = some[q] /\ all[list[0 + q]].name = SourceLabels(t)[1]
  <2>1. 0 + q = q /\ q \in 1 .. count
    BY <1>11, <1>14
  <2>2. list[q] \in 1 .. l /\ some[q] = messages[list[q]]
    BY <1>6, <1>11, <1>13, <2>1
  <2>3. QED
    BY <1>6, <2>1, <2>2
<1>16. 0 + Len(some) = count
  BY <1>11, <1>14
<1>17. IsTaken(t, files, 0, 1, some)
  BY <1>15, <1>16 DEF IsTaken, all, list, count
<1>18. QED
  BY <1>17 DEF some, messages

LEMMA NextIsTaken ==
  ASSUME NEW t \in Tasks, NEW files, Readable(files), NEW p \in 0 .. Len(Wants(t, files)), NEW k,
         k # 0, NEW rest \in Seq(Seq(Piece)), rest # <<>>, IsTaken(t, files, p, k, rest)
  PROVE  LET next == Sources(t, files)[Wants(t, files)[p + 1]]
         IN  /\ p + 1 <= Len(Wants(t, files))
             /\ next.message = Head(rest) /\ next.name = SourceLabels(t)[k]
             /\ IsTaken(t, files, p + 1, k, Tail(rest))
<1> DEFINE all == Sources(t, files)
           list == Wants(t, files)
           count == Len(list)
           name == SourceLabels(t)[k]
           l == Len(rest)
           less == Tail(rest)
           S == Seq(Piece)
<1>1. count \in Nat /\ p \in Nat
  BY WantsAre
<1>2. /\ p + l = count
      /\ \A q \in 1 .. l : all[list[p + q]].message = rest[q] /\ all[list[p + q]].name = name
  BY DEF IsTaken
<1>3. l \in Nat /\ 1 \in 1 .. l
  OBVIOUS
<1>4. /\ less \in Seq(Seq(Piece)) /\ Len(less) = l - 1
      /\ \A q \in 1 .. l - 1 : less[q] = rest[q + 1]
      /\ Head(rest) = rest[1]
  <2>1. rest \in Seq(S) /\ rest # <<>>
    OBVIOUS
  <2> HIDE DEF S
  <2>2. /\ Tail(rest) \in Seq(S) /\ Len(Tail(rest)) = Len(rest) - 1
        /\ \A q \in 1 .. Len(Tail(rest)) : Tail(rest)[q] = rest[q + 1]
        /\ Head(rest) = rest[1]
    BY <2>1, HeadTailProperties
  <2>3. QED
    BY <2>2 DEF S
<1> HIDE DEF all, list, count, name, l, less
<1>5. p + 1 <= count /\ (p + 1) + Len(less) = count
  <2> DEFINE n == Len(less)
  <2>1. n = l - 1
    BY <1>4
  <2> HIDE DEF n
  <2>2. p + 1 <= count /\ (p + 1) + n = count
    BY <1>1, <1>2, <1>3, <2>1
  <2>3. QED
    BY <2>2 DEF n
<1>6. all[list[p + 1]].message = Head(rest) /\ all[list[p + 1]].name = name
  BY <1>2, <1>3, <1>4
<1>7. ASSUME NEW q \in 1 .. Len(less)
      PROVE  all[list[(p + 1) + q]].message = less[q] /\ all[list[(p + 1) + q]].name = name
  <2>1. q \in 1 .. l - 1 /\ q + 1 \in 1 .. l /\ p + (q + 1) = (p + 1) + q
    BY <1>1, <1>3, <1>4
  <2>2. QED
    BY <1>2, <1>4, <2>1
<1>8. IsTaken(t, files, p + 1, k, less)
  BY <1>5, <1>7 DEF IsTaken, all, list, count, name
<1>9. QED
  BY <1>5, <1>6, <1>8 DEF all, list, count, name, less

LEMMA AllIsTaken ==
  ASSUME NEW t \in Tasks, NEW files, Readable(files), NEW p \in 0 .. Len(Wants(t, files)), NEW k,
         k # 0, IsTaken(t, files, p, k, <<>>)
  PROVE  p = Len(Wants(t, files))
<1> DEFINE none == <<>>
<1>1. p + Len(none) = Len(Wants(t, files)) /\ Len(none) = 0
  BY DEF IsTaken
<1> HIDE DEF none
<1>2. p \in Nat
  BY WantsAre
<1>3. QED
  BY <1>1, <1>2

(* What a process has to show for what it has read.                        *)
IsUnderWay(t, files, content, k, rest, seen) ==
    /\ IsKept(t, files, content, ~IsPlain(t) \/ k < Len(t.inputs))
    /\ IsFound(t, files, content)
    /\ t.op = "merge" =>
           \E passed : IsPassed(t, files, Len(MessagesIn(content)), k, rest, seen, passed)
    /\ t.op = "export" => IsTaken(t, files, Len(MessagesIn(content)), k, rest)

LEMMA UnderWayStarts ==
  ASSUME NEW t \in Tasks, NEW files, Readable(files)
  PROVE  IsUnderWay(t, files, <<>>, 0, <<>>, {})
<1>1. /\ Len(MessagesIn(<<>>)) = 0 /\ IsFound(t, files, <<>>)
      /\ \A isWhole : IsKept(t, files, <<>>, isWhole)
  BY NothingIsFound
<1>2. IsPassed(t, files, 0, 0, <<>>, {}, 0)
  BY NoneIsPassed
<1>3. IsTaken(t, files, 0, 0, <<>>)
  BY DEF IsTaken
<1> DEFINE p == Len(MessagesIn(<<>>))
<1>4. p = 0
  BY <1>1
<1> HIDE DEF p
<1>5. IsPassed(t, files, p, 0, <<>>, {}, 0) /\ IsTaken(t, files, p, 0, <<>>)
  BY <1>2, <1>3, <1>4
<1>6. QED
  BY <1>1, <1>5 DEF IsUnderWay, p

LEMMA UnderWayEnds ==
  ASSUME NEW t \in Tasks, NEW files, Readable(files), NEW content, NEW seen,
         IsUnderWay(t, files, content, Len(t.inputs), <<>>, seen)
  PROVE  Fulfils(t, files, content)
<1> DEFINE p == Len(MessagesIn(content))
           list == Wants(t, files)
           count == Len(list)
           all == Sources(t, files)
           wanted == Wanted(t, files)
<1>1. /\ IsFound(t, files, content) /\ IsMailbox(content)
  BY DEF IsUnderWay, IsKept
<1>2. p \in Nat
  BY <1>1, MessagesAre
<1>3. /\ count \in Nat /\ wanted = [i \in 1 .. count |-> all[list[i]]]
  BY WantsAre
<1>4. p <= count /\ \A i \in 1 .. p : Matches(t, MessagesIn(content)[i], all[list[i]])
  BY <1>1 DEF IsFound
<1>5. p \in 0 .. count
  BY <1>2, <1>3, <1>4
<1>6. p = count
  <2>1. CASE t.op = "merge"
    <3>1. PICK passed : IsPassed(t, files, p, Len(t.inputs), <<>>, seen, passed)
      BY <2>1 DEF IsUnderWay
    <3> HIDE DEF p
    <3>2. QED
      BY <1>5, <3>1, AllIsPassed
  <2>2. CASE t.op = "export"
    <3>1. Len(t.inputs) # 0
      <4>1. Len(t.inputs) = 1
        BY <2>2, ExportHasOne
      <4>2. QED
        BY <4>1
    <3>2. IsTaken(t, files, p, Len(t.inputs), <<>>)
      BY <2>2 DEF IsUnderWay
    <3> HIDE DEF p
    <3>3. QED
      BY <1>5, <3>1, <3>2, AllIsTaken
  <2>3. QED
    BY <2>1, <2>2, TaskFacts
<1> HIDE DEF count, list, all
<1>7. Len(wanted) = count /\ DOMAIN wanted = 1 .. count /\ \A i \in 1 .. count : wanted[i] = all[list[i]]
  BY <1>3
<1> HIDE DEF wanted, p
<1>8. Len(MessagesIn(content)) = Len(wanted)
  BY <1>6, <1>7 DEF p
<1>9. \A i \in DOMAIN wanted : Matches(t, MessagesIn(content)[i], wanted[i])
  BY <1>4, <1>6, <1>7
<1>10. QED
  BY <1>8, <1>9 DEF Fulfils, wanted

LEMMA CopiedIsKept ==
  ASSUME NEW t \in Tasks, NEW files, Readable(files), Alike(t, files),
         CanBeConcatenated(t, files), NEW k \in DOMAIN t.inputs
  PROVE  IsKept(t, files, files[t.inputs[k]], k < Len(t.inputs))
BY TheseMessagesAre, CopiedKind DEF IsKept

LEMMA OpenedIsUnderWay ==
  ASSUME NEW t \in Tasks, NEW files, Readable(files), ~IsPlain(t),
         NEW k \in 0 .. Len(t.inputs), k < Len(t.inputs), NEW content, NEW seen,
         IsUnderWay(t, files, content, k, <<>>, seen)
  PROVE  /\ t.op = "merge" =>
                IsUnderWay(t, files, content, k + 1, TheseMessages(t, files, k + 1), seen)
         /\ t.op = "export" =>
                IsUnderWay(t, files, content, k + 1,
                           PickedFrom(TheseMessages(t, files, k + 1), t.chosen), seen)
<1> DEFINE p == Len(MessagesIn(content))
           messages == TheseMessages(t, files, k + 1)
           some == PickedFrom(messages, t.chosen)
<1>1. IsKept(t, files, content, ~IsPlain(t) \/ k + 1 < Len(t.inputs)) /\ IsFound(t, files, content)
  <2>1. (~IsPlain(t) \/ k < Len(t.inputs)) = (~IsPlain(t) \/ k + 1 < Len(t.inputs))
    OBVIOUS
  <2>2. QED
    BY <2>1 DEF IsUnderWay
<1>2. ASSUME t.op = "merge"
      PROVE  IsUnderWay(t, files, content, k + 1, messages, seen)
  <2>1. PICK passed : IsPassed(t, files, p, k, <<>>, seen, passed)
    BY <1>2 DEF IsUnderWay
  <2> HIDE DEF p
  <2>2. IsPassed(t, files, p, k + 1, messages, seen, passed)
    BY <2>1, OpenedIsPassed
  <2>3. t.op # "export"
    BY <1>2
  <2> HIDE DEF messages
  <2>4. QED
    BY <1>1, <2>2, <2>3 DEF IsUnderWay, p
<1>3. ASSUME t.op = "export"
      PROVE  IsUnderWay(t, files, content, k + 1, some, seen)
  <2>1. Len(t.inputs) = 1
    BY <1>3, ExportHasOne
  <2>2. k = 0 /\ k + 1 = 1
    BY <2>1
  <2>3. IsTaken(t, files, p, k, <<>>)
    BY <1>3 DEF IsUnderWay
  <2>4. p = 0
    BY <2>2, <2>3 DEF IsTaken
  <2>5. IsTaken(t, files, 0, 1, PickedFrom(TheseMessages(t, files, 1), t.chosen))
    BY <1>3, PickedIsTaken
  <2>6. IsTaken(t, files, p, k + 1, some)
    BY <2>2, <2>4, <2>5
  <2>7. t.op # "merge"
    BY <1>3
  <2> HIDE DEF some
  <2>8. QED
    BY <1>1, <2>6, <2>7 DEF IsUnderWay, p
<1>4. QED
  BY <1>2, <1>3

LEMMA FoundAreInRange ==
  ASSUME NEW t \in Tasks, NEW files, Readable(files), NEW content, NEW k, NEW rest, NEW seen,
         IsUnderWay(t, files, content, k, rest, seen)
  PROVE  Len(MessagesIn(content)) \in 0 .. Len(Wants(t, files))
<1> DEFINE p == Len(MessagesIn(content))
           count == Len(Wants(t, files))
<1>1. IsFound(t, files, content) /\ IsMailbox(content)
  BY DEF IsUnderWay, IsKept
<1>2. p \in Nat
  BY <1>1, MessagesAre
<1>3. count \in Nat
  BY WantsAre
<1>4. p <= count
  BY <1>1 DEF IsFound
<1> HIDE DEF p, count
<1>5. p \in 0 .. count
  BY <1>2, <1>3, <1>4
<1>6. QED
  BY <1>5 DEF p, count

LEMMA DuplicateIsUnderWay ==
  ASSUME NEW t \in Tasks, NEW files, Readable(files), t.op = "merge", t.dedup, NEW k,
         NEW content, NEW rest \in Seq(Seq(Piece)), rest # <<>>, NEW seen,
         MessageId(Head(rest)) # "", MessageId(Head(rest)) \in seen,
         IsUnderWay(t, files, content, k, rest, seen)
  PROVE  IsUnderWay(t, files, content, k, Tail(rest), seen)
<1> DEFINE p == Len(MessagesIn(content))
           less == Tail(rest)
<1>1. p \in 0 .. Len(Wants(t, files))
  BY FoundAreInRange
<1>2. PICK passed : IsPassed(t, files, p, k, rest, seen, passed)
  BY DEF IsUnderWay
<1> HIDE DEF p
<1>3. IsPassed(t, files, p, k, less, seen, passed + 1)
  <2>1. PassesNext(t, files, p, k, rest, seen, passed)
    BY <1>1, <1>2, NextIsPassed
  <2>2. QED
    BY <2>1 DEF PassesNext
<1> HIDE DEF less
<1>4. IsUnderWay(t, files, content, k, less, seen)
  BY <1>3 DEF IsUnderWay, p
<1>5. QED
  BY <1>4 DEF less

LEMMA MergedIsUnderWay ==
  ASSUME NEW t \in Tasks, NEW files, Readable(files), Alike(t, files), HasEnvelopes(t, files),
         t.op = "merge", ~IsPlain(t),
         NEW k \in DOMAIN t.inputs, NEW m \in DOMAIN TheseMessages(t, files, k),
         NEW content, NEW rest \in Seq(Seq(Piece)), rest # <<>>, NEW seen,
         Head(rest) = TheseMessages(t, files, k)[m],
         ~(t.dedup /\ MessageId(Head(rest)) # "" /\ MessageId(Head(rest)) \in seen),
         IsUnderWay(t, files, content, k, rest, seen)
  PROVE  IsUnderWay(t, files, content \o MergedFrom(t, k, Head(rest)), k, Tail(rest),
                    IF t.dedup THEN seen \cup {MessageId(Head(rest))} ELSE seen)
<1> DEFINE p == Len(MessagesIn(content))
           raw == Head(rest)
           record == MergedFrom(t, k, raw)
           list == Wants(t, files)
           all == Sources(t, files)
           less == Tail(rest)
           more == IF t.dedup THEN seen \cup {MessageId(raw)} ELSE seen
           both == content \o record
<1>1. p \in 0 .. Len(list)
  BY FoundAreInRange
<1>2. PICK passed : IsPassed(t, files, p, k, rest, seen, passed)
  BY DEF IsUnderWay
<1>4. IsFound(t, files, content) /\ IsKept(t, files, content, TRUE)
  <2>1. (~IsPlain(t) \/ k < Len(t.inputs)) = TRUE
    OBVIOUS
  <2>2. QED
    BY <2>1 DEF IsUnderWay
<1> HIDE DEF p
<1>5. /\ all[passed + 1].message = raw /\ all[passed + 1].name = SourceLabels(t)[k]
      /\ p + 1 <= Len(list) /\ list[p + 1] = passed + 1
      /\ IsPassed(t, files, p + 1, k, less, more, passed + 1)
  <2>1. PassesNext(t, files, p, k, rest, seen, passed)
    BY <1>1, <1>2, NextIsPassed
  <2>2. QED
    BY <2>1 DEF PassesNext
<1> HIDE DEF less, more
<1>6. raw = TheseMessages(t, files, k)[m]
  OBVIOUS
<1> HIDE DEF raw
<1>7. IsRecord(t, files, record)
  BY <1>6, WrittenIsARecord
<1>8. Matches(t, record, all[passed + 1])
  <2> DEFINE source == all[passed + 1]
  <2>1. source.message = TheseMessages(t, files, k)[m] /\ source.name = SourceLabels(t)[k]
    BY <1>5, <1>6
  <2> HIDE DEF source
  <2>2. Matches(t, MergedFrom(t, k, TheseMessages(t, files, k)[m]), source)
    BY <2>1, WrittenMatches
  <2>3. QED
    BY <1>6, <2>2 DEF source
<1>9. Matches(t, record, all[list[p + 1]])
  BY <1>5, <1>8
<1> HIDE DEF record
<1>10. /\ Len(MessagesIn(both)) = p + 1
       /\ IsFound(t, files, both) /\ IsKept(t, files, both, TRUE)
  BY <1>4, <1>5, <1>7, <1>9, RecordIsFound DEF p
<1> HIDE DEF both
<1>11. IsPassed(t, files, Len(MessagesIn(both)), k, less, more, passed + 1)
  BY <1>5, <1>10
<1>12. (~IsPlain(t) \/ k < Len(t.inputs)) = TRUE /\ t.op # "export"
  OBVIOUS
<1>13. IsUnderWay(t, files, both, k, less, more)
  BY <1>10, <1>11, <1>12 DEF IsUnderWay
<1>14. QED
  BY <1>13 DEF both, record, raw, less, more

LEMMA ExportedIsUnderWay ==
  ASSUME NEW t \in Tasks, NEW files, Readable(files), Alike(t, files), HasEnvelopes(t, files),
         t.op = "export",
         NEW k \in DOMAIN t.inputs, NEW m \in DOMAIN TheseMessages(t, files, k),
         NEW content, NEW rest \in Seq(Seq(Piece)), rest # <<>>, NEW seen,
         Head(rest) = TheseMessages(t, files, k)[m],
         IsUnderWay(t, files, content, k, rest, seen)
  PROVE  IsUnderWay(t, files, content \o MboxRecord(Head(rest)), k, Tail(rest), seen)
<1> DEFINE p == Len(MessagesIn(content))
           raw == Head(rest)
           record == MboxRecord(raw)
           list == Wants(t, files)
           all == Sources(t, files)
           less == Tail(rest)
           both == content \o record
           next == all[list[p + 1]]
<1>1. p \in 0 .. Len(list)
  BY FoundAreInRange
<1>2. IsTaken(t, files, p, k, rest)
  BY DEF IsUnderWay
<1>3. k # 0 /\ ~IsPlain(t)
  <2>1. k \in 1 .. Len(t.inputs)
    BY TaskFacts
  <2>2. ~IsPlain(t)
    BY DEF IsPlain
  <2>3. QED
    BY <2>1, <2>2
<1>4. IsFound(t, files, content) /\ IsKept(t, files, content, TRUE)
  <2>1. (~IsPlain(t) \/ k < Len(t.inputs)) = TRUE
    BY <1>3
  <2>2. QED
    BY <2>1 DEF IsUnderWay
<1> HIDE DEF p
<1>5. /\ p + 1 <= Len(list)
      /\ next.message = raw /\ next.name = SourceLabels(t)[k]
      /\ IsTaken(t, files, p + 1, k, less)
  BY <1>1, <1>2, <1>3, NextIsTaken
<1> HIDE DEF less
<1>6. raw = TheseMessages(t, files, k)[m]
  OBVIOUS
<1> HIDE DEF raw
<1>7. IsRecord(t, files, record)
  BY <1>6, WrittenIsARecord
<1>8. Matches(t, record, next)
  <2>1. next.message = TheseMessages(t, files, k)[m] /\ next.name = SourceLabels(t)[k]
    BY <1>5, <1>6
  <2> HIDE DEF next
  <2>2. Matches(t, MboxRecord(TheseMessages(t, files, k)[m]), next)
    BY <2>1, WrittenMatches
  <2>3. QED
    BY <1>6, <2>2
<1> HIDE DEF record
<1>9. /\ Len(MessagesIn(both)) = p + 1
      /\ IsFound(t, files, both) /\ IsKept(t, files, both, TRUE)
  BY <1>4, <1>5, <1>7, <1>8, RecordIsFound DEF p
<1> HIDE DEF both
<1>10. IsTaken(t, files, Len(MessagesIn(both)), k, less)
  BY <1>5, <1>9
<1>11. (~IsPlain(t) \/ k < Len(t.inputs)) = TRUE /\ t.op # "merge"
  BY <1>3
<1>12. IsUnderWay(t, files, both, k, less, seen)
  BY <1>9, <1>10, <1>11 DEF IsUnderWay
<1>13. QED
  BY <1>12 DEF both, record, raw, less

LEMMA CopiedIsUnderWay ==
  ASSUME NEW t \in Tasks, NEW files, Readable(files), Alike(t, files), IsPlain(t),
         CanBeConcatenated(t, files), NEW k \in 0 .. Len(t.inputs), k < Len(t.inputs),
         NEW content, NEW seen, IsUnderWay(t, files, content, k, <<>>, seen)
  PROVE  IsUnderWay(t, files, content \o files[t.inputs[k + 1]], k + 1, <<>>, seen)
<1> DEFINE p == Len(MessagesIn(content))
           new == files[t.inputs[k + 1]]
           messages == TheseMessages(t, files, k + 1)
           l == Len(messages)
           list == Wants(t, files)
           all == Sources(t, files)
           both == content \o new
           isWhole == k + 1 < Len(t.inputs)
<1>1. p \in 0 .. Len(list)
  BY FoundAreInRange
<1>2. t.op = "merge" /\ ~t.label
  BY DEF IsPlain
<1>3. PICK passed : IsPassed(t, files, p, k, <<>>, seen, passed)
  BY <1>2 DEF IsUnderWay
<1>4. k + 1 \in DOMAIN t.inputs
  <2>1. DOMAIN t.inputs = 1 .. Len(t.inputs) /\ Len(t.inputs) \in Nat
    BY TaskFacts
  <2>2. QED
    BY <2>1
<1>5. IsFound(t, files, content) /\ IsKept(t, files, content, TRUE)
  <2>1. (~IsPlain(t) \/ k < Len(t.inputs)) = TRUE
    OBVIOUS
  <2>2. QED
    BY <2>1 DEF IsUnderWay
<1>6. IsKept(t, files, new, isWhole)
  BY <1>4, CopiedIsKept
<1>7. messages = MessagesIn(new)
  BY DEF TheseMessages
<1> HIDE DEF p
<1>8. /\ p + l <= Len(list)
      /\ \A i \in 1 .. l : all[list[p + i]].message = messages[i]
      /\ IsPassed(t, files, p + l, k + 1, <<>>, seen, passed + l)
  BY <1>1, <1>3, CopiedIsPassed
<1>9. \A i \in 1 .. l : Matches(t, messages[i], all[list[p + i]])
  BY <1>2, <1>8 DEF Matches
<1> HIDE DEF messages, new, list, all, isWhole
<1>10. l = Len(MessagesIn(new))
  BY <1>7
<1>11. /\ Len(MessagesIn(content)) + Len(MessagesIn(new)) <= Len(Wants(t, files))
       /\ \A i \in 1 .. Len(MessagesIn(new)) :
              Matches(t, MessagesIn(new)[i],
                      Sources(t, files)[Wants(t, files)[Len(MessagesIn(content)) + i]])
  BY <1>7, <1>8, <1>9, <1>10 DEF p, list, all
<1>12. /\ Len(MessagesIn(both)) = p + l
       /\ IsFound(t, files, both) /\ IsKept(t, files, both, isWhole)
  <2>1. /\ Len(MessagesIn(content \o new)) = Len(MessagesIn(content)) + Len(MessagesIn(new))
        /\ IsFound(t, files, content \o new) /\ IsKept(t, files, content \o new, isWhole)
    BY <1>5, <1>6, <1>11, MoreIsFound
  <2> HIDE DEF l
  <2>2. QED
    BY <1>10, <2>1 DEF p
<1> HIDE DEF both, l
<1>13. IsPassed(t, files, Len(MessagesIn(both)), k + 1, <<>>, seen, passed + l)
  BY <1>8, <1>12
<1>14. (~IsPlain(t) \/ k + 1 < Len(t.inputs)) = isWhole /\ t.op # "export"
  BY <1>2 DEF isWhole
<1>15. IsUnderWay(t, files, both, k + 1, <<>>, seen)
  BY <1>12, <1>13, <1>14 DEF IsUnderWay
<1>16. QED
  BY <1>15 DEF both, new

-----------------------------------------------------------------------------
(* What every step leaves alone.                                           *)

(* No name of a temporary file is that of an input or of an output. *)
LEMMA TempNamesAreApart ==
  ASSUME NEW t \in Tasks
  PROVE  TempName(t) \notin Inputs /\ TempName(t) \notin Outputs /\ t.output \in Outputs
BY TaskFacts, InputsAssumption DEF TempName, Outputs

(* A step that changes no file but one of a temporary name. *)
LEMMA OthersAreKept ==
  ASSUME NEW name, name \notin Inputs, name \notin Outputs,
         \A n : n # name => (n \in DOMAIN dir' <=> n \in DOMAIN dir),
         \A n \in DOMAIN dir : n # name => data'[dir'[n]] = data[dir[n]]
  PROVE  Files' = Files /\ Results' = Results
<1>1. ASSUME NEW n, n # name
      PROVE  (IF n \in DOMAIN dir' THEN data'[dir'[n]] ELSE <<>>)
                 = (IF n \in DOMAIN dir THEN data[dir[n]] ELSE <<>>)
  BY <1>1
<1>2. \A n \in Inputs : n # name
  OBVIOUS
<1>3. \A n \in Outputs : n # name
  OBVIOUS
<1>4. Files' = Files
  BY <1>1, <1>2 DEF Files, Holds
<1>5. Results' = Results
  BY <1>1, <1>3 DEF Results, Holds
<1>6. QED
  BY <1>4, <1>5

LEMMA StartKeepsFiles ==
  ASSUME NEW w \in Writers, NEW t \in Tasks, CountInv(w), Start(w, t)
  PROVE  Files' = Files /\ Results' = Results
<1> DEFINE name == TempName(t)
           inode == <<w, runs[w] + 1>>
<1>1. FileInv /\ runs[w] \in Nat
  BY DEF CountInv, ShapeInv
<1>2. CreateTemp(w, name)
  BY DEF Start
<1>3. name \notin Inputs /\ name \notin Outputs
  BY TempNamesAreApart
<1> HIDE DEF name
<1>4. CASE name \in DOMAIN dir
  <2>1. dir' = dir /\ data' = [data EXCEPT ![dir[name]] = <<>>]
    BY <1>2, <1>4 DEF CreateTemp
  <2>2. \A n \in DOMAIN dir : n # name => data'[dir'[n]] = data[dir[n]]
    BY <1>1, <1>4, <2>1 DEF FileInv
  <2>3. QED
    BY <1>3, <2>1, <2>2, OthersAreKept
<1>5. CASE name \notin DOMAIN dir
  <2>1. /\ data' = [i \in DOMAIN data \cup {inode} |-> IF i = inode THEN <<>> ELSE data[i]]
        /\ dir' = [n \in DOMAIN dir \cup {name} |-> IF n = name THEN inode ELSE dir[n]]
    BY <1>2, <1>5 DEF CreateTemp
  <2>2. inode \notin DOMAIN data
    <3>1. runs[w] + 1 \in Nat /\ runs[w] + 1 > runs[w]
      BY <1>1
    <3>2. QED
      BY <1>1, <3>1 DEF FileInv
  <2> HIDE DEF inode
  <2>3. /\ DOMAIN dir' = DOMAIN dir \cup {name}
        /\ \A n \in DOMAIN dir : n # name => dir'[n] = dir[n]
        /\ \A i \in DOMAIN data : data'[i] = data[i]
    BY <2>1, <2>2
  <2>4. \A n \in DOMAIN dir : n # name => data'[dir'[n]] = data[dir[n]]
    BY <1>1, <2>3 DEF FileInv
  <2>5. \A n : n # name => (n \in DOMAIN dir' <=> n \in DOMAIN dir)
    BY <2>3
  <2>6. QED
    BY <1>3, <2>4, <2>5, OthersAreKept
<1>6. QED
  BY <1>4, <1>5

LEMMA WriteKeepsFiles ==
  ASSUME NEW w \in Writers, CountInv(w), IsBusy(w), NEW lines, Write(w, lines), dir' = dir
  PROVE  Files' = Files /\ Results' = Results
<1> DEFINE name == TempName(task[w])
<1>1. /\ FileInv /\ task[w] \in Tasks /\ name \in DOMAIN dir /\ dir[name] = handle[w]
  BY DEF CountInv, OwnFile, ItsName, IsBusy
<1>2. name \notin Inputs /\ name \notin Outputs
  BY <1>1, TempNamesAreApart
<1>3. \A i \in DOMAIN data : i # handle[w] => data'[i] = data[i]
  BY DEF Write
<1> HIDE DEF name
<1>4. \A n \in DOMAIN dir : n # name => data'[dir'[n]] = data[dir[n]]
  BY <1>1, <1>3 DEF FileInv
<1>5. QED
  BY <1>2, <1>4, OthersAreKept

LEMMA SameResults ==
  ASSUME dir' = dir, data' = data
  PROVE  Files' = Files /\ Results' = Results
BY DEF Files, Results, Holds

(* Only a commit changes what can be seen. *)
LEMMA FilesKept ==
  ASSUME NEW w \in Writers, CountInv(w),
         \/ \E t \in Tasks : Start(w, t)
         \/ OpenInput(w) \/ MergeMessage(w) \/ ExportMessage(w) \/ InputCopied(w)
         \/ CopyInput(w) \/ Fail(w) \/ UNCHANGED vars
  PROVE  Files' = Files /\ Results' = Results
<1>1. CASE \E t \in Tasks : Start(w, t)
  BY <1>1, StartKeepsFiles
<1>2. CASE OpenInput(w)
  BY <1>2, SameResults DEF OpenInput
<1>3. CASE MergeMessage(w)
  <2>1. dir' = dir /\ pc[w] = "copying"
        /\ (data' = data \/ Write(w, MergeRecord(w, Head(queue[w]))))
    BY <1>3 DEF MergeMessage
  <2>2. QED
    BY <2>1, SameResults, WriteKeepsFiles DEF IsBusy
<1>4. CASE ExportMessage(w)
  BY <1>4, WriteKeepsFiles DEF ExportMessage, IsBusy
<1>5. CASE InputCopied(w) \/ Fail(w) \/ UNCHANGED vars
  BY <1>5, SameResults DEF InputCopied, Fail, vars
<1>6. CASE CopyInput(w)
  BY <1>6, WriteKeepsFiles DEF CopyInput, IsBusy
<1>7. QED
  BY <1>1, <1>2, <1>3, <1>4, <1>5, <1>6

(* A process that is at work on a task that can be done has the messages   *)
(* that it has read to show for it.                                        *)
UnderWay(w) ==
    IsBusy(w) /\ IsSound(task[w], Files) =>
        IsUnderWay(task[w], Files, data[handle[w]], opened[w], queue[w], seen_ids[w])

HasSeen == seen_ids = [v \in Writers |-> seen_ids[v]]

DeliverInv(w) == CountInv(w) /\ HasSeen /\ UnderWay(w)

LEMMA DeliverInvInit == \A w \in Writers : Init => DeliverInv(w)
<1> SUFFICES ASSUME NEW w \in Writers, Init
             PROVE  DeliverInv(w)
  OBVIOUS
<1>1. CountInv(w)
  BY CountInvInit
<1>2. pc[w] = "idle" /\ seen_ids = [v \in Writers |-> {}]
  BY DEF Init
<1>3. QED
  BY <1>1, <1>2 DEF DeliverInv, HasSeen, UnderWay, IsBusy

LEMMA HasSeenStep ==
  ASSUME NEW w \in Writers, HasSeen,
         \/ \E t \in Tasks : Start(w, t)
         \/ OpenInput(w) \/ MergeMessage(w) \/ ExportMessage(w) \/ InputCopied(w)
         \/ CopyInput(w) \/ Commit(w) \/ Fail(w) \/ UNCHANGED vars
  PROVE  HasSeen'
<1>1. seen_ids' = seen_ids \/ \E now : seen_ids' = [seen_ids EXCEPT ![w] = now]
  BY DEF Start, OpenInput, MergeMessage, ExportMessage, InputCopied, CopyInput, Commit, Fail, vars
<1>2. QED
  BY <1>1 DEF HasSeen

LEMMA UnderWayStart ==
  ASSUME NEW w \in Writers, NEW t \in Tasks, CountInv(w), HasSeen, Start(w, t)
  PROVE  UnderWay(w)'
<1>1. FileInv /\ ShapeInv
  BY DEF CountInv
<1>2. FileInv' /\ data'[handle'[w]] = <<>>
  BY <1>1, CreatedIs DEF Start
<1>3. task'[w] = t /\ opened'[w] = 0 /\ queue'[w] = <<>>
  BY <1>1 DEF Start, ShapeInv
<1>4. seen_ids'[w] = {}
  BY DEF Start, HasSeen
<1> DEFINE now == Files'
<1>5. Readable(now)
  BY <1>2, FilesStayReadable
<1> HIDE DEF now
<1>6. IsUnderWay(t, now, <<>>, 0, <<>>, {})
  BY <1>5, UnderWayStarts
<1>7. QED
  BY <1>2, <1>3, <1>4, <1>6 DEF UnderWay, now

LEMMA UnderWayOpen ==
  ASSUME NEW w \in Writers, CountInv(w), UnderWay(w), OpenInput(w)
  PROVE  UnderWay(w)'
<1> DEFINE t == task[w]
           k == opened[w]
           next == opened[w] + 1
           files == Files
           content == data[handle[w]]
           messages == TheseMessages(t, files, next)
           some == PickedFrom(messages, t.chosen)
           new == IF t.op = "merge" THEN messages ELSE some
<1>1. FileInv /\ ShapeInv /\ OwnFile(w) /\ Works(w)
  BY DEF CountInv
<1>2. /\ pc[w] = "reading" /\ k < Len(t.inputs) /\ ~IsPlain(t)
      /\ opened' = [opened EXCEPT ![w] = opened[w] + 1]
      /\ dir' = dir /\ data' = data /\ task' = task /\ handle' = handle /\ seen_ids' = seen_ids
  BY DEF OpenInput, IsPlain
<1>3. /\ t \in Tasks /\ k \in 0 .. Len(t.inputs) /\ Len(t.inputs) \in Nat
      /\ DOMAIN t.inputs = 1 .. Len(t.inputs) /\ t.op \in {"merge", "export"}
      /\ queue[w] = <<>>
  BY <1>1, <1>2, TaskFacts DEF OwnFile, Works, IsBusy
<1>4. next \in DOMAIN t.inputs
  BY <1>2, <1>3
<1>5. files[t.inputs[next]] = Holds(NextInput(w))
  <2>1. t.inputs[next] \in Inputs /\ NextInput(w) = t.inputs[next]
    BY <1>3, <1>4, TaskFacts DEF NextInput
  <2> HIDE DEF t, next
  <2>2. QED
    BY <2>1 DEF Files
<1>6. queue' = [queue EXCEPT ![w] = new]
  BY <1>5 DEF OpenInput, TheseMessages, PickedFrom
<1>7. Readable(files)
  BY <1>1, FilesAreReadable
<1>8. queue'[w] = new
  <2>1. queue = [v \in Writers |-> queue[v]]
    BY <1>1 DEF ShapeInv
  <2> HIDE DEF new
  <2>2. QED
    BY <1>6, <2>1
<1>9. opened'[w] = next
  <2>1. opened \in [Writers -> Nat]
    BY <1>1 DEF ShapeInv
  <2>2. QED
    BY <1>2, <2>1
<1>10. Files' = files
  BY <1>2, SameResults
<1>11. ASSUME IsSound(t, files)
       PROVE  IsUnderWay(t, files, content, next, new, seen_ids[w])
  <2> DEFINE seen == seen_ids[w]
  <2>1. IsUnderWay(t, files, content, k, <<>>, seen)
    BY <1>2, <1>3, <1>11 DEF UnderWay, IsBusy
  <2> HIDE DEF t, k, files, content, seen
  <2>2. /\ t.op = "merge" =>
               IsUnderWay(t, files, content, k + 1, TheseMessages(t, files, k + 1), seen)
        /\ t.op = "export" =>
               IsUnderWay(t, files, content, k + 1,
                          PickedFrom(TheseMessages(t, files, k + 1), t.chosen), seen)
    BY <1>2, <1>3, <1>7, <2>1, OpenedIsUnderWay
  <2>3. QED
    BY <1>3, <2>2 DEF k, seen
<1>12. task'[w] = t /\ data'[handle'[w]] = content /\ seen_ids'[w] = seen_ids[w]
  BY <1>2
<1> HIDE DEF t, files, content, new, next
<1>13. QED
  BY <1>8, <1>9, <1>10, <1>11, <1>12 DEF UnderWay

(* The next message of the queue, and where it goes. *)
LEMMA UnderWayMerge ==
  ASSUME NEW w \in Writers, CountInv(w), HasSeen, UnderWay(w), MergeMessage(w)
  PROVE  UnderWay(w)'
<1> DEFINE t == task[w]
           k == opened[w]
           files == Files
           rest == queue[w]
           raw == Head(rest)
           record == MergeRecord(w, raw)
           content == data[handle[w]]
           seen == seen_ids[w]
<1>1. FileInv /\ ShapeInv /\ OwnFile(w) /\ Works(w)
  BY DEF CountInv
<1>2. /\ pc[w] = "copying" /\ t.op = "merge" /\ rest # <<>>
      /\ queue' = [queue EXCEPT ![w] = Tail(rest)]
      /\ dir' = dir /\ task' = task /\ pc' = pc /\ handle' = handle /\ opened' = opened
      /\ runs' = runs
  BY DEF MergeMessage
<1>3. /\ t \in Tasks /\ k \in DOMAIN t.inputs /\ ~IsPlain(t)
      /\ \E m \in DOMAIN TheseMessages(t, files, k) : raw = TheseMessages(t, files, k)[m]
  BY <1>2, NextMessage
<1>4. rest \in Seq(Seq(Piece))
  BY <1>1, <1>2 DEF Works, IsBusy
<1>5. Readable(files)
  BY <1>1, FilesAreReadable
<1>6. Files' = files
  BY FilesKept
<1>7. queue'[w] = Tail(rest)
  <2>1. queue = [v \in Writers |-> queue[v]]
    BY <1>1 DEF ShapeInv
  <2>2. QED
    BY <1>2, <2>1
<1>8. task'[w] = t /\ handle'[w] = handle[w] /\ opened'[w] = k
  BY <1>2
<1>9. IsSound(t, files) => IsUnderWay(t, files, content, k, rest, seen)
  BY <1>2 DEF UnderWay, IsBusy
<1>10. record = MergedFrom(t, k, raw)
  BY DEF MergeRecord, MergedFrom
<1>11. IsDuplicate(w, raw) <=> t.dedup /\ MessageId(raw) # "" /\ MessageId(raw) \in seen
  BY DEF IsDuplicate
<1>12. CASE IsDuplicate(w, raw)
  <2>1. data' = data /\ seen_ids' = seen_ids
    BY <1>12 DEF MergeMessage
  <2>2. data'[handle[w]] = content /\ seen_ids'[w] = seen
    BY <2>1
  <2>3. t.dedup /\ MessageId(raw) # "" /\ MessageId(raw) \in seen
    BY <1>11, <1>12
  <2> HIDE DEF t, k, files, rest, content, seen
  <2>4. IsSound(t, files) => IsUnderWay(t, files, content, k, Tail(rest), seen)
    BY <1>2, <1>3, <1>4, <1>5, <1>9, <2>3, DuplicateIsUnderWay
  <2>5. QED
    BY <1>6, <1>7, <1>8, <2>2, <2>4 DEF UnderWay
<1>13. CASE ~IsDuplicate(w, raw)
  <2> DEFINE more == IF t.dedup THEN seen \cup {MessageId(raw)} ELSE seen
  <2>1. /\ Write(w, record)
        /\ seen_ids' = [seen_ids EXCEPT ![w] = more]
    BY <1>13 DEF MergeMessage
  <2>2. seen_ids'[w] = more
    <3> HIDE DEF more
    <3>1. QED
      BY <2>1 DEF HasSeen
  <2>3. ~(t.dedup /\ MessageId(raw) # "" /\ MessageId(raw) \in seen)
    BY <1>11, <1>13
  <2>4. IsBusy(w)
    BY <1>2 DEF IsBusy
  <2>5. record \in Seq(Piece)
    <3>1. PICK m \in DOMAIN TheseMessages(t, files, k) : raw = TheseMessages(t, files, k)[m]
      BY <1>3
    <3> HIDE DEF t, k, files, raw, record
    <3>2. QED
      BY <1>3, <1>5, <1>10, <3>1, WrittenType
  <2>6. data'[handle[w]] = content \o record
    <3> HIDE DEF record
    <3>1. QED
      BY <1>1, <1>2, <2>1, <2>4, <2>5, WriteAppends
  <2>7. ASSUME IsSound(t, files)
        PROVE  IsUnderWay(t, files, content \o record, k, Tail(rest), more)
    <3>1. PICK m \in DOMAIN TheseMessages(t, files, k) : Head(rest) = TheseMessages(t, files, k)[m]
      BY <1>3
    <3>2. Alike(t, files) /\ HasEnvelopes(t, files)
      BY <2>7 DEF IsSound
    <3> HIDE DEF t, k, files, rest, content, seen, record
    <3>3. IsUnderWay(t, files, content, k, rest, seen)
      BY <1>9, <2>7
    <3>4. ~(t.dedup /\ MessageId(Head(rest)) # "" /\ MessageId(Head(rest)) \in seen)
      BY <2>3
    <3>5. IsUnderWay(t, files, content \o MergedFrom(t, k, Head(rest)), k, Tail(rest),
                     IF t.dedup THEN seen \cup {MessageId(Head(rest))} ELSE seen)
      BY <1>2, <1>3, <1>4, <1>5, <3>1, <3>2, <3>3, <3>4, MergedIsUnderWay
    <3>6. QED
      BY <1>10, <3>5
  <2> HIDE DEF t, k, files, rest, content, seen, record, more
  <2>8. QED
    BY <1>6, <1>7, <1>8, <2>2, <2>6, <2>7 DEF UnderWay
<1>14. QED
  BY <1>12, <1>13

LEMMA UnderWayExport ==
  ASSUME NEW w \in Writers, CountInv(w), UnderWay(w), ExportMessage(w)
  PROVE  UnderWay(w)'
<1> DEFINE t == task[w]
           k == opened[w]
           files == Files
           rest == queue[w]
           record == MboxRecord(Head(rest))
           content == data[handle[w]]
           seen == seen_ids[w]
<1>1. FileInv /\ ShapeInv /\ OwnFile(w) /\ Works(w)
  BY DEF CountInv
<1>2. /\ pc[w] = "copying" /\ t.op = "export" /\ rest # <<>>
      /\ queue' = [queue EXCEPT ![w] = Tail(rest)]
      /\ dir' = dir /\ task' = task /\ pc' = pc /\ handle' = handle /\ opened' = opened
      /\ runs' = runs /\ seen_ids' = seen_ids /\ Write(w, record)
  BY DEF ExportMessage
<1>3. /\ t \in Tasks /\ k \in DOMAIN t.inputs
      /\ \E m \in DOMAIN TheseMessages(t, files, k) : Head(rest) = TheseMessages(t, files, k)[m]
  BY <1>2, NextMessage
<1>4. rest \in Seq(Seq(Piece)) /\ IsBusy(w)
  BY <1>1, <1>2 DEF Works, IsBusy
<1>5. Readable(files)
  BY <1>1, FilesAreReadable
<1>6. Files' = files
  BY FilesKept
<1>7. queue'[w] = Tail(rest)
  <2>1. queue = [v \in Writers |-> queue[v]]
    BY <1>1 DEF ShapeInv
  <2>2. QED
    BY <1>2, <2>1
<1>8. task'[w] = t /\ handle'[w] = handle[w] /\ opened'[w] = k /\ seen_ids'[w] = seen
  BY <1>2
<1>9. IsSound(t, files) => IsUnderWay(t, files, content, k, rest, seen)
  BY <1>2 DEF UnderWay, IsBusy
<1>10. PICK m \in DOMAIN TheseMessages(t, files, k) : Head(rest) = TheseMessages(t, files, k)[m]
  BY <1>3
<1>11. record \in Seq(Piece)
  <2> HIDE DEF t, k, files, rest
  <2>1. QED
    BY <1>3, <1>5, <1>10, WrittenType
<1>12. data'[handle[w]] = content \o record
  <2> HIDE DEF record
  <2>1. QED
    BY <1>1, <1>2, <1>4, <1>11, WriteAppends
<1> HIDE DEF t, k, files, rest, content, seen
<1>13. ASSUME IsSound(t, files)
       PROVE  IsUnderWay(t, files, content \o record, k, Tail(rest), seen)
  <2>1. Alike(t, files) /\ HasEnvelopes(t, files)
    BY <1>13 DEF IsSound
  <2>2. IsUnderWay(t, files, content, k, rest, seen)
    BY <1>9, <1>13
  <2>3. QED
    BY <1>2, <1>3, <1>4, <1>5, <1>10, <2>1, <2>2, ExportedIsUnderWay
<1> HIDE DEF record
<1>14. QED
  BY <1>6, <1>7, <1>8, <1>12, <1>13 DEF UnderWay

LEMMA UnderWayCopy ==
  ASSUME NEW w \in Writers, CountInv(w), UnderWay(w), CopyInput(w)
  PROVE  UnderWay(w)'
<1> DEFINE t == task[w]
           k == opened[w]
           next == opened[w] + 1
           files == Files
           bytes == files[t.inputs[next]]
           content == data[handle[w]]
           seen == seen_ids[w]
<1>1. FileInv /\ ShapeInv /\ OwnFile(w) /\ Works(w)
  BY DEF CountInv
<1>2. /\ pc[w] = "reading" /\ k < Len(t.inputs) /\ IsPlain(t)
      /\ opened' = [opened EXCEPT ![w] = opened[w] + 1]
      /\ dir' = dir /\ task' = task /\ pc' = pc /\ handle' = handle /\ queue' = queue
      /\ runs' = runs /\ seen_ids' = seen_ids
  BY DEF CopyInput, IsPlain
<1>3. t \in Tasks /\ k \in 0 .. Len(t.inputs) /\ Len(t.inputs) \in Nat
      /\ DOMAIN t.inputs = 1 .. Len(t.inputs) /\ queue[w] = <<>> /\ IsBusy(w)
  BY <1>1, <1>2, TaskFacts DEF OwnFile, Works, IsBusy
<1>4. next \in DOMAIN t.inputs
  BY <1>2, <1>3
<1>5. t.inputs[next] \in Inputs /\ NextInput(w) = t.inputs[next]
  BY <1>3, <1>4, TaskFacts DEF NextInput
<1>6. bytes = Holds(NextInput(w))
  <2> HIDE DEF t, next
  <2>1. QED
    BY <1>5 DEF Files
<1>7. Readable(files)
  BY <1>1, FilesAreReadable
<1>8. bytes \in Seq(Piece)
  <2> HIDE DEF next
  <2>1. QED
    BY <1>5, <1>7 DEF Readable, IsInput, IsMailbox
<1>9. Write(w, bytes)
  BY <1>6 DEF CopyInput
<1>10. data'[handle[w]] = content \o bytes
  <2> HIDE DEF bytes
  <2>1. QED
    BY <1>1, <1>2, <1>3, <1>8, <1>9, WriteAppends
<1>11. Files' = files
  BY FilesKept
<1>12. opened'[w] = next
  <2>1. opened \in [Writers -> Nat]
    BY <1>1 DEF ShapeInv
  <2>2. QED
    BY <1>2, <2>1
<1>13. task'[w] = t /\ handle'[w] = handle[w] /\ queue'[w] = <<>> /\ seen_ids'[w] = seen
  BY <1>2, <1>3
<1>14. ASSUME IsSound(t, files)
       PROVE  IsUnderWay(t, files, content \o bytes, next, <<>>, seen)
  <2>1. Alike(t, files) /\ CanBeConcatenated(t, files)
    BY <1>2, <1>14 DEF IsSound
  <2>2. IsUnderWay(t, files, content, k, <<>>, seen)
    BY <1>3, <1>14 DEF UnderWay
  <2> HIDE DEF t, k, files, content, seen
  <2>3. IsUnderWay(t, files, content \o files[t.inputs[k + 1]], k + 1, <<>>, seen)
    BY <1>2, <1>3, <1>7, <2>1, <2>2, CopiedIsUnderWay
  <2>4. QED
    BY <2>3 DEF k
<1> HIDE DEF t, k, next, files, bytes, content, seen
<1>15. QED
  BY <1>10, <1>11, <1>12, <1>13, <1>14 DEF UnderWay

LEMMA UnderWayIdle ==
  ASSUME NEW w \in Writers, CountInv(w), UnderWay(w),
         InputCopied(w) \/ Fail(w) \/ UNCHANGED vars
  PROVE  UnderWay(w)'
<1>1. /\ task' = task /\ data' = data /\ handle' = handle /\ opened' = opened
      /\ queue' = queue /\ seen_ids' = seen_ids
  BY DEF InputCopied, Fail, vars
<1>2. Files' = Files
  BY FilesKept
<1>3. IsBusy(w)' => IsBusy(w)
  <2>1. pc = [v \in Writers |-> pc[v]]
    BY DEF CountInv, ShapeInv
  <2>2. QED
    BY <2>1 DEF InputCopied, Fail, vars, IsBusy
<1>4. QED
  BY <1>1, <1>2, <1>3 DEF UnderWay

LEMMA UnderWayCommit ==
  ASSUME NEW w \in Writers, CountInv(w), Commit(w)
  PROVE  UnderWay(w)'
<1>1. pc = [v \in Writers |-> pc[v]]
  BY DEF CountInv, ShapeInv
<1>2. pc'[w] = "done" \/ pc'[w] = "failed"
  BY <1>1 DEF Commit
<1>3. QED
  BY <1>2 DEF UnderWay, IsBusy

LEMMA DeliverInvStep ==
  ASSUME NEW w, Writers = {w}, DeliverInv(w), [Next]_vars
  PROVE  DeliverInv(w)'
<1>1. w \in Writers /\ CountInv(w) /\ HasSeen /\ UnderWay(w)
  BY DEF DeliverInv
<1>2. CountInv(w)'
  BY <1>1, CountInvStep
<1>3. \/ \E t \in Tasks : Start(w, t)
      \/ OpenInput(w) \/ MergeMessage(w) \/ ExportMessage(w) \/ InputCopied(w)
      \/ CopyInput(w) \/ Commit(w) \/ Fail(w) \/ UNCHANGED vars
  BY DEF Next
<1>4. HasSeen'
  BY <1>1, <1>3, HasSeenStep
<1>5. UnderWay(w)'
  <2>1. CASE \E t \in Tasks : Start(w, t)
    BY <1>1, <2>1, UnderWayStart
  <2>2. CASE OpenInput(w)
    BY <1>1, <2>2, UnderWayOpen
  <2>3. CASE MergeMessage(w)
    BY <1>1, <2>3, UnderWayMerge
  <2>4. CASE ExportMessage(w)
    BY <1>1, <2>4, UnderWayExport
  <2>5. CASE CopyInput(w)
    BY <1>1, <2>5, UnderWayCopy
  <2>6. CASE Commit(w)
    BY <1>1, <2>6, UnderWayCommit
  <2>7. CASE InputCopied(w) \/ Fail(w) \/ UNCHANGED vars
    BY <1>1, <2>7, UnderWayIdle
  <2>8. QED
    BY <1>3, <2>1, <2>2, <2>3, <2>4, <2>5, <2>6, <2>7
<1>6. QED
  BY <1>2, <1>4, <1>5 DEF DeliverInv

LEMMA CommitKeepsFiles ==
  ASSUME NEW w \in Writers, CountInv(w), Commit(w)
  PROVE  Files' = Files
<1> DEFINE temp == TempName(task[w])
           output == task[w].output
<1>1. task[w] \in Tasks /\ temp \in DOMAIN dir
  BY DEF CountInv, OwnFile, ItsName, Commit, IsBusy
<1>2. temp \notin Inputs /\ output \notin Inputs
  BY <1>1, TempNamesAreApart, TaskFacts
<1>3. dir' = Renamed(temp, output) /\ data' = data
  BY <1>1 DEF Commit
<1> HIDE DEF temp, output
<1>4. /\ DOMAIN dir' = (DOMAIN dir \ {temp}) \cup {output}
      /\ \A n \in DOMAIN dir' : n # output => dir'[n] = dir[n]
  BY <1>3 DEF Renamed
<1>5. \A n \in Inputs : n \in DOMAIN dir' <=> n \in DOMAIN dir
  BY <1>2, <1>4
<1>6. \A n \in Inputs : n \in DOMAIN dir => data'[dir'[n]] = data[dir[n]]
  BY <1>2, <1>3, <1>4
<1>7. QED
  BY <1>5, <1>6, FilesAreKept

(* A step of one process moves its stage alone.                            *)
LEMMA StageAfter ==
  ASSUME NEW w \in Writers, CountInv(w), NEW now, pc' = [pc EXCEPT ![w] = now]
  PROVE  Stage' = [Stage EXCEPT ![w] = IF now \in {"reading", "copying"} THEN "asked" ELSE now]
<1>1. pc = [v \in Writers |-> pc[v]]
  BY DEF CountInv, ShapeInv
<1>2. pc'[w] = now /\ \A v \in Writers : v # w => pc'[v] = pc[v]
  BY <1>1
<1>3. QED
  BY <1>2 DEF Stage

LEMMA StartAsks ==
  ASSUME NEW w \in Writers, NEW t \in Tasks, CountInv(w), Start(w, t)
  PROVE  Abstract!Ask(w, t)
<1>1. Files' = Files /\ Results' = Results
  BY StartKeepsFiles
<1>2. /\ pc[w] \in {"idle", "done", "failed"}
      /\ task' = [task EXCEPT ![w] = t] /\ pc' = [pc EXCEPT ![w] = "reading"]
  BY DEF Start
<1>3. Stage[w] # "asked"
  BY <1>2 DEF Stage
<1>4. Stage' = [Stage EXCEPT ![w] = "asked"]
  BY <1>2, StageAfter
<1>5. QED
  BY <1>1, <1>2, <1>3, <1>4 DEF Abstract!Ask

LEMMA FailAbandons ==
  ASSUME NEW w \in Writers, CountInv(w), Fail(w)
  PROVE  Abstract!Abandon(w)
<1>1. Files' = Files /\ Results' = Results
  BY FilesKept
<1>2. /\ pc[w] \in {"reading", "copying"}
      /\ task' = task /\ pc' = [pc EXCEPT ![w] = "failed"]
  BY DEF Fail
<1>3. Stage[w] = "asked"
  BY <1>2 DEF Stage
<1>4. Stage' = [Stage EXCEPT ![w] = "failed"]
  BY <1>2, StageAfter
<1>5. QED
  BY <1>1, <1>2, <1>3, <1>4 DEF Abstract!Abandon

(* Nothing of the work between the start and the end is seen.              *)
LEMMA WorkIsUnseen ==
  ASSUME NEW w \in Writers, CountInv(w),
         \/ OpenInput(w) \/ MergeMessage(w) \/ ExportMessage(w) \/ InputCopied(w)
         \/ CopyInput(w) \/ UNCHANGED vars
  PROVE  UNCHANGED Abstract!vars
<1>1. Files' = Files /\ Results' = Results
  BY FilesKept
<1>2. task' = task
  BY DEF OpenInput, MergeMessage, ExportMessage, InputCopied, CopyInput, vars
<1>3. \/ pc' = pc
      \/ pc[w] = "reading" /\ pc' = [pc EXCEPT ![w] = "copying"]
      \/ pc[w] = "copying" /\ pc' = [pc EXCEPT ![w] = "reading"]
  BY DEF OpenInput, MergeMessage, ExportMessage, InputCopied, CopyInput, vars
<1>4. Stage' = Stage
  <2>1. CASE pc' = pc
    BY <2>1 DEF Stage
  <2>2. CASE pc' # pc
    <3>1. Stage' = [Stage EXCEPT ![w] = "asked"]
      BY <1>3, <2>2, StageAfter
    <3>2. Stage[w] = "asked" /\ Stage = [v \in Writers |-> Stage[v]]
      BY <1>3, <2>2 DEF Stage
    <3>3. QED
      BY <3>1, <3>2
  <2>3. QED
    BY <2>1, <2>2
<1>5. QED
  BY <1>1, <1>2, <1>4 DEF Abstract!vars

(* What a commit puts in the place of the output is what this process was  *)
(* asked for.                                                              *)
LEMMA CommitDelivers ==
  ASSUME NEW w \in Writers, DeliverInv(w), Commit(w)
  PROVE  Abstract!Deliver(w)
<1> DEFINE t == task[w]
           temp == TempName(t)
           output == t.output
           files == Files
           content == data[handle[w]]
<1>1. FileInv /\ ShapeInv /\ OwnFile(w) /\ Works(w) /\ UnderWay(w)
  BY DEF DeliverInv, CountInv
<1>2. pc[w] = "reading" /\ opened[w] = Len(t.inputs) /\ data' = data
  BY DEF Commit
<1>3. t \in Tasks /\ temp \in DOMAIN dir /\ dir[temp] = handle[w] /\ queue[w] = <<>> /\ IsBusy(w)
  BY <1>1, <1>2 DEF OwnFile, Works, ItsName, IsBusy
<1>4. dir' = Renamed(temp, output)
  BY <1>3 DEF Commit
<1>5. temp \notin Inputs /\ temp \notin Outputs /\ output \in Outputs /\ output \notin Inputs
  BY <1>3, TempNamesAreApart, TaskFacts
<1>6. Readable(files)
  BY <1>1, FilesAreReadable
<1>7. IsSound(t, files) => IsUnderWay(t, files, content, Len(t.inputs), <<>>, seen_ids[w])
  BY <1>1, <1>2, <1>3 DEF UnderWay
<1>8. IsSound(t, files) => Fulfils(t, files, content)
  <2> HIDE DEF t, files, content
  <2>1. QED
    BY <1>3, <1>6, <1>7, UnderWayEnds
<1> HIDE DEF temp, output
<1>9. /\ DOMAIN dir' = (DOMAIN dir \ {temp}) \cup {output}
      /\ dir'[output] = dir[temp]
      /\ \A n \in DOMAIN dir' : n # output => dir'[n] = dir[n]
  BY <1>4 DEF Renamed
<1>10. ASSUME NEW n, n # temp, n # output
       PROVE  (IF n \in DOMAIN dir' THEN data'[dir'[n]] ELSE <<>>)
                  = (IF n \in DOMAIN dir THEN data[dir[n]] ELSE <<>>)
  BY <1>2, <1>9, <1>10
<1>11. Files' = Files
  BY CommitKeepsFiles DEF DeliverInv
<1>12. Results'[output] = content
  <2>1. Results' = [n \in Outputs |-> IF n \in DOMAIN dir' THEN data'[dir'[n]] ELSE <<>>]
    BY DEF Results, Holds
  <2>2. output \in DOMAIN dir' /\ data'[dir'[output]] = content
    BY <1>2, <1>3, <1>9
  <2>3. QED
    BY <1>5, <2>1, <2>2
<1>13. Results' = [Results EXCEPT ![output] = Results'[output]]
  <2>1. Results = [n \in Outputs |-> IF n \in DOMAIN dir THEN data[dir[n]] ELSE <<>>]
    BY DEF Results, Holds
  <2>2. Results' = [n \in Outputs |-> IF n \in DOMAIN dir' THEN data'[dir'[n]] ELSE <<>>]
    BY DEF Results, Holds
  <2>3. \A n \in Outputs : n # output => Results'[n] = Results[n]
    BY <1>5, <1>10, <2>1, <2>2
  <2>4. Results = [n \in Outputs |-> Results[n]] /\ Results' = [n \in Outputs |-> Results'[n]]
    BY <2>1, <2>2
  <2> DEFINE old == Results
             new == Results'
  <2>5. /\ old = [n \in Outputs |-> old[n]] /\ new = [n \in Outputs |-> new[n]]
        /\ \A n \in Outputs : n # output => new[n] = old[n]
    BY <2>3, <2>4
  <2> HIDE DEF old, new
  <2>6. new = [old EXCEPT ![output] = new[output]]
    BY <2>5
  <2>7. QED
    BY <2>6 DEF old, new
<1>14. IsSound(t, Files) => Fulfils(t, Files, Results'[output])
  BY <1>8, <1>12
<1>15. task' = task /\ Stage[w] = "asked" /\ Stage' = [Stage EXCEPT ![w] = "done"]
  <2>1. task' = task /\ pc' = [pc EXCEPT ![w] = "done"]
    BY <1>3 DEF Commit, temp
  <2>2. Stage[w] = "asked"
    BY <1>2 DEF Stage
  <2>3. Stage' = [Stage EXCEPT ![w] = "done"]
    BY <2>1, StageAfter DEF DeliverInv
  <2>4. QED
    BY <2>1, <2>2, <2>3
<1>16. QED
  BY <1>11, <1>13, <1>14, <1>15 DEF Abstract!Deliver, output

LEMMA StepDelivers ==
  ASSUME NEW w, Writers = {w}, DeliverInv(w), [Next]_vars
  PROVE  [Abstract!Next]_(Abstract!vars)
<1>1. w \in Writers /\ CountInv(w)
  BY DEF DeliverInv
<1>2. CASE Commit(w)
  BY <1>1, <1>2, CommitDelivers DEF Abstract!Next
<1>3. CASE Fail(w)
  BY <1>1, <1>3, FailAbandons DEF Abstract!Next
<1>4. CASE \E t \in Tasks : Start(w, t)
  BY <1>1, <1>4, StartAsks DEF Abstract!Next
<1>5. CASE \/ OpenInput(w) \/ MergeMessage(w) \/ ExportMessage(w) \/ InputCopied(w)
           \/ CopyInput(w) \/ UNCHANGED vars
  BY <1>1, <1>5, WorkIsUnseen
<1>6. QED
  BY <1>2, <1>3, <1>4, <1>5 DEF Next

(* A merge or an export whose work nobody else disturbs delivers: whatever *)
(* fails and whenever, the file the process was asked for is the one that  *)
(* was there before until the process puts another in its place, and then  *)
(* a reader finds in it exactly the messages that its task wants, once, in *)
(* order, each under its label                                             *)
(* (export/mbox.rs:46-50, 128-133, 83-104, 188-200).                       *)
THEOREM OneWriterDeliversWhole ==
  ASSUME NEW w, Writers = {w}
  PROVE  Spec => DeliversWhole
<1>1. Init => DeliverInv(w)
  BY DeliverInvInit
<1>2. DeliverInv(w) /\ [Next]_vars => DeliverInv(w)'
  BY DeliverInvStep
<1>3. DeliverInv(w) /\ [Next]_vars => [Abstract!Next]_(Abstract!vars)
  BY StepDelivers
<1>4. Init => Abstract!Init
  BY DEF Init, Stage, Abstract!Init
<1>5. QED
  BY <1>1, <1>2, <1>3, <1>4, PTL DEF Spec, DeliversWhole, Abstract!Spec
=============================================================================
