---------------------------- MODULE MailboxNaming ----------------------------
(***************************************************************************)
(* The names under which the user sees mailboxes (mailbox_naming.rs).  A   *)
(* path is the sequence of its normal components, the last being the file; *)
(* a name is the sequence of the components that are shown.                *)
(***************************************************************************)
EXTENDS Naturals, Sequences

CONSTANTS
    PackageDirs,   \* directories Name.mbox, in which Apple Mail puts a file "mbox"
    GroupsDirs,    \* directories <group>@googlegroups.com
    MaxLevels      \* MAX_LEVELS

ASSUME MaxLevelsAssumption == MaxLevels \in Nat \ {0}

Upwards(path) == SubSeq(path, 1, Len(path) - 1)

IsIn(path, directories) == Len(path) > 1 /\ path[Len(path) - 1] \in directories

(* presentation_path *)
PresentationPath(path) ==
    IF IsIn(path, GroupsDirs) \/ (path[Len(path)] = "mbox" /\ IsIn(path, PackageDirs))
    THEN Upwards(path) ELSE path

(* name_at_level: the last components, or all there are. *)
NameAtLevel(path, level) ==
    SubSeq(path, IF level < Len(path) THEN Len(path) - level + 1 ELSE 1, Len(path))

(* One round: every name that collides grows by a component if it can. *)
MutGrow(presented, levels) ==
    [i \in DOMAIN levels |->
        IF \E j \in 1 .. i - 1 :
               NameAtLevel(presented[j], levels[j]) = NameAtLevel(presented[i], levels[i])
        THEN levels[i] + 1 ELSE levels[i]]

Grow(presented, levels) ==
    LET name(i) == NameAtLevel(presented[i], levels[i])
    IN  [i \in DOMAIN levels |->
            IF (\E j \in DOMAIN levels \ {i} : name(j) = name(i)) /\ levels[i] < Len(presented[i])
            THEN levels[i] + 1 ELSE levels[i]]

(* The levels after each round.  A round in which nothing grows is the     *)
(* last in the code, and so would be every one after it.                   *)
Levels(presented) ==
    LET levels[n \in 0 .. MaxLevels - 1] ==
            IF n = 0 THEN [i \in DOMAIN presented |-> 1] ELSE Grow(presented, levels[n - 1])
    IN  levels

(* unique_display_names *)
UniqueDisplayNames(paths) ==
    LET presented == [i \in DOMAIN paths |-> PresentationPath(paths[i])]
        levels    == Levels(presented)
    IN  [i \in DOMAIN paths |-> NameAtLevel(presented[i], levels[MaxLevels - 1][i])]
=============================================================================
