----------------------------- MODULE Threading -------------------------------
(***************************************************************************)
(* build_threads and flatten_threads_to_indices (tui/threading.rs): the    *)
(* messages of a mailbox, linked into a forest by the message ids they     *)
(* name, merged into threads and flattened into the rows of the list.      *)
(*                                                                         *)
(* A container is what the code keeps in its HashMap for one id: the       *)
(* message that claimed the id, a parent and a list of children.  Here     *)
(* every id has one from the start; one without a message, a parent and    *)
(* children adds nothing to the result.  The order in which the HashMap    *)
(* yields roots and groups is any order.                                   *)
(*                                                                         *)
(* An id is what normalize_id leaves of it, or one that the code makes up, *)
(* for a message without id and for a second message of one id. Made-up    *)
(* ids are numbers here, which no message names; in the code they are      *)
(* strings that a message could name. The topic of a message is its        *)
(* conversation id (X-GM-THRID) if it has one, else its normalized         *)
(* subject: root_thread_id and root_subject look at the same message, and  *)
(* a key made from the one never equals a key made from the other.         *)
(***************************************************************************)
EXTENDS SequencesExt, Integers, FiniteSets, Ordering

CONSTANTS
    Names,            \* message ids
    Topics,           \* conversation ids and normalized subjects
    ConversationIds,  \* the topics that are conversation ids
    NoSubject,        \* the empty subject
    Mailboxes,        \* the lists of messages threads are built from
    MaxChain          \* the 100 ids after which would_create_cycle gives up

(* id and in_reply_to are <<name>> or, when the header is missing, <<>>. *)
Mail == [id : {<<>>} \cup {<<n>> : n \in Names},
         references : Seq(Names),
         in_reply_to : {<<>>} \cup {<<n>> : n \in Names},
         topic : Topics,
         date : Nat \ {0}]

ASSUME ThreadingAssumption ==
    /\ IsFiniteSet(Names) /\ Names \cap Nat = {}
    /\ ConversationIds \subseteq Topics
    /\ NoSubject \in Topics \ ConversationIds
    /\ Mailboxes \subseteq Seq(Mail)
    /\ MaxChain \in Nat

VARIABLES
    mail,      \* the messages
    taken,     \* how many of them have a container
    chain,     \* the ids to link for the last of them, the oldest first
    at,        \* how many of these are linked: a window starts there
    entry,     \* entry[id]: the message of a container: <<index>> or <<>>
    parent,    \* parent[id]: <<id>> or <<>>
    children,  \* children[id]
    gathered,  \* the roots that are in a group
    groups,    \* groups[topic]: the rows of its roots, unsorted
    threads,   \* the result: one list of rows after the other
    done

linkVars == <<chain, at, entry, parent, children>>
vars == <<mail, taken, linkVars, gathered, groups, threads, done>>

(* The ids, and for a message without an id of its own a synthetic one,    *)
(* which is its index.                                                     *)
Ids == Names \cup DOMAIN mail

Row == Nat \X Nat

LinkTypes ==
    /\ mail \in Seq(Mail)
    /\ taken \in 0 .. Len(mail)
    /\ chain \in Seq(Ids)
    /\ at \in 1 .. Len(chain) + 1
    /\ entry \in [Ids -> {<<>>} \cup {<<i>> : i \in DOMAIN mail}]
    /\ parent \in [Ids -> {<<>>} \cup {<<id>> : id \in Ids}]
    /\ children \in [Ids -> Seq(Ids)]

ResultTypes ==
    /\ gathered \subseteq Ids
    /\ groups \in [Topics -> Seq(Row)]
    /\ threads \in Seq(Seq(Row))
    /\ done \in BOOLEAN

TypeOK == LinkTypes /\ ResultTypes

-----------------------------------------------------------------------------
Init ==
    /\ mail \in Mailboxes
    /\ taken = 0
    /\ chain = <<>> /\ at = 1
    /\ entry = [id \in Ids |-> <<>>]
    /\ parent = [id \in Ids |-> <<>>]
    /\ children = [id \in Ids |-> <<>>]
    /\ gathered = {}
    /\ groups = [t \in Topics |-> <<>>]
    /\ threads = <<>>
    /\ done = FALSE

ChainLinked == at >= Len(chain)

(* The references and, unless it is one of them, In-Reply-To. *)
ReferenceChain(m) ==
    IF m.in_reply_to # <<>> /\ m.in_reply_to[1] \notin Range(m.references)
    THEN m.references \o m.in_reply_to
    ELSE m.references

MutKeepsPosition(i, id) ==
    /\ taken' = i
    /\ entry' = [entry EXCEPT ![id] = <<i>>]
    /\ chain' = IF mail[i].id = <<>> THEN <<>> ELSE Append(ReferenceChain(mail[i]), id)
    /\ UNCHANGED <<mail, at, parent, children, gathered, groups, threads, done>>

(* Steps 1 and 2 of one message: its container, and the ids to link.  A    *)
(* message without an id gets one and is linked to nothing; one whose id   *)
(* another message has claimed gets one and is linked all the same.        *)
ClaimAs(i, id) ==
    /\ taken' = i
    /\ entry' = [entry EXCEPT ![id] = <<i>>]
    /\ chain' = IF mail[i].id = <<>> THEN <<>> ELSE Append(ReferenceChain(mail[i]), id)
    /\ at' = 1
    /\ UNCHANGED <<mail, parent, children, gathered, groups, threads, done>>

IsUnclaimed(m) == m.id # <<>> /\ entry[m.id[1]] = <<>>

MutTakesOver ==
    /\ ChainLinked /\ taken < Len(mail)
    /\ LET m == mail[taken + 1]
       IN  ClaimAs(taken + 1, IF m.id # <<>> THEN m.id[1] ELSE taken + 1)

Claim ==
    /\ ChainLinked /\ taken < Len(mail)
    /\ LET m == mail[taken + 1]
       IN  ClaimAs(taken + 1, IF IsUnclaimed(m) THEN m.id[1] ELSE taken + 1)

MutLooksOnlyAtTheParent(parent_id, child_id) == parent[parent_id] = <<child_id>>

(* would_create_cycle: the walk from parent_id to its root meets child_id, *)
(* or more than MaxChain ids.  Otherwise the ids it meets contain every    *)
(* parent of theirs, and not child_id.                                     *)
WouldCreateCycle(parent_id, child_id) ==
    ~ \E walk \in SUBSET Ids :
          /\ parent_id \in walk /\ child_id \notin walk
          /\ \A id \in walk : parent[id] # <<>> => parent[id][1] \in walk
          /\ Cardinality(walk) <= MaxChain

MutKeepsExistingParents(parent_id, child_id) ==
    \/ parent_id = child_id
    \/ WouldCreateCycle(parent_id, child_id)
    \/ parent[child_id] # <<>>

Refused(parent_id, child_id) ==
    parent_id = child_id \/ WouldCreateCycle(parent_id, child_id)

MutLeavesOldParent(parent_id, child_id) ==
    [children EXCEPT ![parent_id] =
        IF child_id \in Range(@) THEN @ ELSE Append(@, child_id)]

(* The children of every container once child_id hangs below parent_id.    *)
(* A child is in the list of its parent once (see LinksAgree), so that     *)
(* retain removes one.                                                     *)
Adopted(parent_id, child_id) ==
    [id \in Ids |->
        IF id = parent_id
        THEN IF child_id \in Range(children[id]) THEN children[id]
                                                 ELSE Append(children[id], child_id)
        ELSE IF parent[child_id] = <<id>> THEN RemoveFirst(children[id], child_id)
        ELSE children[id]]

(* One window of the chain: the child moves below the parent, away from    *)
(* the one it had.                                                         *)
Link ==
    /\ ~ChainLinked
    /\ at' = at + 1
    /\ IF Refused(chain[at], chain[at + 1])
       THEN UNCHANGED <<parent, children>>
       ELSE /\ parent' = [parent EXCEPT ![chain[at + 1]] = <<chain[at]>>]
            /\ children' = Adopted(chain[at], chain[at + 1])
    /\ UNCHANGED <<mail, taken, chain, entry, gathered, groups, threads, done>>

-----------------------------------------------------------------------------
(* Children without a message come first, the others by date. *)
DateOf(id) == IF entry[id] = <<>> THEN 0 ELSE mail[entry[id][1]].date

Indented(rows, by) == [n \in DOMAIN rows |-> <<rows[n][1], rows[n][2] + by>>]

MutIndent(id) == 1

Indent(id) == IF entry[id] = <<>> THEN 0 ELSE 1

(* flatten: a container's own row, and below it its children's, indented   *)
(* if it has a row.                                                        *)
Rows(root) ==
    LET flatten[id \in Ids] ==
            LET own    == IF entry[id] = <<>> THEN <<>> ELSE << <<entry[id][1], 0>> >>
                sorted == StableSort(children[id], LAMBDA a, b : DateOf(a) < DateOf(b))
            IN  own \o Indented(FlattenSeq([n \in DOMAIN sorted |-> flatten[sorted[n]]]),
                                Indent(id))
    IN  flatten[root]

(* root_thread_id and root_subject: the topic of the root's own message,   *)
(* else of its first child with one; they look no deeper.                  *)
TopicOf(root) ==
    LET first == SelectInSeq(children[root], LAMBDA id : entry[id] # <<>>)
    IN  IF entry[root] # <<>> THEN mail[entry[root][1]].topic
        ELSE IF first # 0 THEN mail[entry[children[root][first]][1]].topic
        ELSE NoSubject

Linked == taken = Len(mail) /\ ChainLinked

Roots == {id \in Ids : parent[id] = <<>> /\ Rows(id) # <<>>}

(* Step 5: the roots, in any order, join the group of their topic. *)
Gather ==
    /\ Linked /\ ~done
    /\ \E root \in Roots \ gathered :
           /\ gathered' = gathered \cup {root}
           /\ groups' = [groups EXCEPT ![TopicOf(root)] = @ \o Rows(root)]
    /\ UNCHANGED <<mail, taken, linkVars, threads, done>>

RowsByDate(rows) == StableSort(rows, LAMBDA a, b : mail[a[1]].date < mail[b[1]].date)

(* Of rows sorted by date. *)
Newest(rows) == mail[rows[Len(rows)][1]].date

(* The groups, each sorted by date, the one with the newest message first. *)
Finish ==
    /\ Linked /\ ~done
    /\ gathered = Roots
    /\ done' = TRUE
    /\ \E list \in SetToSeqs({RowsByDate(groups[t]) : t \in Topics} \ {<<>>}) :
           /\ \A i, j \in DOMAIN list : i < j => Newest(list[i]) >= Newest(list[j])
           /\ threads' = list
    /\ UNCHANGED <<mail, taken, linkVars, gathered, groups>>

Next == Claim \/ Link \/ Gather \/ Finish

Spec == Init /\ [][Next]_vars

-----------------------------------------------------------------------------
(* The two directions of a link agree: a container is among the children   *)
(* of its parent, once, and of no other container, however often it was    *)
(* moved (tui/threading.rs:135-152).                                       *)
LinksAgree ==
    \A id \in Ids :
        /\ IsInjective(children[id])
        /\ \A c \in Ids : c \in Range(children[id]) <=> parent[c] = <<id>>

(* The containers are a forest: no set of them has all its parents inside, *)
(* so that every walk up ends and flatten visits nothing twice, whatever   *)
(* the messages claim about each other (tui/threading.rs:244-264).         *)
Forest ==
    \A set \in (SUBSET Ids) \ {{}} :
        \E id \in set : parent[id] = <<>> \/ parent[id][1] \notin set

(* flatten_threads_to_indices *)
Listed == FlattenSeq(threads)

(* The threaded view shows every message of the mailbox exactly once, also *)
(* those without an id, with an id another message has, or with references *)
(* to each other (tui/threading.rs:70-81, 235-241).                        *)
EveryMessageOnce ==
    done => /\ Len(Listed) = Len(mail)
            /\ {Listed[n][1] : n \in DOMAIN Listed} = DOMAIN mail

(* The containers from one up to its root. *)
Ancestors(start) ==
    LET up[id \in Ids] ==
            {id} \cup IF parent[id] = <<>> THEN {} ELSE up[parent[id][1]]
    IN  up[start]

(* A row is indented once for every message above it in the conversation:  *)
(* messages that are missing from the mailbox take no column               *)
(* (tui/threading.rs:305-309).                                             *)
DepthCountsMessagesAbove ==
    \A n \in DOMAIN Listed :
        \A id \in Ids : entry[id] = <<Listed[n][1]>> =>
            Listed[n][2] =
                Cardinality({a \in Ancestors(id) \ {id} : entry[a] # <<>>})

(* The ids that one message names, so far as they are linked, are in one   *)
(* tree: moving a container to a new parent never tears apart what the     *)
(* same message joined.  Only a chain too long to walk could               *)
(* (tui/threading.rs:118-153).                                             *)
ChainIsOneTree ==
    Cardinality(Ids) <= MaxChain =>
        \A k \in 1 .. at - 1 :
            k < Len(chain) => Ancestors(chain[k]) \cap Ancestors(chain[k + 1]) # {}

-----------------------------------------------------------------------------
(* "Groups messages into threads using the JWZ algorithm (...), or the     *)
(* mailbox's own conversation id when it has one." (README.md:43): the     *)
(* messages of one conversation are in one thread.                         *)
ConversationIsOneThread ==
    \A s, t \in DOMAIN threads :
        \A m \in DOMAIN threads[s], n \in DOMAIN threads[t] :
            /\ mail[threads[s][m][1]].topic \in ConversationIds
            /\ mail[threads[s][m][1]].topic = mail[threads[t][n][1]].topic
            => s = t
=============================================================================
