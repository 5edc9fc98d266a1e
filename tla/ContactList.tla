------------------------------ MODULE ContactList ------------------------------
(***************************************************************************)
(* The contact list: the roster of each account (client_rosterItemUpdated, *)
(* client_rosterItemRemoved and dj_remove of src/psiaccount.cpp), the      *)
(* contacts made from it (src/psicontact.cpp), the updater that collects   *)
(* what has changed (src/contactlistmodelupdater.cpp) and the tree of      *)
(* groups it brings up to date (src/contactlistmodel.cpp and its groups),  *)
(* as the main window sets it up: with accounts and with flat groups.      *)
(*                                                                         *)
(* A contact that goes is taken out of the tree at once.  Whatever else    *)
(* changes is noted, and put into the tree when a timer commits the notes, *)
(* unless the user is editing a name: then the notes wait.                 *)
(***************************************************************************)
EXTENDS Integers, FiniteSets, SequencesExt

CONSTANTS
    Account, Contact,
    AccountOf,      \* whose roster a contact is in
    Transport,      \* contacts that are transports
    Group,          \* names of groups
    NoName,         \* the empty name; as a place, the account itself
    Absent,         \* no roster entry and no contact
    Saved,          \* rosters that may be in the profile when the program starts
    MaxChanges      \* presences, pushes and operations of the user (bound)

Special == {"General", "NotInList", "Transports"}
Place   == Group \cup Special \cup {NoName}
Item    == Contact \cup Account     \* an account stands for its self contact
Entry   == [inList : BOOLEAN, groups : SUBSET (Group \cup {NoName})]

ASSUME ConstantsAssumption ==
    /\ AccountOf \in [Contact -> Account]
    /\ Transport \subseteq Contact
    /\ Contact \cap Account = {} /\ Group \cap Special = {} /\ NoName \notin Group \cup Special
    /\ Absent \notin Entry
    /\ Saved \subseteq [Contact -> {e \in Entry : e.inList} \cup {Absent}]
    /\ MaxChanges \in Nat

VARIABLES
    phase,          \* whether an account is disabled, offline or online
    roster,         \* the entry from which a contact is made
    status,         \* status_ of a contact: online?
    oldStatus,      \* oldStatus_, which follows after five seconds
    waiting,        \* operationQueue_: what is noted of a contact
    committing,     \* commitTimer_ runs
    editing,        \* updates are disabled
    tree,           \* the groups, their contacts, timers and flags
    asked,          \* the contact and the place a removal dialog is about
    changes

roles == <<phase, roster, status, oldStatus>>
vars  == <<roles, waiting, committing, editing, tree, asked, changes>>

ContactsOf(a)  == {c \in Contact : AccountOf[c] = a}
Enabled(i)     == phase[IF i \in Account THEN i ELSE AccountOf[i]] # "disabled"
Exists(c)      == roster[c] # Absent
Monitored(i)   == Enabled(i) /\ (i \in Contact => Exists(i))

\* PsiContact::isOnline, PsiContact::isEditable
isOnline(c)   == ~roster[c].inList \/ status[c] \/ oldStatus[c]
isEditable(c) == phase[AccountOf[c]] = "online" /\ Exists(c) /\ roster[c].inList

\* PsiContact::groups: never empty.
Names(c) == IF roster[c].inList /\ roster[c].groups # {} THEN roster[c].groups ELSE {NoName}

\* specialGroupFor: the special group a contact belongs to, if any.
SpecialFor(c) ==
    IF ~roster[c].inList THEN {"NotInList"}
    ELSE IF c \in Transport THEN {"Transports"}
    ELSE IF roster[c].groups = {} THEN {"General"}
    ELSE {}

Init ==
    /\ phase = [a \in Account |-> "offline"]
    /\ roster \in Saved
    /\ status = [c \in Contact |-> FALSE] /\ oldStatus = [c \in Contact |-> FALSE]
    /\ waiting = [i \in Item |-> IF i \in Contact /\ roster[i] = Absent THEN {} ELSE {"Add"}]
    /\ committing = TRUE
    /\ editing = FALSE
    /\ tree = [accounts |-> {}, groups |-> [a \in Account |-> {}],
               at |-> [c \in Contact |-> {}], recount |-> {}, online |-> {}]
    /\ asked = <<>>
    /\ changes = 0
--------------------------------------------------------------------------------
(* The tree.  Its nodes are accounts; the groups in them, each made with   *)
(* its first contact; and at[c], the groups that show contact c.  recount  *)
(* and online hold the groups whose timer runs and whose flag is set.      *)

In(t, a, g) == {c \in ContactsOf(a) : g \in t.at[c]}

\* The timers and flags of groups that are gone go with them.
Kept(pairs, a, groups) == {p \in pairs : p[1] = a => p[2] \in groups}

\* addContact, of the root, the account and the groups.
Added(t, c) ==
    LET a  == AccountOf[c]
        to == IF SpecialFor(c) # {} THEN SpecialFor(c) ELSE Names(c)
    IN  [t EXCEPT !.accounts = @ \cup {a},
                  !.groups[a] = @ \cup (to \ {NoName}),
                  !.at[c] = @ \cup to,
                  !.recount = @ \cup ({a} \X ((to \ t.at[c]) \ {NoName}))]

\* contactUpdated, of the groups that show the contact.
Touched(t, c) == [t EXCEPT !.recount = @ \cup ({AccountOf[c]} \X (t.at[c] \ {NoName}))]

\* Mutant of Regrouped: a group that the contact has left stays, though empty.
RegroupedOnly(t, c, names, special) ==
    LET a  == AccountOf[c]
        to == special \cup (names \cap t.groups[a])
                      \cup (IF special = {} THEN names ELSE t.at[c] \cap {NoName})
    IN  IF a \in t.accounts
        THEN [t EXCEPT !.groups[a] = @ \cup (to \ {NoName}),
                       !.at[c] = to,
                       !.recount = @ \cup ({a} \X ((to \ t.at[c]) \cup (t.at[c] \ to)))]
        ELSE t

\* contactGroupsChanged: the contact enters and leaves groups that are there;
\* groups left empty go; and then, unless it has a special group, it is put
\* into new groups and into the account itself, or taken out of that.
Regrouped(t, c, names, special) ==
    LET a     == AccountOf[c]
        to    == special \cup (names \cap t.groups[a])
                         \cup (IF special = {} THEN names ELSE t.at[c] \cap {NoName})
        left  == {g \in t.groups[a] \ to : In(t, a, g) \subseteq {c}}
        stay  == (t.groups[a] \ left) \cup (to \ {NoName})
        moved == (to \ t.at[c]) \cup (t.at[c] \ to)
    IN  IF a \in t.accounts
        THEN [t EXCEPT !.groups[a] = stay,
                       !.at[c] = to,
                       !.recount = Kept(@ \cup ({a} \X (moved \cup Special)), a, stay),
                       !.online = Kept(@, a, stay)]
        ELSE t

\* removeContact for a contact that is being destroyed.
Removed(t, c) == Regrouped(t, c, {}, {})

\* accountUpdated of an account that has been disabled: clearGroup, removeAccount.
Cleared(t, a) ==
    [t EXCEPT !.accounts = @ \ {a},
              !.groups[a] = {},
              !.at = [c \in Contact |-> IF AccountOf[c] = a THEN {} ELSE t.at[c]],
              !.recount = Kept(@, a, {}),
              !.online = Kept(@, a, {})]
--------------------------------------------------------------------------------
(* The updater *)

\* Mutant of Committed: a contact that was updated is not regrouped.
CommittedOnce(t, c, noted) ==
    IF "Add" \in noted THEN Added(t, c)
    ELSE IF "Update" \in noted THEN Touched(t, c)
    ELSE IF "Groups" \in noted THEN Regrouped(t, c, Names(c), SpecialFor(c)) ELSE t

\* What a commit does for one contact; if it is to be added, that is all.
Committed(t, c, noted) ==
    LET u == IF "Update" \in noted THEN Touched(t, c) ELSE t
    IN  IF "Add" \in noted THEN Added(t, c)
        ELSE IF "Groups" \in noted THEN Regrouped(u, c, Names(c), SpecialFor(c)) ELSE u

\* commit, in any order of the contacts: the trees it may leave.  A self contact is
\* added to its account's node and makes it; nothing else noted of it has an effect.
CommittedAll(t, noted) ==
    LET start == [t EXCEPT !.accounts = @ \cup {a \in Account : "Add" \in noted[a]}]
        InTurn(order) == FoldLeft(LAMBDA trees, c : {Committed(u, c, noted[c]) : u \in trees},
                                  {start}, order)
    IN  UNION {InTurn(order) : order \in SetToSeqs({c \in Contact : noted[c] # {}})}

Commit ==
    /\ committing /\ ~editing
    /\ tree' \in CommittedAll(tree, waiting)
    /\ waiting' = [i \in Item |-> {}]
    /\ committing' = FALSE
    /\ UNCHANGED <<roles, editing, asked, changes>>

\* The timer ends in vain while updates are disabled.
CommitRefused ==
    /\ committing /\ editing
    /\ committing' = FALSE
    /\ UNCHANGED <<roles, waiting, editing, tree, asked, changes>>

\* updateOnlineContactsFlag, when the timer of group g of account a ends.
Recount(a, g) ==
    /\ <<a, g>> \in tree.recount
    /\ tree' = [tree EXCEPT !.recount = @ \ {<<a, g>>},
                            !.online = IF \E c \in In(tree, a, g) : isOnline(c)
                                       THEN @ \cup {<<a, g>>} ELSE @ \ {<<a, g>>}]
    /\ UNCHANGED <<roles, waiting, committing, editing, asked, changes>>

Change == changes < MaxChanges /\ changes' = changes + 1

\* setEditingIndex: setUpdatesEnabled.
BeginEdit ==
    /\ ~editing
    /\ Change
    /\ editing' = TRUE
    /\ UNCHANGED <<roles, waiting, committing, tree, asked>>

\* Mutant of EndEdit: the timer is not started.
EndEditQuietly ==
    /\ editing
    /\ editing' = FALSE
    /\ UNCHANGED <<roles, waiting, committing, tree, asked, changes>>

\* closeEditor
EndEdit ==
    /\ editing
    /\ editing' = FALSE
    /\ committing' = TRUE
    /\ UNCHANGED <<roles, waiting, tree, asked, changes>>
--------------------------------------------------------------------------------
(* Contacts *)

\* PsiContact::update for the contacts cs, whose entries and status are those of
\* roster' and status'; they are told of it, and are new where there was no entry.
\* While notifications are off, oldStatus_ follows at once, otherwise later.
Noted(cs) == [i \in Item |-> IF i \notin cs THEN waiting[i]
                             ELSE IF roster[i] = Absent THEN {"Add"}
                             ELSE waiting[i] \cup {"Update", "Groups"}]
Followed(cs) == [c \in Contact |-> IF c \in cs THEN status'[c] ELSE oldStatus[c]]
Update(cs) ==
    /\ waiting' = Noted(cs)
    /\ committing' = (committing \/ cs # {})
    /\ oldStatus' \in {oldStatus, Followed(cs)}

\* removeEntry: the contact is destroyed, and at once removed from the tree.
Destroy(c) ==
    /\ roster' = [roster EXCEPT ![c] = Absent]
    /\ status' = [status EXCEPT ![c] = FALSE]
    /\ oldStatus' = [oldStatus EXCEPT ![c] = FALSE]
    /\ waiting' = [waiting EXCEPT ![c] = {}]
    /\ tree' = Removed(tree, c)
    /\ UNCHANGED <<phase, committing, editing>>

\* The user or the server changes entries of contacts; actionGroupsSet does
\* nothing when the groups stay what they are.
SetEntries(new) ==
    /\ roster' = new
    /\ UNCHANGED <<phase, status, editing, tree>>
    /\ Update({c \in Contact : new[c] # roster[c]})

\* client_resourceAvailable, client_resourceUnavailable
Presence(c) ==
    /\ Change
    /\ phase[AccountOf[c]] = "online" /\ Exists(c)
    /\ status' = [status EXCEPT ![c] = ~@]
    /\ UNCHANGED <<phase, roster, editing, tree, asked>>
    /\ Update({c})

\* updateStatus, five seconds later.
StatusTimer(c) ==
    /\ oldStatus[c] # status[c]
    /\ oldStatus' = [oldStatus EXCEPT ![c] = status[c]]
    /\ waiting' = [waiting EXCEPT ![c] = IF Monitored(c) THEN @ \cup {"Update"} ELSE @]
    /\ committing' = (committing \/ Monitored(c))
    /\ UNCHANGED <<phase, roster, status, editing, tree, asked, changes>>

\* client_rosterItemUpdated
RosterItemUpdated(c, groups) ==
    /\ Change
    /\ phase[AccountOf[c]] = "online"
    /\ roster' = [roster EXCEPT ![c] = [inList |-> TRUE, groups |-> groups]]
    /\ UNCHANGED <<phase, status, editing, tree, asked>>
    /\ Update({c})

\* client_rosterItemRemoved, if events of the contact are queued.
RosterItemKept(c) ==
    /\ Change
    /\ isEditable(c)
    /\ roster' = [roster EXCEPT ![c].inList = FALSE]
    /\ status' = [status EXCEPT ![c] = FALSE]
    /\ UNCHANGED <<phase, editing, tree, asked>>
    /\ Update({c})

\* client_rosterItemRemoved otherwise.
RosterItemRemoved(c) ==
    /\ Change
    /\ isEditable(c)
    /\ Destroy(c)
    /\ UNCHANGED asked

\* addUserListItem: somebody who is not in the roster writes.
Stranger(c) ==
    /\ Change
    /\ phase[AccountOf[c]] = "online" /\ ~Exists(c)
    /\ roster' = [roster EXCEPT ![c] = [inList |-> FALSE, groups |-> {}]]
    /\ UNCHANGED <<phase, status, editing, tree, asked>>
    /\ Update({c})
--------------------------------------------------------------------------------
(* The user moves, renames and removes.  performContactOperations takes the *)
(* name of the account off each name it is given: a full name becomes the  *)
(* name of the group, and the bare name of a group becomes the empty name. *)

\* What is left of bare names; one empty name alone stands for no groups.
Stripped(names) == IF Cardinality(names) > 1 THEN {NoName} ELSE {}

\* processContactSetGroupName of the full name of a place; of a special group, none.
Bare(p) == IF p \in Group THEN p ELSE NoName

InGroups(c, groups) == [roster[c] EXCEPT !.groups = groups]

\* dropMimeData: a contact is dropped on place p of its account, or on a contact
\* there.  Moved or copied, it stays where it was in name, and the names are lost.
Drop(c, p) ==
    /\ Change /\ UNCHANGED asked
    /\ isEditable(c) /\ c \notin Transport /\ tree.at[c] # {}
    /\ \/ p \in tree.groups[AccountOf[c]] \cap (Group \cup {"General"})
       \/ p = NoName /\ In(tree, AccountOf[c], p) # {}
    /\ LET groups == IF p \in Group THEN {NoName, p}
                     ELSE IF p = "General" /\ Names(c) = {NoName} THEN {}
                     ELSE {NoName}
       IN  SetEntries([roster EXCEPT ![c] = InGroups(c, groups)])

\* setContactGroup, of the contact's menu
SetContactGroup(c, name) ==
    /\ Change /\ UNCHANGED asked
    /\ isEditable(c) /\ c \notin Transport
    /\ SetEntries([roster EXCEPT ![c] = InGroups(c, {name} \ {NoName})])

\* removeGroupWithoutContacts: actionGroupRemove for the contacts of a group.
RemoveGroupWithoutContacts(a, g) ==
    /\ Change /\ UNCHANGED asked
    /\ g \in tree.groups[a] /\ \E c \in In(tree, a, g) : isEditable(c)
    /\ SetEntries([c \in Contact |->
           IF c \in In(tree, a, g) THEN InGroups(c, roster[c].groups \ {g}) ELSE roster[c]])

\* commitData of the editor, and closeEditor: renameGroup moves the contacts that
\* can be edited, if the name is another; and what is noted is committed at once.
RenameGroup(a, g, new) ==
    /\ editing
    /\ Change /\ UNCHANGED asked
    /\ g \in tree.groups[a] \cap (Group \cup {"General"})
    /\ LET moved  == {c \in In(tree, a, g) : isEditable(c) /\ new # g}
           others == {c \in moved : Names(c) \ {Bare(g)} # {}}
       IN  roster' = [c \in Contact |->
               IF c \in moved THEN InGroups(c, {new} \cup (IF c \in others THEN {NoName} ELSE {}))
               ELSE roster[c]]
    /\ UNCHANGED <<phase, status>>
    /\ LET changed == {c \in Contact : roster'[c] # roster[c]}
       IN  /\ oldStatus' \in {oldStatus, Followed(changed)}
           /\ \E t \in {tree}, noted \in {Noted(changed)} : tree' \in CommittedAll(t, noted)'
    /\ waiting' = [i \in Item |-> {}]
    /\ editing' = FALSE
    /\ committing' = TRUE

\* removeSelection: a dialog asks whether to remove a contact selected at place p.
AskRemoval(c, p) ==
    /\ Change
    /\ asked = <<>> /\ p \in tree.at[c]
    /\ asked' = <<c, p>>
    /\ UNCHANGED <<roles, waiting, committing, editing, tree>>

\* Cancelled, or neither the contact is shown any more nor may it be removed.
DismissRemoval ==
    /\ asked # <<>>
    /\ asked' = <<>>
    /\ UNCHANGED <<roles, waiting, committing, editing, tree, changes>>

\* removeIndexes, when the dialog has been confirmed: the contact is taken from
\* the place it was selected at or, if it is not there any more, from all it is at.
ConfirmRemoval ==
    /\ asked # <<>>
    /\ asked' = <<>>
    /\ UNCHANGED changes
    /\ LET c    == asked[1]
           from == IF asked[2] \in tree.at[c] THEN {asked[2]} ELSE tree.at[c]
           kept == Names(c) \ {Bare(p) : p \in from}
       IN  /\ tree.at[c] # {}
           /\ isEditable(c) \/ ~roster[c].inList
           /\ \/ kept # {} /\ SetEntries([roster EXCEPT ![c] = InGroups(c, Stripped(kept))])
              \/ kept = {} /\ ~roster[c].inList /\ Destroy(c)
              \/ kept = {} /\ roster[c].inList
                   /\ UNCHANGED <<roles, waiting, committing, editing, tree>>
--------------------------------------------------------------------------------
(* Accounts *)

Login(a) ==
    /\ Change
    /\ phase[a] = "offline"
    /\ phase' = [phase EXCEPT ![a] = "online"]
    /\ UNCHANGED <<roster, status, oldStatus, waiting, committing, editing, tree, asked>>

\* simulateRosterOffline, with notifications off.
Offline(a) ==
    /\ status' = [c \in Contact |-> status[c] /\ AccountOf[c] # a]
    /\ oldStatus' = [c \in Contact |-> oldStatus[c] /\ AccountOf[c] # a]

Logout(a) ==
    /\ Change
    /\ phase[a] = "online"
    /\ phase' = [phase EXCEPT ![a] = "offline"]
    /\ Offline(a)
    /\ waiting' = [i \in Item |-> IF i \in ContactsOf(a) /\ Exists(i)
                                  THEN waiting[i] \cup {"Update", "Groups"} ELSE waiting[i]]
    /\ committing' = (committing \/ \E c \in ContactsOf(a) : Exists(c))
    /\ UNCHANGED <<roster, editing, tree, asked>>

\* setEnabled(false) logs out; removeEnabledAccount removes the contacts, and what
\* is noted of them; accountUpdated removes the account.
Disable(a) ==
    /\ Change
    /\ phase[a] # "disabled"
    /\ phase' = [phase EXCEPT ![a] = "disabled"]
    /\ Offline(a)
    /\ waiting' = [i \in Item |-> IF i = a \/ i \in ContactsOf(a) THEN {} ELSE waiting[i]]
    /\ tree' = Cleared(tree, a)
    /\ UNCHANGED <<roster, committing, editing, asked>>

\* addEnabledAccount
Enable(a) ==
    /\ Change
    /\ phase[a] = "disabled"
    /\ phase' = [phase EXCEPT ![a] = "offline"]
    /\ waiting' = [i \in Item |-> IF i = a \/ (i \in ContactsOf(a) /\ Exists(i))
                                  THEN {"Add"} ELSE waiting[i]]
    /\ committing' = TRUE
    /\ UNCHANGED <<roster, status, oldStatus, editing, tree, asked>>
--------------------------------------------------------------------------------
Next ==
    \/ Commit \/ CommitRefused \/ BeginEdit \/ EndEdit
    \/ \E a \in Account :
          \/ Login(a) \/ Logout(a) \/ Disable(a) \/ Enable(a)
          \/ \E g \in Group \cup Special : Recount(a, g)
          \/ \E g \in Group : RemoveGroupWithoutContacts(a, g)
          \/ \E g \in Group \cup Special, new \in Group : RenameGroup(a, g, new)
    \/ \E c \in Contact :
          \/ Presence(c) \/ StatusTimer(c)
          \/ RosterItemKept(c) \/ RosterItemRemoved(c) \/ Stranger(c)
          \/ \E groups \in SUBSET Group : RosterItemUpdated(c, groups)
          \/ \E p \in Place : Drop(c, p) \/ AskRemoval(c, p)
          \/ \E name \in Group \cup {NoName} : SetContactGroup(c, name)
    \/ ConfirmRemoval \/ DismissRemoval

Spec == Init /\ [][Next]_vars

\* Timers that run end: commitTimer_, in a commit or in vain, and those of groups
\* and contacts.  The user, the server and the editor owe nothing.
FairSpec ==
    /\ Spec
    /\ WF_committing(committing /\ committing' = FALSE)
    /\ WF_vars(\E a \in Account, g \in Group \cup Special : Recount(a, g))
    /\ WF_vars(\E c \in Contact : StatusTimer(c))
--------------------------------------------------------------------------------
(* Properties *)

TypeOK ==
    /\ phase \in [Account -> {"disabled", "offline", "online"}]
    /\ roster \in [Contact -> Entry \cup {Absent}]
    /\ status \in [Contact -> BOOLEAN] /\ oldStatus \in [Contact -> BOOLEAN]
    /\ waiting \in [Item -> SUBSET {"Add", "Update", "Groups"}]
    /\ committing \in BOOLEAN /\ editing \in BOOLEAN
    /\ tree.accounts \subseteq Account
    /\ tree.groups \in [Account -> SUBSET (Group \cup Special)]
    /\ tree.at \in [Contact -> SUBSET Place]
    /\ tree.recount \cup tree.online \subseteq Account \X (Group \cup Special)
    /\ asked = <<>> \/ asked \in Contact \X Place
    /\ changes \in 0 .. MaxChanges

\* The tree hangs together through commits, removals that happen between them,
\* and accounts that are disabled: each group has a contact and each contact of
\* a group has its group; timers and flags are of groups there are; and nothing
\* is shown, or noted, of contacts that are gone or whose account is disabled.
ListInvariant ==
    /\ TypeOK
    /\ \A a \in Account :
          /\ tree.groups[a] = UNION {tree.at[c] : c \in ContactsOf(a)} \ {NoName}
          /\ tree.groups[a] # {} => a \in tree.accounts
          /\ a \in tree.accounts => Enabled(a)
    /\ \A p \in tree.recount \cup tree.online : p[2] \in tree.groups[p[1]]
    /\ \A i \in Item : waiting[i] # {} => Monitored(i)
    /\ \A c \in Contact : tree.at[c] # {} => Monitored(c) /\ "Add" \notin waiting[c]

\* A contact of which nothing is noted is shown in each of its groups and no
\* other, whatever changed and in whatever order it was committed.  One that has
\* a special group is shown there; it may besides be shown in the account itself,
\* where it was before, and a transport in groups that its roster entry names.
ShownAtRest ==
    \A c \in Contact :
        (Monitored(c) /\ waiting[c] = {}) =>
            IF SpecialFor(c) = {} THEN tree.at[c] = Names(c)
            ELSE /\ SpecialFor(c) \subseteq tree.at[c]
                 /\ tree.at[c] \subseteq SpecialFor(c) \cup {NoName} \cup Names(c)

\* With offline contacts hidden, a group is hidden exactly when it has no contact
\* to show, once it has counted and nothing is noted of its contacts.
VisibleAtRest ==
    \A a \in Account : \A g \in tree.groups[a] :
        (<<a, g>> \notin tree.recount /\ \A c \in In(tree, a, g) : waiting[c] = {}) =>
            (<<a, g>> \in tree.online <=> \E c \in In(tree, a, g) : isOnline(c))

\* What is shown, when nothing is noted, is what there is.
AtRest == ShownAtRest /\ VisibleAtRest

\* What has happened is shown in the end, or a name is being edited: a commit
\* refused while it was edited is made up for.
Settled == tree.recount = {} /\ \A i \in Item : waiting[i] = {}
ListSettles == []<>(Settled \/ editing)

\* contactlistmodel.cpp, addContact rules 1 to 3 in contactlistgroup.cpp: a contact
\* is in the General group, in another special one or in the groups it names.
\* Refuted by TLC: a contact once shown in its account itself stays there.
ShownOnce ==
    \A c \in Contact :
        (Monitored(c) /\ waiting[c] = {} /\ SpecialFor(c) # {}) => tree.at[c] = SpecialFor(c)

\* contactlistdragmodel.cpp, contactsLostByRemove: "Contacts that will not be
\* reported by this function will only lose some groups they belong to."  Here:
\* removing a contact from one of its groups leaves it in the others.
\* Refuted by TLC: the others become the empty name.
OnlyNamedGroupIsLost ==
    [][\A c \in Contact :
          (ConfirmRemoval /\ asked[1] = c /\ asked[2] \in tree.at[c] \cap Group /\ Exists(c)')
              => (roster[c].groups \ {asked[2]} \subseteq roster'[c].groups)]_vars
================================================================================
