----------------------------- MODULE Blacklist -----------------------------
(***************************************************************************)
(* The blacklist of internal/admin as internal/link reads it.  Creating a  *)
(* link checks the host of its target and then every parent domain, one    *)
(* SELECT at a time, while administrators add and remove entries; a read   *)
(* that fails counts as "not listed".  A redirect reads the exact host of  *)
(* the stored target only.                                                 *)
(***************************************************************************)
EXTENDS Naturals, Sequences, SequencesExt

CONSTANTS
    Domains,    \* domains that may be listed
    Hosts,      \* hosts of targets
    Walk,       \* per host, the host and its parents, longest first
    Checks,     \* checks of a target
    MaxEdits    \* bound: changes administrators make

ASSUME BlacklistAssumption ==
    /\ Hosts \subseteq Domains
    /\ Walk \in [Hosts -> Seq(Domains)]
    /\ \A h \in Hosts : Walk[h] # <<>> /\ Walk[h][1] = h
    /\ MaxEdits \in Nat

VARIABLES
    listed,     \* rows of blacklist_domains
    edits,      \* changes so far
    kind,       \* "create" or "redirect", fixed beforehand
    host,       \* the host of each target, fixed beforehand
    progress,   \* where each check is, or its verdict
    position,   \* the suffix that is read next
    failed,     \* history: checks one of whose reads failed
    throughout, \* history: entries listed ever since a check began
    sometime    \* history: entries listed at some moment of a check

BLvars == <<listed, edits, kind, host, progress, position, failed, throughout, sometime>>

-----------------------------------------------------------------------------

BLTypeOK ==
    /\ listed \subseteq Domains
    /\ edits \in 0..MaxEdits
    /\ kind \in [Checks -> {"create", "redirect"}]
    /\ host \in [Checks -> Hosts]
    /\ progress \in [Checks -> {"idle", "reading", "flagged", "clean"}]
    /\ position \in [Checks -> Nat]
    /\ \A c \in Checks : position[c] \in 1..Len(Walk[host[c]])
    /\ failed \subseteq Checks
    /\ throughout \in [Checks -> SUBSET Domains]
    /\ sometime \in [Checks -> SUBSET Domains]
    /\ \A c \in Checks : throughout[c] \subseteq sometime[c]

BLInit ==
    /\ listed \in SUBSET Domains
    /\ edits = 0
    /\ kind \in [Checks -> {"create", "redirect"}]
    /\ host \in [Checks -> Hosts]
    /\ progress = [c \in Checks |-> "idle"]
    /\ position = [c \in Checks |-> 1]
    /\ failed = {}
    /\ throughout = [c \in Checks |-> {}]
    /\ sometime = [c \in Checks |-> {}]

Advance(c, stage) == progress' = [progress EXCEPT ![c] = stage]

-----------------------------------------------------------------------------

\* validateTargetURL or isTargetBlocked reaches the blacklist.
Begin(c) ==
    /\ progress[c] = "idle"
    /\ Advance(c, "reading")
    /\ throughout' = [throughout EXCEPT ![c] = listed]
    /\ sometime' = [sometime EXCEPT ![c] = listed]
    /\ UNCHANGED <<listed, edits, kind, host, position, failed>>

\* Mutant: the walk stops before the last suffix.
LastButOne(c) == kind[c] = "redirect" \/ position[c] + 1 >= Len(Walk[host[c]])

\* Nothing is left to read: the redirect reads one suffix, the walk all of them.
LastRead(c) == kind[c] = "redirect" \/ position[c] = Len(Walk[host[c]])

\* The verdict, or the next suffix, after a read that did not find its entry.
Proceed(c) ==
    IF LastRead(c)
    THEN Advance(c, "clean") /\ UNCHANGED position
    ELSE position' = [position EXCEPT ![c] = @ + 1] /\ UNCHANGED progress

\* IsDomainBlacklisted: one SELECT; an error is no entry.
Read(c) ==
    /\ progress[c] = "reading"
    /\ \/ /\ Walk[host[c]][position[c]] \in listed
          /\ Advance(c, "flagged")
          /\ UNCHANGED <<position, failed>>
       \/ /\ Walk[host[c]][position[c]] \notin listed
          /\ Proceed(c)
          /\ UNCHANGED failed
       \/ failed' = failed \cup {c} /\ Proceed(c)
    /\ UNCHANGED <<listed, edits, kind, host, throughout, sometime>>

\* A statement of an administrator that takes effect.
Edit(domains) ==
    /\ edits < MaxEdits
    /\ listed' = domains
    /\ edits' = edits + 1
    /\ throughout' = [c \in Checks |->
                        IF progress[c] = "reading" THEN throughout[c] \cap domains ELSE throughout[c]]
    /\ sometime' = [c \in Checks |->
                      IF progress[c] = "reading" THEN sometime[c] \cup domains ELSE sometime[c]]
    /\ UNCHANGED <<kind, host, progress, position, failed>>

\* POST: INSERT ... ON CONFLICT DO UPDATE SET reason.  An empty domain, or an error,
\* changes nothing.
AddBlacklistDomain(d) == Edit(listed \cup {d})

\* DELETE: of an entry, or of none and with the same answer.
RemoveBlacklistDomain(d) == Edit(listed \ {d})

BLNext ==
    \/ \E c \in Checks : Begin(c) \/ Read(c)
    \/ \E d \in Domains : AddBlacklistDomain(d) \/ RemoveBlacklistDomain(d)

BLSpec == BLInit /\ [][BLNext]_BLvars

-----------------------------------------------------------------------------

\* What a check has to look for.
Covering(c) == IF kind[c] = "redirect" THEN {host[c]} ELSE ToSet(Walk[host[c]])

\* The state has its type.  A target is accepted over an entry that covered it during the
\* whole check only if a read of the database failed: edits of other entries cannot make
\* the walk miss it.  A target is refused only for an entry that covered it at some
\* moment of the check, never for a failing database (service.go:66-81, 256-268,
\* repository.go:64-68).
VerdictsAreRight ==
    /\ BLTypeOK
    /\ \A c \in Checks :
        /\ progress[c] = "clean" /\ c \notin failed => throughout[c] \cap Covering(c) = {}
        /\ progress[c] = "flagged" => sometime[c] \cap Covering(c) # {}
=============================================================================
