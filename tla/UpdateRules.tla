---------------------------- MODULE UpdateRules ----------------------------
(***************************************************************************)
(* Which release is offered as an update (update/version.rs, check.rs) and *)
(* when the application looks for one by itself (schedule.rs).             *)
(***************************************************************************)
EXTENDS Naturals, Integers, Sequences

CONSTANTS
    Interval,   \* AUTO_CHECK_INTERVAL_SECS
    Tags,       \* versions that tags name
    Assets      \* what a release may have besides its source

\* A version; of a prerelease only that it is one counts.
Version == [major : Nat, minor : Nat, patch : Nat, pre : BOOLEAN]

\* A tag that cannot be parsed.
Unparsable == [none |-> TRUE]

\* Version::cmp.
Less(v, w) ==
    \/ v.major < w.major
    \/ v.major = w.major /\ v.minor < w.minor
    \/ v.major = w.major /\ v.minor = w.minor /\ v.patch < w.patch
    \/ /\ v.major = w.major /\ v.minor = w.minor /\ v.patch = w.patch
       /\ v.pre /\ ~w.pre

\* is_upgrade_from.
IsUpgradeFrom(candidate, current) == ~candidate.pre /\ Less(current, candidate)

Release == [tag : Tags \cup {Unparsable}, draft : BOOLEAN, prerelease : BOOLEAN,
            assets : SUBSET Assets]

\* The releases that count, by both what GitHub says and what the tag says.
Candidates(releases) ==
    {i \in 1..Len(releases) :
        LET r == releases[i]
        IN  ~r.draft /\ ~r.prerelease /\ r.tag # Unparsable /\ ~r.tag.pre}

\* max_by: of equal ones the last.
Newest(releases) ==
    CHOOSE i \in Candidates(releases) :
        \A j \in Candidates(releases) :
            /\ ~Less(releases[i].tag, releases[j].tag)
            /\ j > i => Less(releases[j].tag, releases[i].tag)

UpToDate == [kind |-> "up_to_date"]

\* parse_releases, evaluate_release.
ParseReleases(releases, current) ==
    IF Candidates(releases) = {} THEN UpToDate
    ELSE LET release == releases[Newest(releases)]
         IN  IF ~IsUpgradeFrom(release.tag, current) THEN UpToDate
             ELSE [kind |-> IF {"update", "checksum"} \subseteq release.assets
                            THEN "available" ELSE "unsupported",
                   version |-> release.tag]

\* should_auto_check.  A clock that went back counts as no time passed.
ShouldAutoCheck(enabled, last, now) == enabled /\ (last <= 0 \/ now - last >= Interval)

\* should_update_last_check, with what handle_update_check_result sets.
LastCheck(last, now, outcome) == IF outcome = "network" THEN last ELSE now

-----------------------------------------------------------------------------
\* Only a released full version above the current one is offered, and the highest; where
\* there is one, the user hears of it, if only that it cannot be installed.
OffersHighest(releases, current) ==
    LET answer == ParseReleases(releases, current)
        above == {i \in Candidates(releases) : Less(current, releases[i].tag)}
    IN  /\ answer = UpToDate <=> above = {}
        /\ answer # UpToDate =>
            /\ \E i \in above : releases[i].tag = answer.version
            /\ \A i \in above : ~Less(answer.version, releases[i].tag)
            /\ answer.kind = "available" =>
                \E i \in above : {"update", "checksum"} \subseteq releases[i].assets

\* After a check that reached the server, a later start within the interval makes none; after
\* one that did not, the next start may.
ChecksOncePerInterval(last, now, outcome, later) ==
    (now > 0 /\ ShouldAutoCheck(TRUE, last, now)) =>
        (ShouldAutoCheck(TRUE, LastCheck(last, now, outcome), later) <=>
            \/ outcome = "network" /\ ShouldAutoCheck(TRUE, last, later)
            \/ outcome # "network" /\ later - now >= Interval)
=============================================================================
