----------------------------- MODULE ReferenceData -----------------------------
(***************************************************************************)
(* The advisory database between its refreshes (webapp/advisories.py,      *)
(* webapp/reference_data.py): the daily job and the operator's button each *)
(* read what is stored, fetch the feed, merge, judge and write, one round  *)
(* trip at a time; a redeployment may ship a larger bundled database at    *)
(* any moment, and scans read through it all.                              *)
(***************************************************************************)
EXTENDS FiniteSets, Naturals

CONSTANTS
    Advisories,     \* records of the feed and of the bundled file
    Unbounded,      \* a record without introduced and without fixed
    Refreshers,     \* refreshes that may run side by side
    Buttons,        \* those the operator triggers
    MaxImages       \* bound: redeployments

ASSUME ReferenceDataAssumption ==
    /\ Unbounded \notin Advisories
    /\ Buttons \subseteq Refreshers
    /\ MaxImages \in Nat

VARIABLES
    bundled,        \* advisories of the running image
    database,       \* ADVISORY_DOCUMENT_KEY, a set in a set; {} without
    feed,           \* what the source would answer
    refresh,        \* where each refresh stands
    previous,       \* what it read, with the bundled floor
    fetched,        \* what it merged
    cooling,        \* the cooldown key of the operator's button
    attempt,        \* ADVISORY_ATTEMPT_KEY
    images

referenceVars == <<bundled, database, feed, refresh, previous, fetched, cooling,
                   attempt, images>>

RefreshOutcomes == {"failed", "rejected", "unchanged", "updated"}

ReferenceTypeOK ==
    /\ bundled \subseteq Advisories
    /\ database \in SUBSET SUBSET (Advisories \cup {Unbounded})
    /\ feed \subseteq Advisories \cup {Unbounded}
    /\ refresh \in [Refreshers ->
                     {"idle", "claim", "read", "fetch", "judge"} \cup RefreshOutcomes]
    /\ previous \in [Refreshers -> SUBSET Advisories]
    /\ fetched \in [Refreshers -> SUBSET (Advisories \cup {Unbounded})]
    /\ cooling \in BOOLEAN
    /\ attempt \in RefreshOutcomes \cup {"none"}
    /\ images \in 0..MaxImages

ReferenceInit ==
    /\ bundled = {}
    /\ database = {}
    /\ feed = {}
    /\ refresh = [r \in Refreshers |-> "idle"]
    /\ previous = [r \in Refreshers |-> {}]
    /\ fetched = [r \in Refreshers |-> {}]
    /\ cooling = FALSE
    /\ attempt = "none"
    /\ images = 0

-----------------------------------------------------------------------------
(* _is_usable: one unbounded record condemns the document.                  *)
Usable(document) == Unbounded \notin document

(* _with_bundled_floor, through merge_document: it only ever adds.          *)
WithFloor(document) == document \cup bundled

(* Mutant: the floor is laid when the document is written, not when read.   *)
StoredAsWritten ==
    IF \E document \in database : Usable(document) THEN UNION database ELSE bundled

(* stored_database: what a scan is rated against.                           *)
StoredDatabase ==
    IF \E document \in database : Usable(document) THEN WithFloor(UNION database)
    ELSE bundled

-----------------------------------------------------------------------------
(* run_action: the cooldown is looked at, then claimed with a plain SET.    *)
LookAtCooldown(r) ==
    /\ r \in Buttons
    /\ refresh[r] = "idle"
    /\ ~ cooling
    /\ refresh' = [refresh EXCEPT ![r] = "claim"]
    /\ UNCHANGED <<bundled, database, feed, previous, fetched, cooling, attempt, images>>

ClaimCooldown(r) ==
    /\ refresh[r] = "claim"
    /\ refresh' = [refresh EXCEPT ![r] = "read"]
    /\ cooling' = TRUE
    /\ UNCHANGED <<bundled, database, feed, previous, fetched, attempt, images>>

CooldownEnds ==
    /\ cooling
    /\ cooling' = FALSE
    /\ UNCHANGED <<bundled, database, feed, refresh, previous, fetched, attempt, images>>

(* The cron job reads at once, a press when it holds the cooldown.          *)
ReadPrevious(r) ==
    /\ refresh[r] = (IF r \in Buttons THEN "read" ELSE "idle")
    /\ refresh' = [refresh EXCEPT ![r] = "fetch"]
    /\ previous' = [previous EXCEPT ![r] = WithFloor(UNION database)]
    /\ UNCHANGED <<bundled, database, feed, fetched, cooling, attempt, images>>

(* fetch_advisory_document merges the answer into what was read.            *)
FetchFeed(r) ==
    /\ refresh[r] = "fetch"
    /\ refresh' = [refresh EXCEPT ![r] = "judge"]
    /\ fetched' = [fetched EXCEPT ![r] = previous[r] \cup feed]
    /\ UNCHANGED <<bundled, database, feed, previous, cooling, attempt, images>>

Ends(r, how) ==
    /\ refresh' = [refresh EXCEPT ![r] = how]
    /\ previous' = [previous EXCEPT ![r] = {}]
    /\ fetched' = [fetched EXCEPT ![r] = {}]

FetchFails(r) ==
    /\ refresh[r] = "fetch"
    /\ Ends(r, "failed")
    /\ UNCHANGED <<bundled, database, feed, cooling, attempt, images>>

RejectFetched(r) ==
    /\ refresh[r] = "judge"
    /\ ~ Usable(fetched[r])
    /\ Ends(r, "rejected")
    /\ UNCHANGED <<bundled, database, feed, cooling, attempt, images>>

(* write_document replaces the whole document, also an unchanged one.       *)
WriteFetched(r) ==
    /\ refresh[r] = "judge"
    /\ Usable(fetched[r])
    /\ database' = {fetched[r]}
    /\ Ends(r, IF previous[r] = fetched[r] THEN "unchanged" ELSE "updated")
    /\ UNCHANGED <<bundled, feed, cooling, attempt, images>>

(* record_attempt.                                                          *)
Note(r) ==
    /\ refresh[r] \in RefreshOutcomes
    /\ attempt' = refresh[r]
    /\ refresh' = [refresh EXCEPT ![r] = "idle"]
    /\ UNCHANGED <<bundled, database, feed, previous, fetched, cooling, images>>

FeedChanges ==
    /\ \E records \in SUBSET (Advisories \cup {Unbounded}) : feed' = records
    /\ UNCHANGED <<bundled, database, refresh, previous, fetched, cooling, attempt, images>>

(* A new image: every process of the old one ends, the store stays.         *)
Redeploy ==
    /\ images < MaxImages
    /\ images' = images + 1
    /\ bundled' \in SUBSET Advisories
    /\ bundled \subseteq bundled'
    /\ refresh' = [r \in Refreshers |-> "idle"]
    /\ previous' = [r \in Refreshers |-> {}]
    /\ fetched' = [r \in Refreshers |-> {}]
    /\ UNCHANGED <<database, feed, cooling, attempt>>

Refresh(r) ==
    \/ LookAtCooldown(r)
    \/ ClaimCooldown(r)
    \/ ReadPrevious(r)
    \/ FetchFeed(r)
    \/ FetchFails(r)
    \/ RejectFetched(r)
    \/ WriteFetched(r)
    \/ Note(r)

ReferenceNext ==
    \/ \E r \in Refreshers : Refresh(r)
    \/ CooldownEnds
    \/ FeedChanges
    \/ Redeploy

ReferenceSpec == ReferenceInit /\ [][ReferenceNext]_referenceVars

-----------------------------------------------------------------------------
(* Whatever two refreshes, the feed and a redeployment do beside it, a scan *)
(* is rated against every advisory its own image ships - also when the      *)
(* document was written by an older image, or by a refresh that overtook    *)
(* another - and never against an unbounded one (advisories.py, "the floor  *)
(* moves").                                                                 *)
RatedAgainstTheFloor == bundled \subseteq StoredDatabase /\ Usable(StoredDatabase)

=============================================================================
