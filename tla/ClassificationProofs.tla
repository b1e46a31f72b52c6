------------------------ MODULE ClassificationProofs ------------------------
(***************************************************************************)
(* Proofs about ClassificationRegistry, for any listings and pages, any    *)
(* retry delays and limits, and any number of faults.                      *)
(***************************************************************************)
EXTENDS ClassificationRegistry, FiniteSetTheorems, TLAPS

Registries == [Listing -> Entries \cup {NoEntry}]

\* What a campaign has asked for is not due again before it ends: it is listed
\* and audited, and it has a class or waits for a later day or the next audit.
Settled(i) ==
  LET e == registry[i] IN
  /\ e \in Entries /\ e.status # "inactive" /\ e.symbol = listed[i] /\ e.audited
  /\ (e.class # None /\ e.status = "classified") \/ e.retry > 0 \/ e.deferred

\* Only a quarterly campaign has a second batch.
CampaignInvariant ==
  campaign # Idle =>
    /\ campaign.again = {} /\ campaign.asked \subseteq campaign.snapshot
    /\ campaign.snapshot \subseteq Trading
    /\ campaign.left > 0 =>
         /\ campaign.mode # "quarterly" => campaign.asked = {} /\ campaign.left = 1
         /\ \A i \in campaign.asked : Settled(i)

ClassificationInvariant == TypeOK /\ CampaignInvariant /\ ArtifactFollowsRegistry

-----------------------------------------------------------------------------
(* The entries a batch and a build make.                                   *)

LEMMA EntriesAreKnown == \A e \in Entries : e # NoEntry
<1> SUFFICES ASSUME NEW e \in Entries, e = NoEntry PROVE FALSE
  OBVIOUS
<1>1. e.status # "none"
  BY DEF Entries
<1> QED BY <1>1 DEF NoEntry

LEMMA CampaignsRun == \A c \in Campaigns : c # Idle
<1> SUFFICES ASSUME NEW c \in Campaigns, c = Idle PROVE FALSE
  OBVIOUS
<1>1. c.mode # "idle"
  BY DEF Campaigns, Modes
<1> QED BY <1>1 DEF Idle

LEMMA EntryIsTyped ==
  ASSUME ClassificationAssumptions, NEW status \in {"classified", "pending", "inactive"},
         NEW symbol \in Symbol, NEW class \in Class \cup {None}, NEW backlog \in BOOLEAN
  PROVE  Entry(status, symbol, class, backlog) \in Entries
<1>1. Budget \in Nat
  BY DEF Budget, ClassificationAssumptions
<1> QED BY <1>1 DEF Entry, Entries

LEMMA ReconciledIsTyped ==
  ASSUME ClassificationAssumptions, NEW snapshot, NEW r \in Registries, NEW i \in Listing,
         NEW backlog \in BOOLEAN, i \in snapshot => listed[i] \in Symbol
  PROVE  LET e == Reconciled(i, snapshot, r, backlog) IN
         /\ e \in Entries \cup {NoEntry}
         /\ i \in snapshot =>
              /\ e \in Entries /\ e.symbol = listed[i]
              /\ e.status = IF e.class # None THEN "classified" ELSE "pending"
              /\ r[i] # NoEntry =>
                   /\ e.class = r[i].class /\ e.retry = r[i].retry /\ e.deferred = r[i].deferred
                   /\ e.audited = r[i].audited
         /\ r[i] # NoEntry => e # NoEntry /\ e.class = r[i].class
<1> DEFINE e == Reconciled(i, snapshot, r, backlog)
<1>1. CASE i \in snapshot /\ r[i] = NoEntry
  <2>1. e = Entry("pending", listed[i], None, backlog)
    BY <1>1 DEF Reconciled
  <2>2. e \in Entries
    BY <1>1, <2>1, EntryIsTyped
  <2> QED BY <1>1, <2>1, <2>2, EntriesAreKnown DEF Entry
<1>2. CASE i \in snapshot /\ r[i] # NoEntry
  <2>1. r[i] \in Entries
    BY <1>2 DEF Registries
  <2>2. e = [r[i] EXCEPT !.symbol = listed[i], !.absent = 0,
                        !.status = IF r[i].class # None THEN "classified" ELSE "pending"]
    BY <1>2 DEF Reconciled
  <2>3. listed[i] \in Symbol
    BY <1>2
  <2> DEFINE status == IF r[i].class # None THEN "classified" ELSE "pending"
  <2>4. status \in {"classified", "pending", "inactive"} /\ 0 \in 0..2
    OBVIOUS
  <2>5. e = [r[i] EXCEPT !.symbol = listed[i], !.absent = 0, !.status = status]
    BY <2>2
  <2> HIDE DEF e, status
  <2>6. e \in Entries
    BY <2>1, <2>5, <2>4, <2>3 DEF Entries
  <2>7. e.class = r[i].class /\ e.symbol = listed[i] /\ e.retry = r[i].retry
        /\ e.deferred = r[i].deferred /\ e.audited = r[i].audited
        /\ e.status = IF r[i].class # None THEN "classified" ELSE "pending"
    BY <2>1, <2>2 DEF Entries
  <2> QED BY <1>2, <2>6, <2>7, EntriesAreKnown DEF e
<1>3. CASE i \notin snapshot /\ r[i] # NoEntry
  <2>1. r[i] \in Entries
    BY <1>3 DEF Registries
  <2>2. e = [r[i] EXCEPT !.absent = IF @ = 2 THEN 2 ELSE @ + 1,
                        !.status = IF r[i].absent >= 1 THEN "inactive" ELSE @]
    BY <1>3 DEF Reconciled
  <2> DEFINE status == IF r[i].absent >= 1 THEN "inactive" ELSE r[i].status
             absent == IF r[i].absent = 2 THEN 2 ELSE r[i].absent + 1
  <2>3. status \in {"classified", "pending", "inactive"} /\ absent \in 0..2
    BY <2>1 DEF Entries
  <2>4. e = [r[i] EXCEPT !.absent = absent, !.status = status]
    BY <2>2
  <2> HIDE DEF e, status, absent
  <2>5. e \in Entries /\ e.class = r[i].class
    BY <2>1, <2>3, <2>4 DEF Entries
  <2> QED BY <1>3, <2>5, EntriesAreKnown DEF e
<1>4. CASE i \notin snapshot /\ r[i] = NoEntry
  BY <1>4 DEF Reconciled
<1> QED BY <1>1, <1>2, <1>3, <1>4

\* A page that is read is a class, on record as audited in an audit.
LEMMA ObservedIsTyped ==
  ASSUME ClassificationAssumptions, NEW e \in Entries, NEW class \in Class, NEW mode \in Modes
  PROVE  LET o == Observed(e, class, mode) IN
         /\ o \in Entries /\ o.symbol = e.symbol /\ o.class = class /\ o.status = "classified"
         /\ mode = "quarterly" => o.audited
<1> DEFINE o == Observed(e, class, mode)
<1>1. 0 \in 0..(Budget + 1)
  BY DEF Budget, ClassificationAssumptions
<1>2. (e.audited \/ mode = "quarterly") \in BOOLEAN
  OBVIOUS
<1>3. o = [e EXCEPT !.status = "classified", !.class = class, !.backlog = FALSE, !.retry = 0,
                    !.attempts = 0, !.audited = @ \/ mode = "quarterly"]
  BY DEF Observed
<1> HIDE DEF o
<1>4. o \in Entries
  BY <1>1, <1>2, <1>3 DEF Entries
<1>5. o.symbol = e.symbol /\ o.class = class /\ o.status = "classified"
      /\ (mode = "quarterly" => o.audited)
  BY <1>3 DEF Entries
<1> QED BY <1>4, <1>5 DEF o

\* A page that is not waits, for a delay or for an audit, and keeps what is known.
LEMMA UnreadIsTyped ==
  ASSUME ClassificationAssumptions, NEW e \in Entries, NEW mode \in Modes
  PROVE  LET u == Unread(e, mode) IN
         /\ u \in Entries /\ u.symbol = e.symbol /\ u.class = e.class /\ u.status = "pending"
         /\ u.retry > 0 \/ u.deferred
         /\ mode = "quarterly" => u.audited
<1> DEFINE attempts == IF e.attempts > Budget THEN e.attempts ELSE e.attempts + 1
           u == Unread(e, mode)
<1>1. Budget \in Nat /\ \A n \in 1..Budget : RetryDelays[n] \in Nat \ {0}
  BY DEF Budget, ClassificationAssumptions
<1>2. e.attempts \in 0..(Budget + 1)
  BY DEF Entries
<1>3. attempts \in 1..(Budget + 1)
  BY <1>1, <1>2
<1>4. u = [e EXCEPT !.status = "pending", !.backlog = FALSE,
                    !.audited = @ \/ mode = "quarterly", !.attempts = attempts,
                    !.deferred = attempts > Budget,
                    !.retry = IF attempts > Budget THEN 0 ELSE RetryDelays[attempts]]
  BY DEF Unread
<1>5. (IF attempts > Budget THEN 0 ELSE RetryDelays[attempts]) \in Nat
      /\ (attempts > Budget \/ RetryDelays[attempts] > 0)
  BY <1>1, <1>3
<1> HIDE DEF attempts, u
<1>6. attempts \in 0..(Budget + 1)
  BY <1>1, <1>3
<1> DEFINE retry == IF attempts > Budget THEN 0 ELSE RetryDelays[attempts]
           deferred == attempts > Budget
           audited == e.audited \/ mode = "quarterly"
<1>7. deferred \in BOOLEAN /\ audited \in BOOLEAN /\ retry \in Nat
  BY <1>5
<1>8. u = [e EXCEPT !.status = "pending", !.backlog = FALSE, !.audited = audited,
                    !.attempts = attempts, !.deferred = deferred, !.retry = retry]
  BY <1>4
<1>9. u \in Entries
  <2> HIDE DEF retry, deferred, audited
  <2> QED BY <1>6, <1>7, <1>8 DEF Entries
<1>10. u.symbol = e.symbol /\ u.class = e.class /\ u.status = "pending"
      /\ u.deferred = (attempts > Budget) /\ (mode = "quarterly" => u.audited)
      /\ u.retry = IF attempts > Budget THEN 0 ELSE RetryDelays[attempts]
  BY <1>4 DEF Entries
<1>11. u.retry > 0 \/ u.deferred
  BY <1>5, <1>10
<1> QED BY <1>9, <1>10, <1>11 DEF u

LEMMA MarkedIsTyped ==
  ASSUME NEW r \in Registries, NEW mode
  PROVE  /\ Marked(r, mode) \in Registries
         /\ mode # "baseline" => Marked(r, mode) = r
         /\ \A i \in Listing : r[i] # NoEntry =>
              Marked(r, mode)[i] # NoEntry /\ Marked(r, mode)[i].class = r[i].class
<1> DEFINE m == Marked(r, mode)
<1>1. ASSUME NEW i \in Listing
      PROVE  /\ m[i] = r[i] \/ (r[i] \in Entries /\ m[i] = [r[i] EXCEPT !.backlog = TRUE])
             /\ mode # "baseline" => m[i] = r[i]
  <2>1. r[i] # NoEntry => r[i] \in Entries
    BY DEF Registries
  <2> QED BY <2>1 DEF Marked
<1>2. ASSUME NEW i \in Listing
      PROVE  /\ m[i] \in Entries \cup {NoEntry}
             /\ r[i] # NoEntry => m[i] # NoEntry /\ m[i].class = r[i].class
  <2>1. CASE m[i] = r[i]
    BY <2>1 DEF Registries
  <2>2. CASE r[i] \in Entries /\ m[i] = [r[i] EXCEPT !.backlog = TRUE]
    <3>1. m[i] \in Entries /\ m[i].class = r[i].class
      BY <2>2 DEF Entries
    <3> QED BY <3>1, EntriesAreKnown
  <2> QED BY <1>1, <2>1, <2>2
<1>3. m = [i \in Listing |-> m[i]] /\ r = [i \in Listing |-> r[i]]
  BY DEF Marked, Registries
<1>4. m \in Registries
  BY <1>2, <1>3 DEF Registries
<1>5. mode # "baseline" => m = r
  BY <1>1, <1>3
<1> QED BY <1>2, <1>4, <1>5

-----------------------------------------------------------------------------
(* A build, and what publishes it.                                         *)

\* A build that does not fail leaves the artifact with the registry's rows, and
\* no build takes a listing out.
LEMMA BuildFollows ==
  ASSUME ClassificationAssumptions, TypeOK, NEW r \in Registries, Build(r)
  PROVE  /\ artifact' \in [Listing -> (Class \X Symbol) \cup {None}]
         /\ built' \in {"success", "skipped_idempotent", "failed"}
         /\ built' # "failed" =>
              \A i \in Classified(r) : artifact'[i] = <<r[i].class, r[i].symbol>>
         /\ \A i \in Listing : artifact[i] # None => artifact'[i] # None
<1> DEFINE out == Overlaid(Records(r))
<1>1. \A i \in Listing : out[i] = IF i \in Classified(r) THEN <<r[i].class, r[i].symbol>>
                                  ELSE artifact[i]
  BY DEF Overlaid, Records
<1>2. \A i \in Classified(r) :
        /\ i \in Listing /\ <<r[i].class, r[i].symbol>> \in Class \X Symbol
        /\ <<r[i].class, r[i].symbol>> # None
  <2>1. ASSUME NEW i \in Classified(r)
        PROVE  i \in Listing /\ <<r[i].class, r[i].symbol>> \in Class \X Symbol
    <3>1. i \in Listing /\ r[i] \in Entries /\ r[i].class # None
      BY DEF Classified, Active, Known, Registries
    <3> QED BY <3>1 DEF Entries
  <2> QED BY <2>1 DEF ClassificationAssumptions
<1>3. out = [i \in Listing |-> out[i]]
  BY DEF Overlaid
<1>4. out \in [Listing -> (Class \X Symbol) \cup {None}]
  <2>1. \A i \in Listing : out[i] \in (Class \X Symbol) \cup {None}
    BY <1>1, <1>2 DEF TypeOK
  <2> HIDE DEF out
  <2> QED BY <2>1, <1>3
<1>5. /\ built' = IF Classified(r) = {}
                  THEN IF Published(artifact) = {} THEN "failed" ELSE "skipped_idempotent"
                  ELSE IF \/ Cardinality(Published(out)) < Cardinality(Published(artifact))
                          \/ out = artifact
                       THEN "skipped_idempotent"
                  ELSE IF Approved(r, out) THEN "success" ELSE "failed"
      /\ artifact' = IF built' = "success" THEN out ELSE artifact
  BY DEF Build
<1> HIDE DEF out
<1>6. ~(Cardinality(Published(out)) < Cardinality(Published(artifact)))
  <2>1. Published(artifact) \subseteq Published(out) /\ Published(out) \subseteq Listing
    BY <1>1, <1>2 DEF Published
  <2>2. IsFiniteSet(Published(out))
    BY <2>1, FS_Subset DEF ClassificationAssumptions
  <2>3. /\ Cardinality(Published(artifact)) <= Cardinality(Published(out))
        /\ Cardinality(Published(artifact)) \in Nat /\ Cardinality(Published(out)) \in Nat
    BY <2>1, <2>2, FS_Subset, FS_CardinalityType
  <2> QED BY <2>3
<1>7. CASE built' = "success"
  BY <1>1, <1>2, <1>4, <1>5, <1>7
<1>8. CASE built' # "success"
  <2>1. artifact' = artifact
    BY <1>5, <1>8
  <2>2. built' # "failed" => Classified(r) = {} \/ out = artifact
    BY <1>5, <1>6, <1>8
  <2>3. built' \in {"success", "skipped_idempotent", "failed"}
    BY <1>5
  <2>4. ASSUME built' # "failed", NEW i \in Classified(r)
        PROVE  artifact'[i] = <<r[i].class, r[i].symbol>>
    BY <2>1, <2>2, <2>4, <1>1, <1>2
  <2> QED BY <2>1, <2>3, <2>4 DEF TypeOK
<1> QED BY <1>7, <1>8

\* While nothing is built, the artifact follows whatever leaves statuses, classes
\* and symbols alone.
LEMMA StillFollows ==
  ASSUME TypeOK, ArtifactFollowsRegistry, campaign = Idle, UNCHANGED <<artifact, built>>,
         registry' \in Registries,
         \A i \in Listing : registry'[i] # NoEntry =>
           /\ registry[i] # NoEntry /\ registry'[i].status = registry[i].status
           /\ registry'[i].class = registry[i].class
           /\ registry'[i].symbol = registry[i].symbol
  PROVE  ArtifactFollowsRegistry'
<1> SUFFICES ASSUME built \in {"success", "skipped_idempotent"},
                    NEW i \in Classified(registry')
             PROVE  artifact'[i] = <<registry'[i].class, registry'[i].symbol>>
  BY DEF ArtifactFollowsRegistry
<1>1. i \in Listing /\ registry'[i] # NoEntry /\ registry'[i].status # "inactive"
      /\ registry'[i].class # None
  BY DEF Classified, Active, Known
<1>2. i \in Classified(registry)
  BY <1>1 DEF Classified, Active, Known
<1> QED BY <1>1, <1>2 DEF ArtifactFollowsRegistry

-----------------------------------------------------------------------------
(* The runs.                                                               *)

LEMMA InitHolds == ClassificationAssumptions /\ Init => ClassificationInvariant
<1> SUFFICES ASSUME ClassificationAssumptions, Init PROVE ClassificationInvariant
  OBVIOUS
<1>1. TypeOK
  BY DEF Init, TypeOK, Symbol, Gone, ClassificationAssumptions
<1>2. CampaignInvariant
  BY DEF Init, CampaignInvariant
<1>3. ArtifactFollowsRegistry
  BY DEF Init, ArtifactFollowsRegistry
<1> QED BY <1>1, <1>2, <1>3 DEF ClassificationInvariant

LEMMA StartCollectionKeeps ==
  ASSUME ClassificationAssumptions, ClassificationInvariant, NEW mode \in Modes,
         StartCollection(mode)
  PROVE  ClassificationInvariant'
<1>1. PICK snapshot \in Snapshots :
        /\ faults' = faults + IF snapshot = Trading THEN 0 ELSE 1
        /\ campaign' = [mode |-> mode, snapshot |-> snapshot, asked |-> {}, again |-> {},
                        left |-> IF mode = "quarterly" THEN MaxBatches ELSE 1]
  BY DEF StartCollection
<1>2. snapshot \subseteq Trading /\ (snapshot # Trading => faults < MaxFaults)
  BY DEF Snapshots
<1>3. UNCHANGED <<listed, registry, artifact, built>>
  BY DEF StartCollection
<1>4. faults' \in 0..MaxFaults
  BY <1>1, <1>2 DEF ClassificationInvariant, TypeOK, ClassificationAssumptions
<1>5. campaign' \in Campaigns
  <2>1. snapshot \subseteq Listing
    BY <1>2 DEF Trading
  <2>2. (IF mode = "quarterly" THEN MaxBatches ELSE 1) \in 0..MaxBatches
    BY DEF ClassificationAssumptions
  <2> QED BY <1>1, <2>1, <2>2 DEF Campaigns
<1>6. TypeOK'
  BY <1>3, <1>4, <1>5 DEF ClassificationInvariant, TypeOK
<1>7. CampaignInvariant'
  BY <1>1, <1>2, <1>3 DEF CampaignInvariant, Trading
<1>8. ArtifactFollowsRegistry'
  BY <1>5, CampaignsRun DEF ArtifactFollowsRegistry
<1> QED BY <1>6, <1>7, <1>8 DEF ClassificationInvariant

LEMMA RefuseSnapshotKeeps ==
  ASSUME ClassificationAssumptions, ClassificationInvariant, RefuseSnapshot
  PROVE  ClassificationInvariant'
<1>1. TypeOK'
  BY DEF ClassificationInvariant, TypeOK, RefuseSnapshot
<1>2. CampaignInvariant'
  BY DEF CampaignInvariant, RefuseSnapshot
<1>3. ArtifactFollowsRegistry'
  BY DEF ArtifactFollowsRegistry, RefuseSnapshot
<1> QED BY <1>1, <1>2, <1>3 DEF ClassificationInvariant

LEMMA FinishCollectionKeeps ==
  ASSUME ClassificationAssumptions, ClassificationInvariant, FinishCollection
  PROVE  ClassificationInvariant'
<1>1. Build(registry) /\ campaign' = Idle /\ UNCHANGED <<listed, registry, faults>>
  BY DEF FinishCollection
<1>2. TypeOK /\ registry \in Registries
  BY DEF ClassificationInvariant, TypeOK, Registries
<1>3. /\ artifact' \in [Listing -> (Class \X Symbol) \cup {None}]
      /\ built' \in {"success", "skipped_idempotent", "failed"}
      /\ built' # "failed" =>
           \A i \in Classified(registry) :
             artifact'[i] = <<registry[i].class, registry[i].symbol>>
  BY <1>1, <1>2, BuildFollows
<1>4. TypeOK'
  BY <1>1, <1>2, <1>3 DEF TypeOK
<1>5. CampaignInvariant'
  BY <1>1 DEF CampaignInvariant
<1>6. ArtifactFollowsRegistry'
  BY <1>1, <1>3 DEF ArtifactFollowsRegistry
<1> QED BY <1>4, <1>5, <1>6 DEF ClassificationInvariant

LEMMA DailyBuildKeeps ==
  ASSUME ClassificationAssumptions, ClassificationInvariant, DailyBuild
  PROVE  ClassificationInvariant'
<1> DEFINE r == IF Known(registry) # {} THEN registry
                ELSE [i \in Listing |-> IF Seed[i] = None THEN NoEntry
                                        ELSE Entry("classified", 0, Seed[i], FALSE)]
<1>1. campaign = Idle /\ registry' = r /\ Build(r) /\ UNCHANGED <<listed, campaign, faults>>
  BY DEF DailyBuild
<1>2. TypeOK
  BY DEF ClassificationInvariant
<1>3. r \in Registries
  <2>1. \A i \in Listing : Entry("classified", 0, Seed[i], FALSE) \in Entries
    <3>1. \A i \in Listing : Seed[i] \in Class \cup {None}
      BY DEF ClassificationAssumptions
    <3>2. 0 \in Symbol /\ "classified" \in {"classified", "pending", "inactive"}
      BY DEF Symbol
    <3> QED BY <3>1, <3>2, EntryIsTyped
  <2> QED BY <1>2, <2>1 DEF TypeOK, Registries
<1> HIDE DEF r
<1>4. /\ artifact' \in [Listing -> (Class \X Symbol) \cup {None}]
      /\ built' \in {"success", "skipped_idempotent", "failed"}
      /\ built' # "failed" => \A i \in Classified(r) : artifact'[i] = <<r[i].class, r[i].symbol>>
  BY <1>1, <1>2, <1>3, BuildFollows
<1>5. TypeOK'
  BY <1>1, <1>2, <1>3, <1>4 DEF TypeOK, Registries
<1>6. CampaignInvariant'
  BY <1>1 DEF CampaignInvariant
<1>7. ArtifactFollowsRegistry'
  BY <1>1, <1>4 DEF ArtifactFollowsRegistry
<1> QED BY <1>5, <1>6, <1>7 DEF ClassificationInvariant

LEMMA NextDayKeeps ==
  ASSUME ClassificationAssumptions, ClassificationInvariant, NextDay
  PROVE  ClassificationInvariant'
<1>1. /\ campaign = Idle /\ UNCHANGED <<listed, artifact, campaign, built, faults>>
      /\ registry' = [i \in Listing |->
           IF registry[i] = NoEntry \/ registry[i].retry = 0 THEN registry[i]
           ELSE [registry[i] EXCEPT !.retry = @ - 1]]
  BY DEF NextDay
<1>2. TypeOK /\ ArtifactFollowsRegistry /\ registry \in Registries
  BY DEF ClassificationInvariant, TypeOK, Registries
<1>3. ASSUME NEW i \in Listing
      PROVE  /\ registry'[i] \in Entries \cup {NoEntry}
             /\ registry'[i] # NoEntry =>
                  /\ registry[i] # NoEntry /\ registry'[i].status = registry[i].status
                  /\ registry'[i].class = registry[i].class
                  /\ registry'[i].symbol = registry[i].symbol
  <2>1. CASE registry[i] = NoEntry \/ registry[i].retry = 0
    BY <1>1, <1>2, <2>1 DEF Registries
  <2>2. CASE ~(registry[i] = NoEntry \/ registry[i].retry = 0)
    <3>1. registry[i] \in Entries /\ registry'[i] = [registry[i] EXCEPT !.retry = @ - 1]
      BY <1>1, <1>2, <2>2 DEF Registries
    <3>2. registry[i].retry \in Nat
      BY <3>1 DEF Entries
    <3>3. registry[i].retry - 1 \in Nat
      BY <2>2, <3>2
    <3> QED BY <2>2, <3>1, <3>3 DEF Entries
  <2> QED BY <2>1, <2>2
<1>4. registry' \in Registries
  BY <1>1, <1>3 DEF Registries
<1>5. ArtifactFollowsRegistry'
  BY <1>1, <1>2, <1>3, <1>4, StillFollows
<1>6. TypeOK'
  BY <1>1, <1>2, <1>4 DEF TypeOK, Registries
<1>7. CampaignInvariant'
  BY <1>1 DEF CampaignInvariant
<1> QED BY <1>5, <1>6, <1>7 DEF ClassificationInvariant

LEMMA NextQuarterKeeps ==
  ASSUME ClassificationAssumptions, ClassificationInvariant, NextQuarter
  PROVE  ClassificationInvariant'
<1>1. /\ campaign = Idle /\ UNCHANGED <<listed, artifact, campaign, built, faults>>
      /\ registry' = [i \in Listing |->
           IF registry[i] = NoEntry THEN NoEntry ELSE [registry[i] EXCEPT !.audited = FALSE]]
  BY DEF NextQuarter
<1>2. TypeOK /\ ArtifactFollowsRegistry /\ registry \in Registries
  BY DEF ClassificationInvariant, TypeOK, Registries
<1>3. ASSUME NEW i \in Listing
      PROVE  /\ registry'[i] \in Entries \cup {NoEntry}
             /\ registry'[i] # NoEntry =>
                  /\ registry[i] # NoEntry /\ registry'[i].status = registry[i].status
                  /\ registry'[i].class = registry[i].class
                  /\ registry'[i].symbol = registry[i].symbol
  <2>1. CASE registry[i] = NoEntry
    BY <1>1, <2>1
  <2>2. CASE registry[i] # NoEntry
    <3>1. registry[i] \in Entries /\ registry'[i] = [registry[i] EXCEPT !.audited = FALSE]
      BY <1>1, <1>2, <2>2 DEF Registries
    <3> QED BY <2>2, <3>1 DEF Entries
  <2> QED BY <2>1, <2>2
<1>4. registry' \in Registries
  BY <1>1, <1>3 DEF Registries
<1>5. ArtifactFollowsRegistry'
  BY <1>1, <1>2, <1>3, <1>4, StillFollows
<1>6. TypeOK'
  BY <1>1, <1>2, <1>4 DEF TypeOK, Registries
<1>7. CampaignInvariant'
  BY <1>1 DEF CampaignInvariant
<1> QED BY <1>5, <1>6, <1>7 DEF ClassificationInvariant

LEMMA ExchangeKeeps ==
  ASSUME ClassificationAssumptions, ClassificationInvariant, Exchange
  PROVE  ClassificationInvariant'
<1>1. campaign = Idle /\ UNCHANGED <<registry, artifact, campaign, built, faults>>
  BY DEF Exchange
<1>2. listed' \in [Listing -> Symbol \cup {Gone}]
  BY DEF Exchange, List, Delist, Rename, Symbol, Gone, ClassificationInvariant, TypeOK
<1>3. TypeOK'
  BY <1>1, <1>2 DEF ClassificationInvariant, TypeOK
<1>4. CampaignInvariant'
  BY <1>1 DEF CampaignInvariant
<1>5. ArtifactFollowsRegistry'
  BY <1>1 DEF ClassificationInvariant, ArtifactFollowsRegistry, Classified, Active, Known
<1> QED BY <1>3, <1>4, <1>5 DEF ClassificationInvariant

\* What a batch leaves of an entry: of one it did not reach, what the snapshot
\* says; an answered page settles its listing until the next audit or its delay.
LEMMA CollectedEntry ==
  ASSUME ClassificationAssumptions, NEW mode \in Modes, NEW reply, NEW batch \in SUBSET Listing,
         NEW merged \in Registries, \A j \in batch : merged[j] \in Entries,
         NEW i \in Listing, NEW e, e = Collected(batch, merged, reply, mode)[i]
  PROVE  /\ e \in Entries \cup {NoEntry}
         /\ merged[i] # NoEntry => e # NoEntry /\ e.symbol = merged[i].symbol
         /\ i \notin Asked(batch, reply) => e = merged[i]
<1> DEFINE asked == Asked(batch, reply)
<1>1. asked \subseteq batch
  BY DEF Asked
<1>2. e = IF i \notin asked \/ (i = reply.page /\ reply.answer = "blocked") THEN merged[i]
          ELSE IF i = reply.page THEN Unread(merged[i], mode)
          ELSE Observed(merged[i], Page[i], mode)
  BY DEF Collected
<1> HIDE DEF asked
<1>3. CASE i \notin asked \/ (i = reply.page /\ reply.answer = "blocked")
  BY <1>2, <1>3 DEF Registries, asked
<1>4. CASE i \in asked /\ i = reply.page /\ reply.answer # "blocked"
  <2>1. merged[i] \in Entries /\ e = Unread(merged[i], mode)
    BY <1>1, <1>2, <1>4
  <2> QED BY <1>4, <2>1, UnreadIsTyped, EntriesAreKnown DEF asked
<1>5. CASE i \in asked /\ i # reply.page
  <2>1. merged[i] \in Entries /\ e = Observed(merged[i], Page[i], mode)
    BY <1>1, <1>2, <1>5
  <2>2. Page[i] \in Class /\ Page[i] # None
    BY DEF ClassificationAssumptions
  <2> QED BY <1>5, <2>1, <2>2, ObservedIsTyped, EntriesAreKnown DEF asked
<1> QED BY <1>3, <1>4, <1>5

\* A batch forgets no class.
LEMMA CollectedKeepsClass ==
  ASSUME ClassificationAssumptions, NEW mode \in Modes, NEW reply, NEW batch \in SUBSET Listing,
         NEW merged \in Registries, \A j \in batch : merged[j] \in Entries,
         NEW i \in Listing, merged[i] # NoEntry, merged[i].class # None
  PROVE  Collected(batch, merged, reply, mode)[i] # NoEntry
         /\ Collected(batch, merged, reply, mode)[i].class # None
<1> DEFINE asked == Asked(batch, reply)
           e == Collected(batch, merged, reply, mode)[i]
<1>1. asked \subseteq batch
  BY DEF Asked
<1>2. e = IF i \notin asked \/ (i = reply.page /\ reply.answer = "blocked") THEN merged[i]
          ELSE IF i = reply.page THEN Unread(merged[i], mode)
          ELSE Observed(merged[i], Page[i], mode)
  BY DEF Collected
<1> HIDE DEF asked, e
<1>3. CASE e = merged[i]
  BY <1>3 DEF e
<1>4. CASE i \in asked /\ e = Unread(merged[i], mode)
  BY <1>1, <1>4, UnreadIsTyped, EntriesAreKnown DEF e
<1>5. CASE i \in asked /\ e = Observed(merged[i], Page[i], mode)
  <2>1. merged[i] \in Entries /\ Page[i] \in Class /\ Page[i] # None
    BY <1>1, <1>5 DEF ClassificationAssumptions
  <2> QED BY <1>5, <2>1, ObservedIsTyped, EntriesAreKnown DEF e
<1> QED BY <1>2, <1>3, <1>4, <1>5

LEMMA BatchSettles ==
  ASSUME ClassificationAssumptions, NEW mode \in Modes, NEW reply, NEW batch \in SUBSET Listing,
         NEW merged \in Registries, \A j \in batch : merged[j] \in Entries,
         NEW i \in Listing, NEW e, e = Collected(batch, merged, reply, mode)[i]
  PROVE  i \in Asked(batch, reply) /\ reply.answer # "blocked" =>
           /\ e.status # "inactive" /\ (mode = "quarterly" => e.audited)
           /\ (e.class # None /\ e.status = "classified") \/ e.retry > 0 \/ e.deferred
<1> DEFINE asked == Asked(batch, reply)
<1>1. asked \subseteq batch
  BY DEF Asked
<1>2. e = IF i \notin asked \/ (i = reply.page /\ reply.answer = "blocked") THEN merged[i]
          ELSE IF i = reply.page THEN Unread(merged[i], mode)
          ELSE Observed(merged[i], Page[i], mode)
  BY DEF Collected
<1> HIDE DEF asked
<1>3. CASE i \notin asked \/ (i = reply.page /\ reply.answer = "blocked")
  BY <1>2, <1>3 DEF Registries, asked
<1>4. CASE i \in asked /\ i = reply.page /\ reply.answer # "blocked"
  <2>1. merged[i] \in Entries /\ e = Unread(merged[i], mode)
    BY <1>1, <1>2, <1>4
  <2> QED BY <1>4, <2>1, UnreadIsTyped, EntriesAreKnown DEF asked
<1>5. CASE i \in asked /\ i # reply.page
  <2>1. merged[i] \in Entries /\ e = Observed(merged[i], Page[i], mode)
    BY <1>1, <1>2, <1>5
  <2>2. Page[i] \in Class /\ Page[i] # None
    BY DEF ClassificationAssumptions
  <2> QED BY <1>5, <2>1, <2>2, ObservedIsTyped, EntriesAreKnown DEF asked
<1> QED BY <1>3, <1>4, <1>5

LEMMA CollectedIsTyped ==
  ASSUME ClassificationAssumptions, NEW mode \in Modes, NEW reply, NEW batch \in SUBSET Listing,
         NEW merged \in Registries, \A j \in batch : merged[j] \in Entries
  PROVE  Collected(batch, merged, reply, mode) \in Registries
<1> DEFINE after == Collected(batch, merged, reply, mode)
<1>1. \A i \in Listing : after[i] \in Entries \cup {NoEntry}
  BY CollectedEntry
<1>2. after = [i \in Listing |-> after[i]]
  BY DEF Collected
<1> HIDE DEF after
<1>3. after \in Registries
  BY <1>1, <1>2 DEF Registries
<1> QED BY <1>3 DEF after

\* What is settled in a quarterly campaign is not asked for again.
LEMMA SettledIsNotDue ==
  ASSUME NEW i, Settled(i) PROVE ~Due(i, registry, "quarterly")
BY EntriesAreKnown DEF Settled, Due, DueRetry, Entries

LEMMA CollectBatchKeeps ==
  ASSUME ClassificationAssumptions, ClassificationInvariant, NEW mode \in Modes,
         CollectBatch(mode)
  PROVE  ClassificationInvariant'
<1> DEFINE before == Marked(registry, mode)
           backlog == mode = "baseline" \/ Known(registry) = {}
           merged == [i \in Listing |-> Reconciled(i, campaign.snapshot, before, backlog)]
           batch == Candidates(campaign.snapshot, before, mode)
<1>1. campaign.mode = mode /\ campaign.left > 0 /\ UNCHANGED <<listed, artifact, built>>
  BY DEF CollectBatch
<1>2. PICK reply \in Replies :
        /\ faults' = faults + IF reply = AllRead THEN 0 ELSE 1
        /\ registry' = Collected(batch, merged, reply, mode)
        /\ campaign' = [campaign EXCEPT
             !.asked = @ \cup Asked(batch, reply),
             !.again = @ \cup (campaign.asked \cap Asked(batch, reply)),
             !.left = IF batch = {} \/ reply.answer = "blocked" THEN 0 ELSE @ - 1]
  BY DEF CollectBatch
<1>3. TypeOK /\ registry \in Registries
  BY DEF ClassificationInvariant, TypeOK, Registries
<1>4. campaign \in Campaigns
  <2>1. Idle.mode = "idle" /\ mode # "idle"
    BY DEF Idle, Modes
  <2> QED BY <1>1, <1>3, <2>1 DEF TypeOK
<1>5. /\ campaign.again = {} /\ campaign.asked \subseteq campaign.snapshot
      /\ campaign.snapshot \subseteq Trading
      /\ campaign.mode # "quarterly" => campaign.asked = {} /\ campaign.left = 1
      /\ \A i \in campaign.asked : Settled(i)
  BY <1>1, <1>4, CampaignsRun DEF ClassificationInvariant, CampaignInvariant
<1>6. \A i \in campaign.snapshot : i \in Listing /\ listed[i] \in Symbol
  BY <1>3, <1>5 DEF TypeOK, Trading
<1>7. before \in Registries /\ (mode # "baseline" => before = registry)
  BY <1>3, MarkedIsTyped
<1>8. backlog \in BOOLEAN
  OBVIOUS
<1> HIDE DEF before, backlog
<1>9. \A i \in Listing : merged[i] = Reconciled(i, campaign.snapshot, before, backlog)
  OBVIOUS
<1>10. \A i \in Listing :
         /\ merged[i] \in Entries \cup {NoEntry}
         /\ i \in campaign.snapshot =>
              /\ merged[i] \in Entries /\ merged[i].symbol = listed[i]
              /\ merged[i].status = IF merged[i].class # None THEN "classified" ELSE "pending"
              /\ before[i] # NoEntry =>
                   /\ merged[i].class = before[i].class /\ merged[i].retry = before[i].retry
                   /\ merged[i].deferred = before[i].deferred
                   /\ merged[i].audited = before[i].audited
  BY <1>6, <1>7, <1>8, <1>9, ReconciledIsTyped
<1>11. merged \in Registries
  BY <1>10 DEF Registries
<1>12. batch \subseteq campaign.snapshot /\ \A i \in batch : Due(i, before, mode)
  BY DEF Candidates
<1> HIDE DEF merged, batch
<1>13. batch \in SUBSET Listing /\ \A i \in batch : merged[i] \in Entries
  BY <1>6, <1>10, <1>12
<1>14. registry' \in Registries
  BY <1>2, <1>11, <1>13, CollectedIsTyped
<1>15. Asked(batch, reply) \subseteq batch
  BY DEF Asked
<1>16. campaign.asked \cap Asked(batch, reply) = {}
  <2>1. CASE mode # "quarterly"
    BY <1>1, <1>5, <2>1
  <2>2. CASE mode = "quarterly"
    <3>1. \A i \in campaign.asked : ~Due(i, registry, mode)
      BY <1>5, <2>2, SettledIsNotDue
    <3>2. before = registry
      BY <1>7, <2>2
    <3> QED BY <3>1, <3>2, <1>12, <1>15
  <2> QED BY <2>1, <2>2
<1>17. TypeOK' /\ campaign' \in Campaigns
  <2>1. faults' \in 0..MaxFaults
    BY <1>2, <1>3 DEF Replies, TypeOK, ClassificationAssumptions
  <2>2. campaign' \in Campaigns
    <3>1. Asked(batch, reply) \subseteq Listing
      BY <1>13, <1>15
    <3>2. campaign.left \in 0..MaxBatches /\ MaxBatches \in Nat
      BY <1>4 DEF Campaigns, ClassificationAssumptions
    <3>3. (IF batch = {} \/ reply.answer = "blocked" THEN 0 ELSE campaign.left - 1) \in 0..MaxBatches
      BY <1>1, <3>2
    <3> DEFINE left == IF batch = {} \/ reply.answer = "blocked" THEN 0 ELSE campaign.left - 1
               asked == campaign.asked \cup Asked(batch, reply)
               again == campaign.again \cup (campaign.asked \cap Asked(batch, reply))
    <3>4. asked \subseteq Listing /\ again \subseteq Listing
      BY <1>4, <3>1 DEF Campaigns
    <3>5. campaign' = [campaign EXCEPT !.asked = asked, !.again = again, !.left = left]
      BY <1>2
    <3>6. left \in 0..MaxBatches
      BY <3>3
    <3> HIDE DEF left, asked, again
    <3> QED BY <1>4, <3>4, <3>5, <3>6 DEF Campaigns
  <2> QED BY <1>1, <1>3, <1>14, <2>1, <2>2 DEF TypeOK, Registries
<1>18. CampaignInvariant'
  <2>1. /\ campaign'.again = {} /\ campaign'.mode = mode
        /\ campaign'.asked = campaign.asked \cup Asked(batch, reply)
        /\ campaign'.snapshot = campaign.snapshot
        /\ campaign'.left = IF batch = {} \/ reply.answer = "blocked" THEN 0 ELSE campaign.left - 1
    BY <1>1, <1>2, <1>4, <1>5, <1>16 DEF Campaigns
  <2>2. campaign'.asked \subseteq campaign'.snapshot /\ campaign'.snapshot \subseteq Trading'
    BY <1>1, <1>5, <1>12, <1>15, <2>1 DEF Trading
  <2>3. campaign'.left > 0 => mode = "quarterly"
    BY <1>1, <1>5, <2>1
  <2>4. ASSUME campaign'.left > 0, mode = "quarterly", NEW i \in campaign'.asked
        PROVE  Settled(i)'
    <3>1. reply.answer # "blocked" /\ before = registry
      BY <1>1, <1>7, <2>1, <2>4 DEF Campaigns
    <3>2. i \in Listing /\ i \in campaign.snapshot
      BY <1>6, <2>1, <2>2
    <3>3. merged[i] \in Entries /\ merged[i] # NoEntry /\ merged[i].symbol = listed[i]
          /\ merged[i].status = IF merged[i].class # None THEN "classified" ELSE "pending"
      BY <1>10, <3>2, EntriesAreKnown
    <3>4. registry'[i] \in Entries \cup {NoEntry}
      BY <1>14, <3>2 DEF Registries
    <3>5. CASE i \in Asked(batch, reply)
      <4>1. /\ registry'[i] # NoEntry /\ registry'[i].symbol = merged[i].symbol
            /\ registry'[i].status # "inactive" /\ registry'[i].audited
            /\ \/ registry'[i].class # None /\ registry'[i].status = "classified"
               \/ registry'[i].retry > 0 \/ registry'[i].deferred
        BY <1>2, <1>11, <1>13, <2>4, <3>1, <3>2, <3>3, <3>5, CollectedEntry, BatchSettles
      <4> QED BY <1>1, <3>3, <3>4, <4>1 DEF Settled
    <3>6. CASE i \notin Asked(batch, reply)
      <4>1. registry'[i] = merged[i]
        BY <1>2, <1>11, <1>13, <3>2, <3>3, <3>6, CollectedEntry
      <4>2. Settled(i)
        BY <1>5, <2>1, <3>6
      <4>3. registry[i] # NoEntry
        BY <4>2, EntriesAreKnown DEF Settled
      <4>4. /\ merged[i].class = registry[i].class /\ merged[i].retry = registry[i].retry
            /\ merged[i].deferred = registry[i].deferred
            /\ merged[i].audited = registry[i].audited
        BY <1>10, <3>1, <3>2, <4>3
      <4> QED BY <1>1, <3>3, <4>1, <4>2, <4>4 DEF Settled
    <3> QED BY <3>5, <3>6
  <2> QED BY <2>1, <2>2, <2>3, <2>4 DEF CampaignInvariant
<1>19. ArtifactFollowsRegistry'
  <2>1. campaign' # Idle
    BY <1>17, CampaignsRun
  <2> QED BY <2>1 DEF ArtifactFollowsRegistry
<1> QED BY <1>17, <1>18, <1>19 DEF ClassificationInvariant

LEMMA StepKeeps ==
  ClassificationAssumptions /\ ClassificationInvariant /\ [Next]_vars => ClassificationInvariant'
<1> SUFFICES ASSUME ClassificationAssumptions, ClassificationInvariant, [Next]_vars
             PROVE  ClassificationInvariant'
  OBVIOUS
<1>1. ASSUME NEW mode \in Modes, StartCollection(mode) PROVE ClassificationInvariant'
  BY <1>1, StartCollectionKeeps
<1>2. ASSUME NEW mode \in Modes, CollectBatch(mode) PROVE ClassificationInvariant'
  BY <1>2, CollectBatchKeeps
<1>3. CASE RefuseSnapshot
  BY <1>3, RefuseSnapshotKeeps
<1>4. CASE FinishCollection
  BY <1>4, FinishCollectionKeeps
<1>5. CASE DailyBuild
  BY <1>5, DailyBuildKeeps
<1>6. CASE NextDay
  BY <1>6, NextDayKeeps
<1>7. CASE NextQuarter
  BY <1>7, NextQuarterKeeps
<1>8. CASE Exchange
  BY <1>8, ExchangeKeeps
<1>9. CASE UNCHANGED vars
  <2>1. TypeOK'
    BY <1>9 DEF ClassificationInvariant, TypeOK, vars
  <2>2. CampaignInvariant'
    BY <1>9 DEF ClassificationInvariant, CampaignInvariant, Settled, Trading, vars
  <2>3. ArtifactFollowsRegistry'
    BY <1>9 DEF ClassificationInvariant, ArtifactFollowsRegistry, Classified, Active, Known, vars
  <2> QED BY <2>1, <2>2, <2>3 DEF ClassificationInvariant
<1> QED BY <1>1, <1>2, <1>3, <1>4, <1>5, <1>6, <1>7, <1>8, <1>9 DEF Next

-----------------------------------------------------------------------------
(* The theorems.                                                           *)

\* The inductive invariant: types, what a campaign has settled, and an artifact
\* that follows the registry.
THEOREM InvariantHolds == Spec => []ClassificationInvariant
<1>1. Init => ClassificationInvariant
  BY InitHolds, ConstantsAreRight
<1>2. ClassificationInvariant /\ [Next]_vars => ClassificationInvariant'
  BY StepKeeps, ConstantsAreRight
<1> QED BY <1>1, <1>2, PTL DEF Spec

\* Every entry of the registry keeps its type: no retry budget is overrun, no
\* listing without a symbol is collected.
THEOREM TypesHold == Spec => []TypeOK
<1>1. ClassificationInvariant => TypeOK
  BY DEF ClassificationInvariant
<1> QED BY <1>1, InvariantHolds, PTL

\* After a build that did not fail the artifact has every classified active
\* listing as the registry has it (build_sector_industry, append_observations).
THEOREM ArtifactFollows == Spec => []ArtifactFollowsRegistry
<1>1. ClassificationInvariant => ArtifactFollowsRegistry
  BY DEF ClassificationInvariant
<1> QED BY <1>1, InvariantHolds, PTL

\* A campaign asks for no page twice, so cmd_classification_collect's loop ends,
\* whatever the batch limit, the pages and their failures.
THEOREM NothingIsAskedTwice == Spec => []AskedOnce
<1>1. ClassificationInvariant => AskedOnce
  BY DEF ClassificationInvariant, CampaignInvariant, AskedOnce
<1> QED BY <1>1, InvariantHolds, PTL

\* An unreadable page, an absence or a new batch never takes away what is known
\* of a listing (apply_observation keeps the last known good).
LEMMA BatchKeepsClasses ==
  ASSUME ClassificationAssumptions, ClassificationInvariant, NEW mode \in Modes,
         CollectBatch(mode), NEW i \in Listing, registry[i] # NoEntry, registry[i].class # None
  PROVE  registry'[i] # NoEntry /\ registry'[i].class # None
<1> DEFINE before == Marked(registry, mode)
           backlog == mode = "baseline" \/ Known(registry) = {}
           merged == [j \in Listing |-> Reconciled(j, campaign.snapshot, before, backlog)]
           batch == Candidates(campaign.snapshot, before, mode)
<1>1. campaign.mode = mode /\ campaign.left > 0
  BY DEF CollectBatch
<1>2. PICK reply \in Replies : registry' = Collected(batch, merged, reply, mode)
  BY DEF CollectBatch
<1>3. registry \in Registries
  BY DEF ClassificationInvariant, TypeOK, Registries
<1>4. campaign \in Campaigns
  <2>1. Idle.mode = "idle" /\ mode # "idle"
    BY DEF Idle, Modes
  <2> QED BY <1>1, <2>1 DEF ClassificationInvariant, TypeOK
<1>5. \A j \in campaign.snapshot : j \in Listing /\ listed[j] \in Symbol
  BY <1>4, CampaignsRun DEF ClassificationInvariant, CampaignInvariant, TypeOK, Trading
<1>6. before \in Registries /\ before[i] # NoEntry /\ before[i].class = registry[i].class
  BY <1>3, MarkedIsTyped
<1>7. backlog \in BOOLEAN
  OBVIOUS
<1> HIDE DEF before, backlog
<1>8. \A j \in Listing : merged[j] = Reconciled(j, campaign.snapshot, before, backlog)
  OBVIOUS
<1>9. \A j \in Listing :
        /\ merged[j] \in Entries \cup {NoEntry}
        /\ j \in campaign.snapshot => merged[j] \in Entries
        /\ before[j] # NoEntry => merged[j] # NoEntry /\ merged[j].class = before[j].class
  BY <1>5, <1>6, <1>7, <1>8, ReconciledIsTyped
<1>10. merged \in Registries
  BY <1>9 DEF Registries
<1>11. batch \in SUBSET Listing /\ \A j \in batch : merged[j] \in Entries
  BY <1>5, <1>9 DEF Candidates
<1> HIDE DEF merged, batch
<1>12. merged[i] # NoEntry /\ merged[i].class # None
  BY <1>6, <1>9
<1> QED BY <1>2, <1>10, <1>11, <1>12, CollectedKeepsClass

LEMMA StepKeepsClasses ==
  ClassificationAssumptions /\ ClassificationInvariant /\ [Next]_vars => [ClassesStay]_vars
<1> DEFINE Keeps == \A i \in Listing : registry[i] # NoEntry /\ registry[i].class # None =>
                      registry'[i] # NoEntry /\ registry'[i].class # None
<1>1. ASSUME ClassificationAssumptions, ClassificationInvariant, [Next]_vars PROVE [Keeps]_vars
  <2>1. ASSUME NEW mode \in Modes, CollectBatch(mode) PROVE Keeps
    BY <1>1, <2>1, BatchKeepsClasses
  <2>2. ASSUME registry' = registry PROVE Keeps
    BY <2>2
  <2>3. ASSUME NEW mode \in Modes, StartCollection(mode) PROVE Keeps
    BY <2>2, <2>3 DEF StartCollection
  <2>4. CASE RefuseSnapshot \/ FinishCollection \/ Exchange
    BY <2>2, <2>4 DEF RefuseSnapshot, FinishCollection, Exchange
  <2>5. CASE DailyBuild
    BY <2>5 DEF DailyBuild, Known
  <2>6. CASE NextDay
    <3>1. registry \in Registries
      BY <1>1 DEF ClassificationInvariant, TypeOK, Registries
    <3>2. ASSUME NEW i \in Listing, registry[i] # NoEntry, registry[i].class # None
          PROVE  registry'[i] # NoEntry /\ registry'[i].class # None
      <4>1. registry[i] \in Entries
        BY <3>1, <3>2 DEF Registries
      <4>2. registry'[i] = registry[i] \/ registry'[i] = [registry[i] EXCEPT !.retry = @ - 1]
        BY <2>6 DEF NextDay
      <4>3. registry'[i].class = registry[i].class /\ registry'[i].status = registry[i].status
        BY <4>1, <4>2 DEF Entries
      <4> QED BY <3>2, <4>1, <4>3 DEF Entries, NoEntry
    <3> QED BY <3>2
  <2>7. CASE NextQuarter
    <3>1. registry \in Registries
      BY <1>1 DEF ClassificationInvariant, TypeOK, Registries
    <3>2. ASSUME NEW i \in Listing, registry[i] # NoEntry, registry[i].class # None
          PROVE  registry'[i] # NoEntry /\ registry'[i].class # None
      <4>1. registry[i] \in Entries
        BY <3>1, <3>2 DEF Registries
      <4>2. registry'[i] = [registry[i] EXCEPT !.audited = FALSE]
        BY <2>7, <3>2 DEF NextQuarter
      <4>3. registry'[i].class = registry[i].class /\ registry'[i].status = registry[i].status
        BY <4>1, <4>2 DEF Entries
      <4> QED BY <3>2, <4>1, <4>3 DEF Entries, NoEntry
    <3> QED BY <3>2
  <2>8. CASE UNCHANGED vars
    BY <2>8
  <2> QED BY <1>1, <2>1, <2>3, <2>4, <2>5, <2>6, <2>7, <2>8 DEF Next
<1> QED BY <1>1 DEF ClassesStay, HasClass

\* A page that fails, a listing that is gone or a registry that lost it costs no row
\* (append_observations).
LEMMA StepKeepsRows ==
  ClassificationAssumptions /\ ClassificationInvariant /\ [Next]_vars => [RowsStay]_vars
<1> DEFINE Keeps == \A i \in Listing : artifact[i] # None => artifact'[i] # None
<1>1. ASSUME ClassificationAssumptions, ClassificationInvariant, [Next]_vars PROVE [Keeps]_vars
  <2>1. ASSUME NEW r \in Registries, Build(r) PROVE Keeps
    BY <1>1, <2>1, BuildFollows DEF ClassificationInvariant
  <2>2. ASSUME artifact' = artifact PROVE Keeps
    BY <2>2
  <2>3. ASSUME NEW mode \in Modes, StartCollection(mode) \/ CollectBatch(mode) PROVE Keeps
    BY <2>2, <2>3 DEF StartCollection, CollectBatch
  <2>4. CASE RefuseSnapshot \/ NextDay \/ NextQuarter \/ Exchange
    BY <2>2, <2>4 DEF RefuseSnapshot, NextDay, NextQuarter, Exchange
  <2>5. CASE FinishCollection
    BY <1>1, <2>1, <2>5 DEF FinishCollection, ClassificationInvariant, TypeOK, Registries
  <2>6. CASE DailyBuild
    <3>1. ClassificationInvariant'
      BY <1>1, <2>6, DailyBuildKeeps
    <3>2. registry' \in Registries /\ Build(registry')
      BY <2>6, <3>1 DEF DailyBuild, ClassificationInvariant, TypeOK, Registries
    <3> QED BY <2>1, <3>2
  <2>7. CASE UNCHANGED vars
    BY <2>7
  <2> QED BY <1>1, <2>3, <2>4, <2>5, <2>6, <2>7 DEF Next
<1> QED BY <1>1 DEF RowsStay

\* What is known of a listing is never forgotten and no published row ever goes,
\* whatever snapshots, pages, batches and builds come: an absence, however often it
\* is counted, costs a listing its place among the active ones alone.
THEOREM NothingForgotten == Spec => NothingIsForgotten
<1>1. ClassificationInvariant /\ [Next]_vars => [ClassesStay /\ RowsStay]_vars
  <2>1. ASSUME ClassificationInvariant, [Next]_vars PROVE [ClassesStay]_vars /\ [RowsStay]_vars
    BY <2>1, StepKeepsClasses, StepKeepsRows, ConstantsAreRight
  <2> QED BY <2>1
<1> QED BY <1>1, InvariantHolds, PTL DEF Spec, NothingIsForgotten
=============================================================================
