--------------------------- MODULE CcadbSnapshot ----------------------------
(***************************************************************************)
(* download_ccadb_records (downloader.py): the records of CCADB, decade by *)
(* decade and page by page, become a local file that replaces the last one *)
(* or are thrown away.                                                     *)
(*                                                                         *)
(* CCADB goes on changing between the requests, and a response may be      *)
(* wrong.  The pages carry nothing but counts to notice it by: changes     *)
(* that make up for each other, such as a row that is exchanged for        *)
(* another one, go unnoticed.  The model therefore has one of these per    *)
(* decade: rows that are added, any number of times; rows that are         *)
(* deleted, any number of times; or one wrong field of one response.       *)
(*                                                                         *)
(* Abstractions.  Freshness of the file, by its time of modification, is a *)
(* flag that may expire at any time.  A row is the record that the service *)
(* delivers; it can be flattened or not.                                   *)
(***************************************************************************)
EXTENDS Integers, Sequences, SequencesExt

CONSTANTS
    RowsOf,      \* the rows of each decade, in the order of the service
    Flattens,    \* rows whose CRL URLs are arrays of strings
    PageSize,
    MaxRetries,  \* CRLDownloader.max_retries
    NoFile,
    Unknown      \* expected_total before the first page

Decades == DOMAIN RowsOf
AllRows == UNION {ToSet(RowsOf[d]) : d \in Decades}

ASSUME SnapshotConstants ==
    /\ RowsOf # <<>> /\ RowsOf \in Seq(Seq(AllRows))
    /\ PageSize \in Nat \ {0} /\ MaxRetries \in Nat \ {0}
    /\ NoFile \notin Seq(AllRows) /\ Unknown \notin Nat

VARIABLES
    snapshot, fresh,  \* the cached file: its rows; younger than its TTL
    decade,           \* 0: no download is running
    listing,          \* what the service has of the decade
    page, attempt, expected, records,  \* locals of _download_ccadb_partition
    partitions,       \* the completed decades
    versions,         \* history: the listings since each decade began
    disturbance       \* history: what went wrong since this decade began

file == <<snapshot, fresh>>
progress == <<decade, listing, page, attempt, expected, records, partitions,
              versions, disturbance>>
snapshotVars == <<file, progress>>

\* Ways to pick n rows of a decade in their order.
Positions(d, n) ==
    {at \in [1..n -> DOMAIN RowsOf[d]] : \A i, j \in 1..n : i < j => at[i] < at[j]}

Disturbances == {"none", "added", "deleted", "wrong"}

Listings(d) ==
    UNION {{[i \in 1..n |-> RowsOf[d][at[i]]] : at \in Positions(d, n)} :
           n \in 0..Len(RowsOf[d])}

NoDownload ==
    /\ decade = 0 /\ listing = <<>> /\ page = 0 /\ attempt = 0 /\ expected = Unknown
    /\ records = <<>> /\ partitions = <<>> /\ versions = <<>> /\ disturbance = "none"

SnapshotInit == snapshot = NoFile /\ fresh = FALSE /\ NoDownload

Forget ==
    /\ decade' = 0 /\ listing' = <<>> /\ page' = 0 /\ attempt' = 0 /\ expected' = Unknown
    /\ records' = <<>> /\ partitions' = <<>> /\ versions' = <<>> /\ disturbance' = "none"

\* An exception, whatever it was: nothing is written.
DownloadFails == Forget /\ UNCHANGED file

BeginPartition(d) ==
    /\ decade' = d /\ page' = 1 /\ attempt' = 0 /\ expected' = Unknown
    /\ records' = <<>> /\ disturbance' = "none"
    /\ listing' \in Listings(d)
    /\ versions' = Append(versions, {listing'})

\* The cached file is not used, or would have been returned.
StartDownload ==
    /\ decade = 0 /\ ~fresh
    /\ BeginPartition(1)
    /\ UNCHANGED <<file, partitions>>

Downloading == decade \in Decades

----------------------------------------------------------------------------
(* The service. *)

\* Rows are added, wherever the order of the service puts them, or deleted.
Changed(change) ==
    LET Larger(l, m) == Len(l) > Len(m) /\ ToSet(m) \subseteq ToSet(l)
    IN  {l \in Listings(decade) :
            IF change = "added" THEN Larger(l, listing) ELSE Larger(listing, l)}

CcadbChanges ==
    /\ Downloading
    /\ \E change \in {"added", "deleted"} :
          /\ disturbance \in {"none", change}
          /\ listing' \in Changed(change)
          /\ disturbance' = change
    /\ versions' = [versions EXCEPT ![decade] = @ \cup {listing'}]
    /\ UNCHANGED <<file, decade, page, attempt, expected, records, partitions>>

Honest ==
    [current |-> page,
     next |-> IF page * PageSize < Len(listing) THEN page + 1 ELSE 0,
     total |-> Len(listing),
     data |-> SubSeq(listing, (page - 1) * PageSize + 1,
                     IF page * PageSize < Len(listing) THEN page * PageSize ELSE Len(listing))]

Wrong ==
    UNION {{[Honest EXCEPT !.current = n] : n \in {0, page + 1}},
           {[Honest EXCEPT !.next = n] : n \in {0, page, page + 1, page + 2}},
           {[Honest EXCEPT !.total = n] : n \in {Honest.total - 1, Honest.total + 1}},
           {[Honest EXCEPT !.data = rows] :
               rows \in {<<>>, Honest.data \o Honest.data}}} \ {Honest}

Responses == {Honest} \cup (IF disturbance = "none" THEN Wrong ELSE {})

----------------------------------------------------------------------------
(* _request_ccadb_page and _download_ccadb_partition *)

\* No answer, an error status, or a body without list and pagination.
RequestFails ==
    /\ Downloading
    /\ IF attempt < MaxRetries - 1
       THEN /\ attempt' = attempt + 1
            /\ UNCHANGED <<file, decade, listing, page, expected, records, partitions,
                           versions, disturbance>>
       ELSE DownloadFails

\* Mutant: the total of the last page is the one that counts.
ExpectedLatest(total) == total

Expected(total) == IF expected = Unknown THEN total ELSE expected

Acceptable(response) ==
    /\ response.current = page
    /\ response.next # 0 => response.next > page
    /\ response.total = Expected(response.total)

NextPage(response) ==
    /\ Acceptable(response) /\ response.next # 0
    /\ records' = records \o response.data
    /\ page' = response.next /\ attempt' = 0
    /\ expected' = Expected(response.total)
    /\ UNCHANGED <<file, decade, listing, partitions, versions>>

LastPage(response) ==
    /\ Acceptable(response) /\ response.next = 0
    /\ Len(records \o response.data) = Expected(response.total)
    /\ partitions' = Append(partitions, records \o response.data)
    /\ IF decade + 1 \in Decades THEN BeginPartition(decade + 1)
       ELSE /\ decade' = decade + 1
            /\ listing' = <<>> /\ page' = 0 /\ attempt' = 0 /\ expected' = Unknown
            /\ records' = <<>> /\ disturbance' = "none"
            /\ UNCHANGED versions
    /\ UNCHANGED file

Refused(response) ==
    \/ ~Acceptable(response)
    \/ /\ response.next = 0
       /\ Len(records \o response.data) # Expected(response.total)

Respond(response) ==
    \/ /\ NextPage(response)
       /\ disturbance' = IF response = Honest THEN disturbance ELSE "wrong"
    \/ LastPage(response)
    \/ Refused(response) /\ DownloadFails

----------------------------------------------------------------------------

AllPartitionsDownloaded == decade = Len(RowsOf) + 1

\* The temporary file is complete before it takes the place of the last one.
ReplaceSnapshot ==
    /\ AllPartitionsDownloaded
    /\ ToSet(FlattenSeq(partitions)) \subseteq Flattens
    /\ snapshot' = FlattenSeq(partitions) /\ fresh' = TRUE
    /\ Forget

\* A row that cannot be flattened, or an error of the file system.
WriteFails == AllPartitionsDownloaded /\ DownloadFails

DownloadStep ==
    \/ RequestFails
    \/ Downloading /\ \E response \in Responses : Respond(response)
    \/ ReplaceSnapshot \/ WriteFails

\* Between runs.
Expire == decade = 0 /\ fresh /\ fresh' = FALSE /\ UNCHANGED <<snapshot, progress>>

LoseSnapshot ==
    /\ decade = 0 /\ snapshot # NoFile
    /\ snapshot' = NoFile /\ fresh' = FALSE
    /\ UNCHANGED progress

(***************************************************************************)
(* Properties                                                              *)
(***************************************************************************)

SnapshotTypeOK ==
    /\ snapshot = NoFile \/ (snapshot \in Seq(AllRows) /\ ToSet(snapshot) \subseteq Flattens)
    /\ fresh \in BOOLEAN /\ (fresh => snapshot # NoFile)
    /\ decade \in 0..Len(RowsOf) + 1
    /\ Downloading => listing \in Listings(decade) /\ page \in Nat \ {0}
    /\ attempt \in 0..MaxRetries - 1
    /\ expected \in Nat \cup {Unknown}
    /\ records \in Seq(AllRows)
    /\ partitions \in Seq(Seq(AllRows))
    /\ Len(partitions) = IF decade = 0 THEN 0 ELSE decade - 1
    /\ disturbance \in Disturbances

(***************************************************************************)
(* A new snapshot has for every decade exactly the records that CCADB had  *)
(* at one moment while the decade was downloaded: no page is missing,      *)
(* repeated or shifted by records that came, or went, between two of them. *)
(***************************************************************************)
SnapshotIsExact ==
    [][fresh' /\ ~fresh =>
          \E whole \in [Decades -> UNION ToSet(versions)] :
              /\ \A d \in Decades : whole[d] \in versions[d]
              /\ snapshot' = FlattenSeq(whole)]_snapshotVars
=============================================================================
