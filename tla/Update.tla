-------------------------------- MODULE Update --------------------------------
(***************************************************************************)
(* One run of the updater (src/internal/update): a release is found, by    *)
(* its metadata or as files on disk, its archive and its checksums are     *)
(* read once and compared, the archive is taken apart entry by entry, and  *)
(* the executable is replaced by a file staged beside it.  Meanwhile the   *)
(* release may be published again, files on disk may be exchanged and a    *)
(* package manager may take the installation over.                         *)
(*                                                                         *)
(* An archive stands for its own digest.  A numeric identifier of a        *)
(* version is its digits, another one its bytes.                           *)
(***************************************************************************)
EXTENDS Integers, Sequences, FiniteSets

CONSTANTS
    Systems,        \* of {"unix", "windows"}
    Modes,          \* of {"online", "manifest", "offline"}
    Archive,        \* archives, sequences of entries
    Sums,           \* checksum files: the archives listed under the archive's name
    Cases,          \* releases with the version that is required at least
    Exchanged,      \* archives and checksum files that may take their place
    MaxEntries,     \* entries an archive may have
    MaxExtracted    \* size its contents may have

\* An entry: its name with its case folded, whether that is how it is spelt, its
\* type and its size.
Entry == [name : {"exe", "wintun", "license", "bin", "doc", "unsafe"}, exact : BOOLEAN,
          type : {"file", "dir", "link"}, size : Nat]

\* A version: the digits of its three numbers and the identifiers of a prerelease.
Digits == Seq(0..9)
Identifier == [numeric : {TRUE}, text : Digits] \cup [numeric : {FALSE}, text : Seq(Nat)]
SemVersion == [core : [1..3 -> Digits], prerelease : Seq(Identifier)]

Version == {c.version : c \in Cases}
Floor == {c.floor : c \in Cases}
Release == [version : Version, archive : Archive, sums : Sums]

ASSUME UpdateAssumption ==
    /\ Systems \subseteq {"unix", "windows"}
    /\ Modes \subseteq {"online", "manifest", "offline"}
    /\ Archive \subseteq Seq(Entry)
    /\ Sums \subseteq Seq(Archive)
    /\ \A c \in Cases : /\ c.version \in SemVersion /\ c.floor \in SemVersion
                       /\ c.archive \in Archive /\ c.sums \in Sums
    /\ \A x \in Exchanged : x.archive \in Archive /\ x.sums \in Sums
    /\ MaxEntries \in Nat /\ MaxExtracted \in Nat

VARIABLES
    system, mode,
    floor,          \* the version required
    published,      \* the release as it can be read now
    metadata,       \* what was said of it when its metadata was read
    archive,        \* the archive as it was read
    sums,           \* the checksum file as it was read
    entry,          \* entries read
    found,          \* what was extracted: the entries of the files to install
    executable,     \* the program: the archive it came from, <<>> for the one before
    sidecars,       \* the other files match those of the release
    staged,         \* the temporary file beside the program exists
    managed,        \* the installation belongs to a package manager
    late,           \* since after it was looked for the last time
    step,
    verdict

updateVars == <<system, mode, floor, published, metadata, archive, sums, entry, found,
                executable, sidecars, staged, managed, late, step, verdict>>

setting == <<system, mode, floor>>
readings == <<metadata, archive, sums>>
world == <<published, managed, late>>
disk == <<executable, sidecars, staged>>

----------------------------------------------------------------------------
(* The order of versions.                                                  *)

Sign(n) == IF n < 0 THEN -1 ELSE IF n > 0 THEN 1 ELSE 0
Differ(a, b) == {i \in 1..Len(a) : i <= Len(b) /\ a[i] # b[i]}
Shorter(a, b) == IF Len(a) < Len(b) THEN Len(a) ELSE Len(b)
FirstIn(S) == CHOOSE i \in S : \A j \in S : i <= j

\* Bytewise, as strings compare.
CompareText(a, b) ==
    IF Differ(a, b) = {} THEN Sign(Len(a) - Len(b))
    ELSE LET i == FirstIn(Differ(a, b)) IN Sign(a[i] - b[i])

\* Digits without the zeros in front.
Trimmed(a) ==
    LET nonzero == {i \in 1..Len(a) : a[i] # 0} IN
    IF nonzero = {} THEN <<0>> ELSE SubSeq(a, FirstIn(nonzero), Len(a))

\* Mutant: numbers are compared as text.
compareNumericIdentifier_Text(a, b) == CompareText(a, b)

compareNumericIdentifier(a, b) ==
    LET left == Trimmed(a)
        right == Trimmed(b)
    IN  IF Len(left) # Len(right) THEN Sign(Len(left) - Len(right))
        ELSE CompareText(left, right)

comparePrereleaseIdentifier(a, b) ==
    IF a.numeric /\ b.numeric THEN compareNumericIdentifier(a.text, b.text)
    ELSE IF a.numeric THEN -1
    ELSE IF b.numeric THEN 1
    ELSE CompareText(a.text, b.text)

\* The first result that is not zero, or the last.
FirstDecided(results, last) ==
    LET decided == {i \in 1..Len(results) : results[i] # 0} IN
    IF decided = {} THEN last ELSE results[FirstIn(decided)]

compareSemver(v, w) ==
    FirstDecided(
        [i \in 1..3 |-> compareNumericIdentifier(v.core[i], w.core[i])],
        IF v.prerelease = <<>> /\ w.prerelease = <<>> THEN 0
        ELSE IF v.prerelease = <<>> THEN 1
        ELSE IF w.prerelease = <<>> THEN -1
        ELSE FirstDecided(
                [i \in 1..Shorter(v.prerelease, w.prerelease) |->
                    comparePrereleaseIdentifier(v.prerelease[i], w.prerelease[i])],
                Sign(Len(v.prerelease) - Len(w.prerelease))))

----------------------------------------------------------------------------

UpdateInit ==
    /\ system \in Systems
    /\ mode \in Modes
    /\ \E c \in Cases :
          /\ floor = c.floor
          /\ published = [version |-> c.version, archive |-> c.archive, sums |-> c.sums]
    /\ metadata = published
    /\ archive = <<>>
    /\ sums = <<>>
    /\ entry = 0
    /\ found = {}
    /\ executable \in {<<>>, published.archive}
    /\ sidecars \in BOOLEAN
    /\ staged = FALSE
    /\ managed \in BOOLEAN
    /\ late = FALSE
    /\ step = "checking"
    /\ verdict = "none"

Returns(what) ==
    /\ step' = "over"
    /\ verdict' = what
    /\ staged' = FALSE

Continues(next) ==
    /\ step' = next
    /\ UNCHANGED <<verdict, staged>>

\* The release is published anew, or the files are exchanged.
Republish ==
    /\ step \in {"archive", "sums", "extracting", "rechecking"}
    /\ \E x \in Exchanged :
          published' = [published EXCEPT !.archive = x.archive, !.sums = x.sums]
    /\ UNCHANGED <<setting, readings, entry, found, disk, managed, late, step, verdict>>

\* The marker of a package manager appears.  The update looks for it three times.
Adopt ==
    /\ step \in {"archive", "extracting", "rechecking", "replacing", "staging", "renaming"}
    /\ ~managed
    /\ managed' = TRUE
    /\ late' = (step \in {"staging", "renaming"})
    /\ UNCHANGED <<setting, readings, published, entry, found, disk, step, verdict>>

Check ==
    /\ step = "checking"
    /\ IF managed THEN Returns("managed") ELSE Continues("release")
    /\ UNCHANGED <<setting, readings, world, entry, found, executable, sidecars>>

----------------------------------------------------------------------------
(* Finding and verifying the release.                                      *)

\* The metadata give the version and the digests; offline the name of the archive
\* gives the version, and a manifest may give the digests.
FetchRelease ==
    /\ step = "release"
    /\ metadata' = published
    /\ IF compareSemver(published.version, floor) < 0
         THEN Returns("too old") ELSE Continues("archive")
    /\ UNCHANGED <<setting, archive, sums, world, entry, found, executable, sidecars>>

\* Whether the metadata, or a manifest that was given, are compared.
Vouched == mode # "offline"

ReadArchive ==
    /\ step = "archive"
    /\ archive' = published.archive
    /\ IF Vouched /\ published.archive # metadata.archive
         THEN Returns("invalid") ELSE Continues("sums")
    /\ UNCHANGED <<setting, metadata, sums, world, entry, found, executable, sidecars>>

\* The checksum file lists the archive once, with its digest.
verifyChecksumEntry(listed, a) == listed = <<a>>

ReadSums ==
    /\ step = "sums"
    /\ sums' = published.sums
    /\ IF (Vouched /\ published.sums # metadata.sums) \/ ~verifyChecksumEntry(published.sums, archive)
         THEN Returns("invalid") ELSE Continues("extracting")
    /\ UNCHANGED <<setting, metadata, archive, world, entry, found, executable, sidecars>>

----------------------------------------------------------------------------
(* Extraction.                                                             *)

\* Names are keys of what was read: with their case folded on Windows.
Alike(e, f) == e.name = f.name /\ (system = "windows" \/ e.exact = f.exact)

Sizes(a) ==
    LET sum[n \in 0..Len(a)] ==
            IF n = 0 THEN 0 ELSE sum[n - 1] + (IF a[n].type = "file" THEN a[n].size ELSE 0)
    IN  sum
Size(i) == Sizes(archive)[i]

Wanted(e) ==
    /\ e.exact
    /\ e.name \in IF system = "windows" THEN {"exe", "wintun", "license"} ELSE {"exe"}

\* The directory of the files to install was read as a file.
BeneathFile(i) ==
    /\ archive[i].exact /\ archive[i].name \in {"exe", "wintun", "license"}
    /\ \E j \in 1..(i - 1) : /\ archive[j].name = "bin" /\ archive[j].type = "file"
                             /\ system = "windows" \/ archive[j].exact

\* Every entry is looked at, in the order of the archive.
Acceptable(i) ==
    LET e == archive[i] IN
    /\ i <= MaxEntries
    /\ e.name # "unsafe"
    /\ \A j \in 1..(i - 1) : ~Alike(archive[j], e)
    /\ e.type # "link"
    /\ e.type = "file" =>
          /\ Size(i) <= MaxExtracted
          /\ ~BeneathFile(i)
    /\ Wanted(e) /\ e.type = "file" => e.size > 0

ExtractEntry ==
    /\ step = "extracting"
    /\ entry < Len(archive)
    /\ IF Acceptable(entry + 1)
         THEN /\ entry' = entry + 1
              /\ found' = IF Wanted(archive[entry + 1]) /\ archive[entry + 1].type = "file"
                            THEN found \cup {entry + 1} ELSE found
              /\ Continues("extracting")
         ELSE /\ Returns("invalid")
              /\ UNCHANGED <<entry, found>>
    /\ UNCHANGED <<setting, readings, world, executable, sidecars>>

Names == {archive[i].name : i \in found}
Needed == IF system = "windows" THEN {"exe", "wintun", "license"} ELSE {"exe"}

FinishExtraction ==
    /\ step = "extracting"
    /\ entry = Len(archive)
    /\ IF Needed \subseteq Names THEN Continues("rechecking") ELSE Returns("invalid")
    /\ UNCHANGED <<setting, readings, world, entry, found, executable, sidecars>>

Recheck ==
    /\ step = "rechecking"
    /\ IF managed THEN Returns("managed") ELSE Continues("replacing")
    /\ UNCHANGED <<setting, readings, world, entry, found, executable, sidecars>>

----------------------------------------------------------------------------
(* Replacement.                                                            *)

\* The path is resolved again and the marker looked for once more.
BeginReplace ==
    /\ step = "replacing"
    /\ IF managed THEN Returns("managed")
       ELSE IF executable = archive /\ (system = "windows" => sidecars) THEN Returns("current")
       ELSE Continues("staging")
    /\ UNCHANGED <<setting, readings, world, entry, found, executable, sidecars>>

StageExecutable ==
    /\ step = "staging"
    /\ staged' = TRUE
    /\ step' = "renaming"
    /\ UNCHANGED <<setting, readings, world, entry, found, executable, sidecars, verdict>>

\* On Windows the helper takes the staged files over.  Elsewhere the file is
\* renamed, and the command fails if the directory cannot be flushed after that.
Install ==
    /\ step = "renaming"
    /\ step' = "over"
    /\ IF system = "windows"
         THEN verdict' = "pending" /\ UNCHANGED <<executable, staged>>
         ELSE /\ executable' = archive
              /\ staged' = FALSE
              /\ verdict' \in {"updated", "failed"}
    /\ UNCHANGED <<setting, readings, world, entry, found, sidecars>>

\* A request or a step on disk fails, or the user interrupts the command.
UpdateFails ==
    /\ step \notin {"checking", "over"}
    /\ Returns("failed")
    /\ UNCHANGED <<setting, readings, world, entry, found, executable, sidecars>>

----------------------------------------------------------------------------

UpdateNext ==
    \/ Republish \/ Adopt \/ Check
    \/ FetchRelease \/ ReadArchive \/ ReadSums
    \/ ExtractEntry \/ FinishExtraction \/ Recheck
    \/ BeginReplace \/ StageExecutable \/ Install \/ UpdateFails

UpdateSpec == UpdateInit /\ [][UpdateNext]_updateVars

----------------------------------------------------------------------------

\* Every variable has its type, and a file is staged only by an update that is
\* about to install it: one that returned has removed it or given it to the helper.
UpdateTypeOK ==
    /\ system \in Systems /\ mode \in Modes /\ floor \in Floor
    /\ published \in Release /\ metadata \in Release
    /\ archive \in Archive \cup {<<>>}
    /\ sums \in Sums \cup {<<>>}
    /\ entry \in 0..Len(archive)
    /\ found \subseteq 1..entry
    /\ executable \in Archive \cup {<<>>}
    /\ {sidecars, staged, managed, late} \subseteq BOOLEAN
    /\ step \in {"checking", "release", "archive", "sums", "extracting", "rechecking",
                 "replacing", "staging", "renaming", "over"}
    /\ verdict \in {"none", "managed", "too old", "invalid", "failed", "current",
                   "updated", "pending"}
    /\ staged => step = "renaming" \/ verdict = "pending"

Replaced == verdict \in {"updated", "pending"}

\* What is installed is the archive that was verified, all of it as it was read
\* once: the checksum file that was read lists it and nothing else under its name,
\* and the metadata of an online release, or the manifest, gave its digest.
InstalledIsVerified ==
    Replaced =>
        /\ sums = <<archive>>
        /\ mode # "offline" => metadata.archive = archive /\ metadata.sums = sums
        /\ verdict = "updated" => executable = archive

\* SemVer's own order, by the values of the numbers.
Values(digits) ==
    LET value[n \in 0..Len(digits)] == IF n = 0 THEN 0 ELSE 10 * value[n - 1] + digits[n]
    IN  value
Value(digits) == Values(digits)[Len(digits)]
IdentifierPrecedes(a, b) ==
    \/ a.numeric /\ ~b.numeric
    \/ a.numeric /\ b.numeric /\ Value(a.text) < Value(b.text)
    \/ ~a.numeric /\ ~b.numeric /\ CompareText(a.text, b.text) = -1
SameIdentifier(a, b) ==
    a.numeric = b.numeric /\ (IF a.numeric THEN Value(a.text) = Value(b.text) ELSE a.text = b.text)
CorePrecedes(v, w) ==
    \E i \in 1..3 : /\ \A j \in 1..(i - 1) : Value(v[j]) = Value(w[j])
                   /\ Value(v[i]) < Value(w[i])
PrereleasePrecedes(p, q) ==
    /\ p # <<>>
    /\ \/ q = <<>>
       \/ \E i \in 1..Len(q) :
             /\ \A j \in 1..(i - 1) : j <= Len(p) /\ SameIdentifier(p[j], q[j])
             /\ i <= Len(p) => IdentifierPrecedes(p[i], q[i])
Precedes(v, w) ==
    \/ CorePrecedes(v.core, w.core)
    \/ /\ \A i \in 1..3 : Value(v.core[i]) = Value(w.core[i])
       /\ PrereleasePrecedes(v.prerelease, w.prerelease)

\* No release is installed that precedes the version required, and none is refused
\* as too old that does not.
FloorHolds ==
    /\ Replaced => ~Precedes(metadata.version, floor)
    /\ verdict = "too old" => Precedes(metadata.version, floor)

\* An archive that was taken apart says unambiguously what to install: each file
\* wanted has one regular entry, no other entry has its name, on Windows in any
\* spelling, and the whole stays within its limit.
ExtractedUnambiguously ==
    Replaced =>
        /\ Len(archive) <= MaxEntries
        /\ Size(Len(archive)) <= MaxExtracted
        /\ \A n \in Needed : \E i \in found :
              /\ archive[i].name = n /\ archive[i].type = "file"
              /\ \A j \in 1..Len(archive) :
                    archive[j].name = n /\ (system = "windows" \/ archive[j].exact) => i = j

\* An installation that a package manager has taken over is not touched, unless
\* that happened after the updater's last look.
ManagedIsKept == managed /\ ~late => ~Replaced

\* What self-update replaces a program with, and when it may.
UpdateTrusted ==
    InstalledIsVerified /\ FloorHolds /\ ExtractedUnambiguously /\ ManagedIsKept

=============================================================================
