------------------------------ MODULE Firmware ------------------------------
(* Firmware files and what the tools do to them: extraction, byte patches  *)
(* of an extracted section (tools/patchimg.py), and files rebuilt around   *)
(* replaced sections (tools/roundtrip.py, tools/machinebuild.py), over and *)
(* over and with the files of several devices in one directory.  A file    *)
(* arrives whole: only an extraction can be cut off.                       *)
EXTENDS Container

CONSTANTS
  Stock,     \* official files: [device, magic, boot, main, updater, meta]; boot
             \* and main as Elektron stored them and what they hold
  Known,     \* KNOWN_SECTION_SHA256: the id of the images known by their digest
  BootMarks, \* the texts by which patchimg recognises a section 2 ...
  UpdaterLen, UpdaterHead, \* ... and how long a section 4 is and how it begins
  Edits,     \* sets of [at, old, new, str] somebody may ask patchimg for
  Cuts,      \* how many sections an extraction that is cut off has written
  MaxBuilds  \* bound on the files built

VARIABLES
  file,      \* the .syx in hand
  dir,       \* the sections directory: the file it came from, images by id
  asked,     \* history: the contents the file in hand is meant to have
  doubt,     \* history: dir has another file's sections, of an extraction cut
             \* off, or a section 2 or 4 patched unrecognised; file was built of it
  builds     \* how many files were built

fileVars == <<file, dir, asked, doubt, builds>>

(* An official file, and what its sections hold (external).                *)
Contained(s) ==
  [id \in 2..5 |-> CASE id = 2 -> s.boot.holds
                     [] id = 3 -> s.main.holds
                     [] id = 4 -> s.updater
                     [] id = 5 -> s.meta]

OfficialEntries(s) ==
  <<[id |-> 5, dest |-> 0, data |-> s.meta],
    [id |-> 2, dest |-> 17, data |-> s.boot.stored],
    [id |-> 4, dest |-> 3, data |-> StoreForSection(4, s.updater)],
    [id |-> 3, dest |-> 200, data |-> s.main.stored]>>

Official(s) ==
  LET framing == [device |-> s.device, k |-> s.device, count |-> Base128(0)]
  IN  Finished(BuildContainer(s.magic, OfficialEntries(s)), [start |-> framing, end |-> framing])

(* Official files are what the format allows, and what is stored in them   *)
(* is what it holds; an edit replaces bytes by as many.                    *)
ASSUME FirmwareAssumption ==
  /\ TableOff + 4 * EntrySz <= TableArea
  /\ 200 \in Word
  /\ \A s \in Stock :
       /\ s.device \in Nat /\ s.magic \in Seq(Byte) /\ Len(s.magic) = HeaderLen
       /\ s.updater \in Seq(Byte) /\ s.meta \in Seq(Byte)
       /\ \A x \in {s.boot, s.main} :
            /\ x.stored \in Seq(Byte) /\ x.holds \in Seq(Byte)
            /\ Extracted(x.stored).ok /\ Extracted(x.stored).out = x.holds
       /\ Fits(BuildContainer(s.magic, OfficialEntries(s)))
  /\ \A image \in DOMAIN Known : Known[image] \in 1..8
  /\ BootMarks \subseteq Seq(Byte) /\ UpdaterHead \in Seq(Byte) /\ UpdaterLen \in Nat
  /\ \A edits \in Edits : \A e \in edits :
       /\ e.at \in Nat \ {0} /\ e.old \in Seq(Byte) /\ e.new \in Seq(Byte)
       /\ Len(e.new) = Len(e.old)
  /\ Cuts \subseteq 0..4

Empty == [marker |-> <<>>, images |-> <<>>]

(* Every section of a file as extract reads it.                            *)
Contents(f) ==
  LET secs == Sections(ContainerOf(f))
      ids == {secs[i].id : i \in DOMAIN secs}
  IN  [id \in ids |-> Extracted(secs[CHOOSE i \in DOMAIN secs : secs[i].id = id].data)]

Images(f) == LET c == Contents(f) IN  [id \in DOMAIN c |-> c[id].out]

Readable(f) == LET c == Contents(f) IN  \A id \in DOMAIN c : c[id].ok

-----------------------------------------------------------------------------
(* Another official file is put in place of the one in hand.               *)
Download(s) ==
  /\ file' = Official(s)
  /\ asked' = Contained(s)
  /\ doubt' = [doubt EXCEPT !.file = FALSE]
  /\ UNCHANGED <<dir, builds>>

(* extract.extract and record_source.                                      *)
ExtractSections ==
  /\ Readable(file)
  /\ dir' = [marker |-> file, images |-> Images(file)]
  /\ doubt' = [doubt EXCEPT !.dir = FALSE]
  /\ UNCHANGED <<file, asked, builds>>

(* An extraction raises on a section it cannot read, or is stopped: what it*)
(* wrote so far stays, and so do the marker and the sections of before.    *)
ExtractCut(k) ==
  LET secs == Sections(ContainerOf(file))
      done == {secs[i].id : i \in 1..k}
  IN  /\ \A id \in done : Contents(file)[id].ok
      /\ dir' = [dir EXCEPT !.images =
                   [id \in done \cup DOMAIN @ |-> IF id \in done THEN Images(file)[id] ELSE @[id]]]
      /\ doubt' = [doubt EXCEPT !.dir = TRUE]
      /\ UNCHANGED <<file, asked, builds>>

(* The bytes an edit expects are where it expects them.                    *)
Found(image, e) ==
  LET end == e.at + Len(e.old) - 1
  IN  end <= Len(image) /\ SubSeq(image, e.at, end) = e.old

(* patchimg.validate: every edit is found, a string is whole, and no two   *)
(* lie on each other.                                                      *)
Valid(image, edits) ==
  /\ \A e \in edits :
       LET next == e.at + Len(e.old)
       IN  Found(image, e) /\ (e.str => next <= Len(image) /\ image[next] = 0)
  /\ \A e, g \in edits : e # g => e.at + Len(e.old) <= g.at \/ g.at + Len(g.old) <= e.at

(* patchimg.apply_patches.                                                 *)
Patched(image, edits) ==
  [i \in 1..Len(image) |->
     IF \E e \in edits : i \in e.at .. (e.at + Len(e.old) - 1)
       THEN LET e == CHOOSE e \in edits : i \in e.at .. (e.at + Len(e.old) - 1)
            IN  e.new[i - e.at + 1]
       ELSE image[i]]

ForbiddenSections == {2, 4}

(* patchimg.identify_section: by digest; a section 2 or 4 else by what it  *)
(* contains; or 0.                                                         *)
IdentifySection(image) ==
  IF image \in DOMAIN Known THEN Known[image]
  ELSE IF BootMarks \subseteq SubSeqs(image) THEN 2
  ELSE IF Len(image) = UpdaterLen /\ IsPrefix(UpdaterHead, image) THEN 4
  ELSE 0

(* Only what is declared counts.                                           *)
DeclaredBug(image, declared) == declared \notin ForbiddenSections

(* patchimg.check_section_allowed, for a section declared as declared, or  *)
(* as nothing: 0.                                                          *)
CheckSectionAllowed(image, declared) ==
  LET detected == IdentifySection(image)
  IN  /\ declared \notin ForbiddenSections /\ detected \notin ForbiddenSections
      /\ declared = 0 \/ detected = 0 \/ declared = detected

(* patchimg on an image of the directory.                                  *)
PatchImage(id, edits, declared) ==
  /\ id \in DOMAIN dir.images
  /\ CheckSectionAllowed(dir.images[id], declared)
  /\ Valid(dir.images[id], edits)
  /\ dir' = [dir EXCEPT !.images[id] = Patched(@, edits)]
  /\ doubt' = [doubt EXCEPT !.dir =
                  @ \/ /\ id \in ForbiddenSections
                       /\ IdentifySection(dir.images[id]) \notin ForbiddenSections]
  /\ UNCHANGED <<file, asked, builds>>

(* Any directory of sections will do.                                      *)
ProvenBug == dir.images # <<>>

(* roundtrip.check_provenance.                                             *)
Proven == dir.marker = file

(* roundtrip.main with --out, kept as the file in hand: every section from *)
(* the directory, which has to hold each of them.                          *)
RoundTrip ==
  /\ builds < MaxBuilds
  /\ Proven
  /\ DOMAIN asked \subseteq DOMAIN dir.images
  /\ LET c == Repacked(file, dir.images)
     IN  Fits(c) /\ file' = Finished(c, file)
  /\ asked' = dir.images
  /\ doubt' = [doubt EXCEPT !.file = @ \/ doubt.dir]
  /\ builds' = builds + 1
  /\ UNCHANGED dir

(* machinebuild.plan_and_verify and rebuild_and_check: section 3, extracted*)
(* afresh, is patched and alone replaced.                                  *)
BuildMachine(edits) ==
  /\ builds < MaxBuilds
  /\ Readable(file)
  /\ \A e \in edits : Found(Images(file)[3], e)
  /\ LET image == Patched(Images(file)[3], edits)
         c == Repacked(file, [id \in {3} |-> image])
     IN  /\ Fits(c) /\ file' = Finished(c, file)
         /\ asked' = [asked EXCEPT ![3] = image]
  /\ builds' = builds + 1
  /\ UNCHANGED <<dir, doubt>>

FileInit ==
  /\ \E s \in Stock : file = Official(s) /\ asked = Contained(s)
  /\ dir = Empty
  /\ doubt = [dir |-> FALSE, file |-> FALSE]
  /\ builds = 0

FileNext ==
  \/ \E s \in Stock : Download(s)
  \/ ExtractSections
  \/ \E k \in Cuts : ExtractCut(k)
  \/ \E id \in DOMAIN dir.images, edits \in Edits, declared \in 0..8 :
       PatchImage(id, edits, declared)
  \/ RoundTrip
  \/ \E edits \in Edits : BuildMachine(edits)

FileSpec == FileInit /\ [][FileNext]_fileVars
-----------------------------------------------------------------------------
(* Properties.                                                             *)

(* Content that classify does not take for something else once it is       *)
(* stored: section 4 is not all zeros, section 5 does not begin like a     *)
(* header.                                                                 *)
Plain(id, data) ==
  CASE id \in Packed -> TRUE
    [] id = 4 -> Sum(data) # 0
    [] id = 5 -> Classify(data) = [kind |-> "raw", data |-> data]

(* roundtrip's gate: over any chain of extractions, patches and rebuilds,  *)
(* a file holds in every section the bytes that were asked for, through    *)
(* compression, layout and transport, when classify can tell what they are.*)
SectionsKept ==
  LET c == Contents(file)
  IN  \A id \in DOMAIN asked : Plain(id, asked[id]) =>
        id \in DOMAIN c /\ c[id].ok /\ c[id].out = asked[id]

(* The four fields the bootstrap checks, which roundtrip.check_authenticity*)
(* verifies, hold in every file there ever is; counters run on, and every  *)
(* byte of a message fits in seven bits.                                   *)
Authentic ==
  LET stream == DecodeSyx(file)
      c == SubSeq(stream, 5, 4 + WordAt(stream, 1))
  IN  /\ Len(c) = WordAt(stream, 1) /\ Len(c) % 2 = 0
      /\ ContentChecksum(c) = WordAt(stream, 3)
      /\ Seal(c, file.start.device) = c
      /\ \A m \in {file.start, file.end} : m.count = Base128(Len(file.data))
      /\ \A i \in DOMAIN file.data :
           LET m == file.data[i]
           IN  /\ m.counter = Base128(FirstCounter + i - 1)
               /\ m.check = PacketChecksum(m.counter, m.payload, file.start.k)
               /\ \A b \in Range(m.payload) : b < 2^(B - 1)

(* The images hold the bootstrap and the updater of an official file of    *)
(* the device.                                                             *)
Belong(images, device) ==
  \E s \in Stock :
    /\ s.device = device
    /\ \A id \in {2, 4} : Plain(id, Contained(s)[id]) => images[id] = Contained(s)[id]

(* A device never gets another device's bootstrap or updater, nor a changed*)
(* one -- save from a directory in which an extraction was cut off, whose  *)
(* marker vouches for sections that are not its own, or in which patchimg  *)
(* was given a section 2 or 4 that it does not recognise.                  *)
OwnBootstrap == doubt.file \/ Belong(Images(file), file.start.device)

(* Storing is stable: a file these tools built is rebuilt from itself byte *)
(* for byte.                                                               *)
Stable ==
  (file \notin {Official(s) : s \in Stock} /\ \A id \in DOMAIN asked : Plain(id, asked[id]))
    => Rebuild(file, <<>>) = file
=============================================================================
