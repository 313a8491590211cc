--------------------------- MODULE ArrivalsProofs ---------------------------
(***************************************************************************)
(* What follows a download, for any number of tracks, files, scans and     *)
(* interferences: what a release tells of its files was found in them, a   *)
(* repair is called done when it was looked at, Forever destroys no file,  *)
(* and what was filed can be undone.                                       *)
(***************************************************************************)
EXTENDS Arrivals, FiniteSetTheorems, SequenceTheorems, WellFoundedInduction, TLAPS

ArrivalConstants ==
  /\ Track \subseteq Nat /\ IsFiniteSet(Track)
  /\ 1 \in Names /\ Library \notin Names

ArrivalsSpec == ArrivalsInit /\ [][ArrivalsNext]_arrivalVars

-----------------------------------------------------------------------------
(* Types.                                                                  *)
Sender == {Original} \cup Candidate
Verdict == {"pending", "verified", "missing", "mismatch"}
Check == [result : {"none", "failed", "review", "passed"}, stamp : Nat, sonic : Nat]
Transfer ==
  [status : {"queued", "completed", "failed"}, from : Sender, at : Path,
   verification : Verdict, check : Check, filed : BOOLEAN,
   repair : {"none", "requested", "repaired"}, updated : Nat]
File == [from : Sender \cup {"others"}, whole : BOOLEAN, sound : Sounds \cup {"good"}]
Copies == UNION {[D -> Transfer] : D \in SUBSET Track}
Scan ==
  [step : {"idle", "repair", "next", "verify", "open", "decode", "compare", "publish"},
   deep : BOOLEAN, track : Nat, targets : Copies, print : Nat, reads : Nat, sonic : Nat,
   verification : Verdict, check : Check, changed : BOOLEAN]
Plan ==
  [state : {"applying", "filed", "undoing"}, originals : [Track -> Transfer \cup {NoTrack}],
   sources : UNION {[D -> Nat] : D \in SUBSET Track}]

TypeOK ==
  /\ release \in [Track -> Transfer \cup {NoTrack}]
  /\ disk \in [Path -> Nat] /\ files \in Seq(File)
  /\ \A p \in Path : disk[p] <= Len(files)
  /\ scans \in [Scanner -> Scan]
  /\ filing \in Plan \cup {NoPlan}

-----------------------------------------------------------------------------
(* A file that Forever did not write, or none; a file that the sender u    *)
(* may have sent; what a check tells, and what a transfer tells.           *)
Strange(f, fs) == f # 0 => fs[f].from = "others"
SentBy(f, u, fs) == f # 0 => fs[f].from \in {u, "others"}
Same(f, g, fs) == f = g \/ (fs[f].from = "others" /\ fs[g].from = "others")
Exists(f, fs) == f <= Len(fs)

Evidence(check, u, fs) ==
  /\ Exists(check.stamp, fs) /\ Exists(check.sonic, fs)
  /\ SentBy(check.stamp, u, fs)
  /\ check.stamp # 0 /\ check.sonic # 0 => Same(check.stamp, check.sonic, fs)
Truthful(i, t, fs, ex) ==
  /\ t.at \in {i} \X (Names \cup {Library})
  /\ Evidence(t.check, t.from, fs)
  /\ t.status # "completed" => t.check = Unchecked /\ t.verification = "pending"
  /\ t.repair = "repaired" => <<i, t.from>> \in ex

(* What is listed was not sent by anybody else.                            *)
ReleaseOK ==
  \A i \in Listed : /\ Truthful(i, release[i], files, examined)
                    /\ SentBy(disk[release[i].at], release[i].from, files)

(* What a filing has moved, and where the release says that it is.         *)
PlanOK ==
  /\ Listed \subseteq Planned /\ DOMAIN filing.sources = Planned
  /\ filing.state = "applying" => Planned \subseteq Listed
  /\ \A i \in Planned :
       /\ Truthful(i, filing.originals[i], files, examined)
       /\ filing.originals[i].status = "completed" /\ Source(i) # Filed(i)
       /\ filing.sources[i] # 0 /\ Exists(filing.sources[i], files)
       /\ SentBy(filing.sources[i], filing.originals[i].from, files)
       /\ filing.state = "applying" => SentBy(disk[Filed(i)], filing.originals[i].from, files)
       /\ filing.state = "undoing" => SentBy(disk[Source(i)], filing.originals[i].from, files)
  /\ \A i \in Listed :
       /\ release[i].status = "completed" /\ release[i].from = filing.originals[i].from
       /\ release[i].at = IF filing.state = "applying" THEN Source(i) ELSE Filed(i)
FilingOK == filing # NoPlan => PlanOK

KeptOK == \A f \in 1 .. Len(files) : f \in gone \/ f \in aside \/ \E p \in Path : disk[p] = f

-----------------------------------------------------------------------------
(* Scans.  A copy is older than the transfer, or of the same change; a     *)
(* track that is no longer listed will not be again.                       *)
Current(rel, i, b) == rel[i] # NoTrack /\ rel[i].updated = b.updated
Older(i, b, rel) ==
  /\ rel[i] = NoTrack => \A j \in Track : rel[j] = NoTrack
  /\ rel[i] # NoTrack => b.updated <= rel[i].updated
  /\ Current(rel, i, b) => rel[i].from = b.from /\ rel[i].at = b.at /\ rel[i].status = "completed"

(* While the copy is of the last change, its path holds the file whose     *)
(* fingerprint was taken, or one of other programs, or none, and a file    *)
(* that has gone does not come back.                                       *)
Watching(c, b, rel, dk, fs) ==
  Current(rel, c.track, b) =>
    /\ dk[b.at] = c.print \/ Strange(dk[b.at], fs)
    /\ c.step = "decode" =>
         /\ c.reads = c.print \/ Strange(c.reads, fs)
         /\ c.print # 0 /\ dk[b.at] = c.print => c.reads = c.print
    /\ c.step = "compare" /\ (c.print = 0 \/ dk[b.at] = c.print) => Evidence(c.check, b.from, fs)

Working == {"next", "verify", "open", "decode", "compare", "publish"}
ScanOK(c, rel, dk, fs, ex) ==
  /\ c.step = "repair" => c.track \in Track
  /\ c.step \in Working =>
       LET b == c.targets[c.track]
       IN  /\ c.track \in DOMAIN c.targets
           /\ \A i \in DOMAIN c.targets :
                /\ Truthful(i, c.targets[i], fs, ex) /\ c.targets[i].status = "completed"
                /\ Older(i, c.targets[i], rel)
           /\ c.step \in {"next", "verify", "open"} => c.check = Unchecked
           /\ c.step # "publish" => ~c.changed
           /\ c.step \in {"verify", "open", "decode", "compare"} =>
                Exists(c.print, fs) /\ Watching(c, b, rel, dk, fs)
           /\ c.step = "decode" =>
                /\ Exists(c.reads, fs) /\ Exists(c.sonic, fs)
                /\ c.sonic # 0 => c.reads # 0 /\ Same(c.reads, c.sonic, fs)
           /\ c.step \in {"compare", "publish"} =>
                Exists(c.check.stamp, fs) /\ Exists(c.check.sonic, fs)
           /\ c.step = "publish" =>
                /\ c.changed \/ Current(rel, c.track, b) => Evidence(c.check, b.from, fs)
                /\ c.deep /\ ~c.changed => <<c.track, b.from>> \in ex
ScansOK == \A s \in Scanner : ScanOK(scans[s], release, disk, files, examined)

ArrivalsInv == TypeOK /\ ReleaseOK /\ FilingOK /\ KeptOK /\ ScansOK
-----------------------------------------------------------------------------
(* Files are never forgotten: what was known of them stays true.           *)
Grows(fs, gs) == Len(fs) <= Len(gs) /\ \A f \in 1 .. Len(fs) : gs[f] = fs[f]

LEMMA StrangeStays ==
  ASSUME NEW fs \in Seq(File), NEW gs \in Seq(File), Grows(fs, gs), NEW f \in Nat, Exists(f, fs)
  PROVE  /\ Exists(f, gs) /\ (Strange(f, gs) <=> Strange(f, fs))
         /\ \A u : SentBy(f, u, gs) <=> SentBy(f, u, fs)
         /\ \A g \in Nat : Exists(g, fs) /\ f # 0 /\ g # 0 => (Same(f, g, gs) <=> Same(f, g, fs))
<1>1. Len(fs) \in Nat /\ Len(gs) \in Nat /\ Len(fs) <= Len(gs) BY DEF Grows
<1>2. f <= Len(gs) BY <1>1 DEF Exists
<1>3. \A g \in Nat : Exists(g, fs) /\ g # 0 => g \in 1 .. Len(fs) BY <1>1 DEF Exists
<1>4. \A g \in Nat : Exists(g, fs) /\ g # 0 => gs[g] = fs[g] BY <1>3 DEF Grows
<1> QED BY <1>2, <1>4 DEF Exists, Strange, SentBy, Same

LEMMA EvidenceStays ==
  ASSUME NEW fs \in Seq(File), NEW gs \in Seq(File), Grows(fs, gs), NEW check \in Check, NEW u
  PROVE  Evidence(check, u, fs) => Evidence(check, u, gs)
<1>1. check.stamp \in Nat /\ check.sonic \in Nat BY DEF Check
<1> QED BY <1>1, StrangeStays DEF Evidence

LEMMA TruthStays ==
  ASSUME NEW fs \in Seq(File), NEW gs \in Seq(File), Grows(fs, gs), NEW ex, NEW ey, ex \subseteq ey,
         NEW i, NEW t \in Transfer, Truthful(i, t, fs, ex)
  PROVE  Truthful(i, t, gs, ey)
<1>1. t.check \in Check BY DEF Transfer
<1> QED BY <1>1, EvidenceStays DEF Truthful

(* What a step may do to a release while a scan goes on.                   *)
Mild(f, g) == g = f \/ g = 0 \/ (g > Len(files) /\ files'[g].from = "others")
Calm ==
  /\ Grows(files, files') /\ examined \subseteq examined'
  /\ \A i \in Track : release[i] # NoTrack /\ release'[i] # NoTrack =>
       /\ release[i].updated <= release'[i].updated
       /\ release'[i].updated = release[i].updated =>
            /\ release'[i].from = release[i].from /\ release'[i].at = release[i].at
            /\ release'[i].status = release[i].status
            /\ release[i].status = "completed" => Mild(disk[release[i].at], disk'[release[i].at])
  /\ \A i \in Track : release[i] # NoTrack /\ release'[i] = NoTrack => \A j \in Track : release'[j] = NoTrack
  /\ \A i \in Track : release[i] = NoTrack /\ release'[i] # NoTrack => \E j \in Track : release[j] # NoTrack

LEMMA OlderStays ==
  ASSUME TypeOK, TypeOK', Calm, NEW i \in Track, NEW b \in Transfer, Older(i, b, release)
  PROVE  /\ Older(i, b, release')
         /\ Current(release', i, b) => /\ Current(release, i, b) /\ release[i].at = b.at
                                     /\ Mild(disk[b.at], disk'[b.at])
<1>1. b.updated \in Nat BY DEF Transfer
<1>2. release[i] # NoTrack => release[i].updated \in Nat BY DEF TypeOK, Transfer
<1>3. release'[i] # NoTrack => release'[i].updated \in Nat BY DEF TypeOK, Transfer
<1>4. CASE release'[i] = NoTrack
  <2>1. \A j \in Track : release'[j] = NoTrack
    <3>1. CASE release[i] = NoTrack
      <4>1. \A j \in Track : release[j] = NoTrack BY <3>1 DEF Older
      <4> QED BY <4>1 DEF Calm
    <3>2. CASE release[i] # NoTrack BY <1>4, <3>2 DEF Calm
    <3> QED BY <3>1, <3>2
  <2> QED BY <1>4, <2>1 DEF Older, Current
<1>5. CASE release'[i] # NoTrack
  <2>1. release[i] # NoTrack BY <1>5 DEF Older, Calm
  <2>2. b.updated <= release[i].updated /\ release[i].updated <= release'[i].updated
    BY <1>5, <2>1 DEF Older, Calm
  <2>3. b.updated <= release'[i].updated BY <1>1, <1>2, <1>3, <1>5, <2>1, <2>2
  <2>4. release'[i].updated = b.updated => release[i].updated = b.updated
    BY <1>1, <1>2, <1>3, <1>5, <2>1, <2>2
  <2>5. release'[i].updated = b.updated =>
          /\ release'[i].from = b.from /\ release'[i].at = b.at /\ release'[i].status = "completed"
          /\ release[i].at = b.at /\ Mild(disk[b.at], disk'[b.at])
    BY <1>5, <2>1, <2>4 DEF Older, Current, Calm
  <2> QED BY <1>5, <2>1, <2>3, <2>4, <2>5 DEF Older, Current
<1> QED BY <1>4, <1>5

LEMMA WatchStays ==
  ASSUME TypeOK, TypeOK', Calm, NEW c \in Scan, c.track \in Track, NEW b \in Transfer, Older(c.track, b, release),
         Exists(c.print, files), c.step = "decode" => Exists(c.reads, files),
         c.step = "compare" => c.check \in Check,
         Watching(c, b, release, disk, files)
  PROVE  Watching(c, b, release', disk', files')
<1> SUFFICES ASSUME Current(release', c.track, b) PROVE Watching(c, b, release', disk', files')
  BY DEF Watching
<1>1. Current(release, c.track, b) /\ Mild(disk[b.at], disk'[b.at]) BY OlderStays
<1>2. b.at \in Path /\ c.print \in Nat /\ c.reads \in Nat BY DEF Transfer, Scan
<1>3. /\ disk[b.at] \in Nat /\ Exists(disk[b.at], files)
      /\ disk'[b.at] \in Nat /\ Exists(disk'[b.at], files')
      /\ files \in Seq(File) /\ files' \in Seq(File) /\ Len(files) \in Nat /\ Grows(files, files')
  BY <1>2 DEF TypeOK, Exists, Calm
<1>4. disk'[b.at] = disk[b.at] \/ Strange(disk'[b.at], files')
  BY <1>1 DEF Mild, Strange
<1>5. Strange(disk[b.at], files) => Strange(disk[b.at], files') BY <1>3, StrangeStays
<1>6. c.print # 0 /\ disk'[b.at] = c.print => disk[b.at] = c.print
  BY <1>1, <1>2, <1>3 DEF Mild, Exists
<1>7. disk'[b.at] = c.print \/ Strange(disk'[b.at], files')
  BY <1>1, <1>4, <1>5 DEF Watching
<1>8. c.step = "decode" => /\ c.reads = c.print \/ Strange(c.reads, files')
                           /\ c.print # 0 /\ disk'[b.at] = c.print => c.reads = c.print
  BY <1>1, <1>2, <1>3, <1>6, StrangeStays DEF Watching
<1>9. c.step = "compare" /\ (c.print = 0 \/ disk'[b.at] = c.print) => Evidence(c.check, b.from, files')
  BY <1>1, <1>3, <1>6, EvidenceStays DEF Watching
<1> QED BY <1>7, <1>8, <1>9 DEF Watching

LEMMA ScanStays ==
  ASSUME TypeOK, TypeOK', Calm, NEW c \in Scan, ScanOK(c, release, disk, files, examined)
  PROVE  ScanOK(c, release', disk', files', examined')
<1> SUFFICES ASSUME c.step \in Working PROVE ScanOK(c, release', disk', files', examined')
  BY DEF ScanOK
<1> DEFINE b == c.targets[c.track]
<1>1. PICK D \in SUBSET Track : c.targets \in [D -> Transfer] BY DEF Scan, Copies
<1>2. c.track \in D /\ D = DOMAIN c.targets /\ b \in Transfer BY <1>1 DEF ScanOK
<1>3. \A i \in D : c.targets[i] \in Transfer /\ i \in Track BY <1>1
<1>4. /\ files \in Seq(File) /\ files' \in Seq(File) /\ Grows(files, files')
      /\ examined \subseteq examined'
  BY DEF TypeOK, Calm
<1>5. ASSUME NEW i \in D
      PROVE  /\ Truthful(i, c.targets[i], files', examined') /\ c.targets[i].status = "completed"
             /\ Older(i, c.targets[i], release')
  BY <1>2, <1>3, <1>4, OlderStays, TruthStays DEF ScanOK
<1>6. /\ c.print \in Nat /\ c.reads \in Nat /\ c.sonic \in Nat /\ c.check \in Check
      /\ c.check.stamp \in Nat /\ c.check.sonic \in Nat
  BY DEF Scan, Check
<1>7. c.step \in {"verify", "open", "decode", "compare"} =>
        Exists(c.print, files') /\ Watching(c, b, release', disk', files')
  <2> SUFFICES ASSUME c.step \in {"verify", "open", "decode", "compare"}
               PROVE Exists(c.print, files') /\ Watching(c, b, release', disk', files')
    OBVIOUS
  <2>1. /\ Exists(c.print, files) /\ Watching(c, b, release, disk, files)
        /\ c.step = "decode" => Exists(c.reads, files)
        /\ Older(c.track, b, release)
    BY <1>2 DEF ScanOK
  <2>2. Exists(c.print, files') BY <1>4, <1>6, <2>1, StrangeStays
  <2> HIDE DEF b
  <2>3. c.track \in Track BY <1>2, <1>3
  <2> QED BY <1>2, <1>6, <2>1, <2>2, <2>3, WatchStays
<1>8. c.step = "decode" => /\ Exists(c.reads, files') /\ Exists(c.sonic, files')
                           /\ c.sonic # 0 => c.reads # 0 /\ Same(c.reads, c.sonic, files')
  BY <1>4, <1>6, StrangeStays DEF ScanOK
<1>9. c.step \in {"compare", "publish"} => Exists(c.check.stamp, files') /\ Exists(c.check.sonic, files')
  BY <1>4, <1>6, StrangeStays DEF ScanOK
<1>10. c.step = "publish" =>
         /\ c.changed \/ Current(release', c.track, b) => Evidence(c.check, b.from, files')
         /\ c.deep /\ ~c.changed => <<c.track, b.from>> \in examined'
  <2> SUFFICES ASSUME c.step = "publish"
               PROVE /\ c.changed \/ Current(release', c.track, b) => Evidence(c.check, b.from, files')
                     /\ c.deep /\ ~c.changed => <<c.track, b.from>> \in examined'
    OBVIOUS
  <2>1. /\ c.changed \/ Current(release, c.track, b) => Evidence(c.check, b.from, files)
        /\ c.deep /\ ~c.changed => <<c.track, b.from>> \in examined
        /\ Older(c.track, b, release)
    BY <1>2 DEF ScanOK
  <2> HIDE DEF b
  <2>2. Current(release', c.track, b) => Current(release, c.track, b) BY <1>2, <1>3, <2>1, OlderStays
  <2>3. Evidence(c.check, b.from, files) => Evidence(c.check, b.from, files') BY <1>4, <1>6, EvidenceStays
  <2> QED BY <1>4, <2>1, <2>2, <2>3
<1> QED BY <1>1, <1>2, <1>5, <1>7, <1>8, <1>9, <1>10 DEF ScanOK

-----------------------------------------------------------------------------
(* Steps of everything but scans.                                          *)
LEMMA InitInv ==
  ASSUME ArrivalConstants, ArrivalsInit PROVE ArrivalsInv
<1>1. \A i \in Track : <<i, 1>> \in Path BY DEF ArrivalConstants, Path
<1>2. Unchecked \in Check BY DEF Unchecked, Check
<1>3. \A i \in Track : Blank(Original, <<i, 1>>) \in Transfer
  BY <1>1, <1>2 DEF Blank, Transfer, Sender, Verdict
<1>4. Idle \in Scan
  <2>1. <<>> \in Copies
    <3>1. <<>> \in [{} -> Transfer] OBVIOUS
    <3> QED BY <3>1 DEF Copies
  <2> QED BY <1>2, <2>1 DEF Idle, Scan, Verdict
<1>5. TypeOK
  BY <1>3, <1>4 DEF ArrivalsInit, TypeOK
<1>6. ReleaseOK
  <2> SUFFICES ASSUME NEW i \in Track, release[i] # NoTrack
               PROVE /\ Truthful(i, release[i], files, examined)
                     /\ SentBy(disk[release[i].at], release[i].from, files)
    BY DEF ReleaseOK, Listed
  <2>1. release[i] = Blank(Original, <<i, 1>>) /\ files = <<>> BY DEF ArrivalsInit
  <2>2. disk[<<i, 1>>] = 0 BY <1>1 DEF ArrivalsInit
  <2>3. <<i, 1>> \in {i} \X (Names \cup {Library}) BY DEF ArrivalConstants
  <2> QED BY <2>1, <2>2, <2>3 DEF Blank, Truthful, Evidence, Exists, SentBy, Unchecked
<1>7. FilingOK BY DEF ArrivalsInit, FilingOK
<1>8. KeptOK BY DEF ArrivalsInit, KeptOK
<1>9. ScansOK BY DEF ArrivalsInit, ScansOK, ScanOK, Working, Idle
<1> QED BY <1>5, <1>6, <1>7, <1>8, <1>9 DEF ArrivalsInv

LEMMA SameScans ==
  ASSUME ArrivalsInv, TypeOK', Calm, UNCHANGED scans PROVE ScansOK'
<1> SUFFICES ASSUME NEW s \in Scanner
             PROVE ScanOK(scans[s], release', disk', files', examined')
  BY DEF ScansOK
<1>1. scans[s] \in Scan /\ ScanOK(scans[s], release, disk, files, examined) BY DEF ArrivalsInv, TypeOK, ScansOK
<1> QED BY <1>1, ScanStays DEF ArrivalsInv

LEMMA SameFiles ==
  ASSUME ArrivalsInv, UNCHANGED <<fileVars, examined>>
  PROVE  Grows(files, files') /\ examined \subseteq examined' /\ KeptOK'
BY DEF fileVars, Grows, ArrivalsInv, KeptOK

(* The filing goes on, of what is where it was.                            *)
LEMMA SamePlan ==
  ASSUME ArrivalsInv, UNCHANGED <<fileVars, filing, examined>>,
         Listed' \subseteq Listed, filing.state = "applying" => Listed \subseteq Listed',
         \A i \in Listed' : /\ release'[i].status = release[i].status
                            /\ release'[i].from = release[i].from /\ release'[i].at = release[i].at
  PROVE  FilingOK'
<1> SUFFICES ASSUME filing # NoPlan PROVE PlanOK' BY DEF FilingOK
<1>1. PlanOK BY DEF ArrivalsInv, FilingOK
<1>2. /\ Planned' = Planned /\ \A i : Source(i)' = Source(i) /\ Filed(i)' = Filed(i)
      /\ disk' = disk /\ files' = files /\ filing' = filing
  BY DEF Planned, Source, Filed, fileVars
<1>3. Listed' \subseteq Planned' /\ DOMAIN filing'.sources = Planned' BY <1>1, <1>2 DEF PlanOK
<1>4. filing'.state = "applying" => Planned' \subseteq Listed' BY <1>1, <1>2 DEF PlanOK
<1> QED BY <1>1, <1>2, <1>3, <1>4 DEF PlanOK

(* Nobody waits for a file while something is filed.                       *)
LEMMA QueuedIsNotHeld ==
  ASSUME ArrivalsInv, NEW i \in Listed, release[i].status # "completed" PROVE filing = NoPlan
BY DEF ArrivalsInv, FilingOK, PlanOK

LEMMA ListedType ==
  ASSUME TypeOK, NEW i \in Listed
  PROVE  /\ i \in Track /\ release[i] \in Transfer /\ release[i] # NoTrack
         /\ release[i].at \in Path /\ release[i].updated \in Nat /\ release[i].check \in Check
         /\ disk[release[i].at] \in Nat /\ Exists(disk[release[i].at], files)
BY DEF Listed, TypeOK, Transfer, Exists

LEMMA NotListed ==
  ASSUME NEW t \in Transfer PROVE t # NoTrack
BY DEF Transfer, NoTrack

LEMMA VerifiedIs ==
  ASSUME NEW t \in Transfer
  PROVE  /\ Verified(t) \in Transfer
         /\ Verified(t).status = t.status /\ Verified(t).from = t.from /\ Verified(t).at = t.at
         /\ Verified(t).repair = t.repair /\ Verified(t).updated = t.updated
         /\ Verified(t).check \in {t.check, Unchecked}
         /\ t.status # "completed" => Verified(t).check = Unchecked /\ Verified(t).verification = "pending"
<1>1. Unchecked \in Check BY DEF Unchecked, Check
<1>2. Verification(disk[t.at]) \in Verdict BY DEF Verification, Verdict
<1>3. "pending" \in Verdict BY DEF Verdict
<1> QED BY <1>1, <1>2, <1>3 DEF Verified, Transfer

LEMMA NothingIsTrue == \A u, fs : Len(fs) \in Nat => Evidence(Unchecked, u, fs)
BY DEF Evidence, Unchecked, Exists, SentBy

LEMMA VerifiedIsTrue ==
  ASSUME NEW t \in Transfer, NEW i, NEW fs \in Seq(File), NEW ex, Truthful(i, t, fs, ex)
  PROVE  Truthful(i, Verified(t), fs, ex)
<1>1. Evidence(Verified(t).check, t.from, fs) BY VerifiedIs, NothingIsTrue DEF Truthful
<1> QED BY <1>1, VerifiedIs DEF Truthful

(* A step that changes one transfer.                                       *)
LEMMA OneChanged ==
  ASSUME TypeOK, NEW i \in Listed, NEW t \in Transfer, release' = [release EXCEPT ![i] = t]
  PROVE  /\ release' \in [Track -> Transfer \cup {NoTrack}] /\ release'[i] = t
         /\ \A j \in Track \ {i} : release'[j] = release[j]
         /\ Listed' = Listed
<1>1. release \in [Track -> Transfer \cup {NoTrack}] /\ i \in Track /\ release[i] # NoTrack
  BY DEF TypeOK, Listed
<1>2. release' \in [Track -> Transfer \cup {NoTrack}] /\ release'[i] = t
      /\ \A j \in Track \ {i} : release'[j] = release[j]
  BY <1>1
<1>3. \A j \in Track : release'[j] # NoTrack <=> release[j] # NoTrack BY <1>1, <1>2, NotListed
<1> QED BY <1>2, <1>3 DEF Listed

LEMMA ChangedIs ==
  ASSUME NEW t \in Transfer
  PROVE  /\ Changed(t) \in Transfer /\ Changed(t).updated = t.updated + 1
         /\ Changed(t).status = t.status /\ Changed(t).from = t.from /\ Changed(t).at = t.at
         /\ Changed(t).repair = t.repair /\ Changed(t).check = t.check
         /\ Changed(t).verification = t.verification /\ Changed(t).filed = t.filed
BY DEF Changed, Transfer

(* A step that changes what the transfers say, and neither their senders   *)
(* and paths nor any file.                                                 *)
Retold ==
  /\ release' \in [Track -> Transfer \cup {NoTrack}]
  /\ \A i \in Track : release[i] = NoTrack => release'[i] = NoTrack
  /\ \A i \in Listed :
       /\ release'[i] # NoTrack /\ Truthful(i, release'[i], files, examined)
       /\ release'[i].from = release[i].from /\ release'[i].at = release[i].at
       /\ filing # NoPlan => release'[i].status = release[i].status
       /\ \/ release'[i].updated = release[i].updated /\ release'[i].status = release[i].status
          \/ release'[i].updated = release[i].updated + 1
Rewritten == UNCHANGED <<fileVars, restVars>> /\ Retold

LEMMA RetoldStep ==
  ASSUME ArrivalsInv, UNCHANGED <<fileVars, filing, examined>>, Retold, scans' \in [Scanner -> Scan]
  PROVE  TypeOK' /\ Calm /\ ReleaseOK' /\ FilingOK' /\ KeptOK'
<1>1. UNCHANGED <<disk, files, aside, gone, filing, examined>> BY DEF fileVars
<1>2. TypeOK' BY <1>1 DEF ArrivalsInv, TypeOK, Retold
<1>3. Listed' = Listed BY DEF Listed, Retold
<1>4. Calm
  <2>1. \A i \in Listed : release[i].updated \in Nat BY ListedType DEF ArrivalsInv
  <2>2. Grows(files, files') /\ examined \subseteq examined' BY SameFiles
  <2>3. \A i \in Track : release[i] # NoTrack <=> i \in Listed BY DEF Listed
  <2>4. \A i \in Listed : release[i].updated <= release'[i].updated BY <2>1 DEF Retold
  <2>5. \A i \in Listed : release'[i].updated = release[i].updated => release'[i].status = release[i].status
    BY <2>1 DEF Retold
  <2> QED BY <1>1, <2>2, <2>3, <2>4, <2>5 DEF Calm, Mild, Retold
<1>5. ReleaseOK' BY <1>1, <1>3 DEF ArrivalsInv, ReleaseOK, Retold
<1>6. FilingOK'
  <2>1. CASE filing = NoPlan BY <1>1, <2>1 DEF FilingOK
  <2>2. CASE filing # NoPlan BY <1>3, <2>2, SamePlan DEF Retold
  <2> QED BY <2>1, <2>2
<1>7. KeptOK' BY SameFiles
<1> QED BY <1>2, <1>4, <1>5, <1>6, <1>7

LEMMA RewrittenStep ==
  ASSUME ArrivalsInv, Rewritten PROVE ArrivalsInv'
<1>1. UNCHANGED <<fileVars, filing, examined>> /\ UNCHANGED scans /\ Retold BY DEF Rewritten, restVars
<1>2. scans' \in [Scanner -> Scan] BY <1>1 DEF ArrivalsInv, TypeOK
<1>3. TypeOK' /\ Calm /\ ReleaseOK' /\ FilingOK' /\ KeptOK' BY <1>1, <1>2, RetoldStep
<1> QED BY <1>1, <1>3, SameScans DEF ArrivalsInv

LEMMA IsNoTrack == ASSUME TypeOK, NEW i \in Track, i \notin Listed PROVE release[i] = NoTrack /\ release[i].status = "none"
BY DEF Listed, NoTrack

LEMMA FailStep ==
  ASSUME ArrivalsInv, NEW i \in Track, Fail(i) PROVE ArrivalsInv'
<1> DEFINE u == [Changed(release[i]) EXCEPT !.status = "failed"]
<1>1. i \in Listed /\ release[i].status = "queued" BY DEF Fail, Listed, NoTrack
<1>2. release[i] \in Transfer BY <1>1, ListedType DEF ArrivalsInv
<1>3. Changed(release[i]) \in Transfer BY <1>2, ChangedIs
<1>4. u \in Transfer BY <1>3 DEF Transfer
<1>5. /\ u.status = "failed" /\ u.updated = release[i].updated + 1
      /\ u.from = release[i].from /\ u.at = release[i].at /\ u.repair = release[i].repair
      /\ u.check = release[i].check /\ u.verification = release[i].verification
  BY <1>2, <1>3, ChangedIs DEF Transfer
<1>6. release' = [release EXCEPT ![i] = u] BY DEF Fail
<1> HIDE DEF u
<1>7. /\ release' \in [Track -> Transfer \cup {NoTrack}] /\ release'[i] = u
      /\ \A j \in Track \ {i} : release'[j] = release[j]
  BY <1>1, <1>4, <1>6, OneChanged DEF ArrivalsInv
<1>8. Truthful(i, u, files, examined)
  BY <1>1, <1>5 DEF ArrivalsInv, ReleaseOK, Truthful
<1>9. filing = NoPlan BY <1>1, QueuedIsNotHeld
<1>10. \A j \in Track : release[j] = NoTrack => release'[j] = NoTrack BY <1>1, <1>7 DEF Listed
<1>11. \A j \in Listed : release[j] # NoTrack /\ Truthful(j, release[j], files, examined)
  BY DEF ArrivalsInv, ReleaseOK, Listed
<1>12. Rewritten
  <2>1. \A j \in Listed : j # i => release'[j] = release[j] BY <1>7 DEF Listed
  <2> QED BY <1>4, <1>5, <1>7, <1>8, <1>9, <1>10, <1>11, <2>1, NotListed DEF Rewritten, Retold, Fail
<1> QED BY <1>12, RewrittenStep

LEMMA VerifyStep ==
  ASSUME ArrivalsInv, Verify PROVE ArrivalsInv'
<1>1. \A i \in Track \ Listed : release'[i] = NoTrack BY IsNoTrack DEF ArrivalsInv, Verify
<1>2. ASSUME NEW i \in Listed
      PROVE  /\ release'[i] \in Transfer /\ Truthful(i, release'[i], files, examined)
             /\ release'[i].from = release[i].from /\ release'[i].at = release[i].at
             /\ release'[i].status = release[i].status /\ release'[i].updated = release[i].updated
  <2>1. i \in Track /\ release[i] \in Transfer BY ListedType DEF ArrivalsInv
  <2>2. Truthful(i, release[i], files, examined) /\ files \in Seq(File) BY DEF ArrivalsInv, ReleaseOK, TypeOK
  <2>3. release'[i] = IF release[i].status = "completed" THEN Verified(release[i]) ELSE release[i]
    BY <2>1 DEF Verify
  <2> QED BY <2>1, <2>2, <2>3, VerifiedIs, VerifiedIsTrue
<1>3. release' \in [Track -> Transfer \cup {NoTrack}]
  <2>1. \A i \in Track : release'[i] \in Transfer \cup {NoTrack} BY <1>1, <1>2
  <2> QED BY <2>1 DEF Verify
<1>4. \A i \in Track : release[i] = NoTrack => release'[i] = NoTrack BY <1>1 DEF Listed
<1>5. Rewritten BY <1>2, <1>3, <1>4, NotListed DEF Rewritten, Retold, Verify
<1> QED BY <1>5, RewrittenStep

LEMMA RetryStep ==
  ASSUME ArrivalsInv, RetryIssues PROVE ArrivalsInv'
<1> DEFINE again(t) == t.status = "failed" \/ Verified(t).verification = "missing"
           anew(t) == [Changed(t) EXCEPT !.status = "queued", !.verification = "pending",
                                         !.check = Unchecked]
<1>0. /\ \A i \in Track : release'[i] =
           CASE release[i] = NoTrack -> NoTrack
             [] release[i] # NoTrack /\ again(release[i]) -> anew(release[i])
             [] OTHER -> IF release[i].status = "completed" THEN Verified(release[i]) ELSE release[i]
      /\ release' = [i \in Track |-> release'[i]]
      /\ filing = NoPlan /\ UNCHANGED <<fileVars, restVars>>
  BY DEF RetryIssues, Held
<1>1. \A i \in Track \ Listed : release'[i] = NoTrack BY <1>0, IsNoTrack DEF ArrivalsInv
<1>2. ASSUME NEW i \in Listed
      PROVE  /\ release'[i] \in Transfer /\ Truthful(i, release'[i], files, examined)
             /\ release'[i].from = release[i].from /\ release'[i].at = release[i].at
             /\ \/ release'[i].updated = release[i].updated /\ release'[i].status = release[i].status
                \/ release'[i].updated = release[i].updated + 1
  <2> DEFINE t == release[i]
  <2>1. i \in Track /\ t \in Transfer /\ t # NoTrack BY ListedType DEF ArrivalsInv
  <2>2. Truthful(i, t, files, examined) /\ files \in Seq(File) BY DEF ArrivalsInv, ReleaseOK, TypeOK
  <2>3. CASE again(t)
    <3>1. release'[i] = anew(t) BY <1>0, <2>1, <2>3
    <3>2. Changed(t) \in Transfer /\ Unchecked \in Check BY <2>1, ChangedIs DEF Unchecked, Check
    <3>3. anew(t) \in Transfer BY <3>2 DEF Transfer, Verdict
    <3>4. /\ anew(t).from = t.from /\ anew(t).at = t.at /\ anew(t).updated = t.updated + 1
          /\ anew(t).check = Unchecked /\ anew(t).verification = "pending"
          /\ anew(t).repair = t.repair /\ anew(t).status = "queued"
      BY <2>1, <3>2, ChangedIs DEF Transfer
    <3> HIDE DEF anew
    <3>5. Truthful(i, anew(t), files, examined) BY <2>2, <3>4, NothingIsTrue DEF Truthful
    <3> QED BY <3>1, <3>3, <3>4, <3>5
  <2>4. CASE ~again(t)
    <3>1. release'[i] = IF t.status = "completed" THEN Verified(t) ELSE t BY <1>0, <2>1, <2>4
    <3> QED BY <2>1, <2>2, <3>1, VerifiedIs, VerifiedIsTrue
  <2> QED BY <2>3, <2>4
<1>3. release' \in [Track -> Transfer \cup {NoTrack}]
  <2>1. \A i \in Track : release'[i] \in Transfer \cup {NoTrack} BY <1>1, <1>2
  <2> QED BY <1>0, <2>1
<1>4. \A i \in Track : release[i] = NoTrack => release'[i] = NoTrack BY <1>1 DEF Listed
<1>5. Rewritten BY <1>0, <1>2, <1>3, <1>4, NotListed DEF Rewritten, Retold
<1> QED BY <1>5, RewrittenStep

LEMMA SetFiledStep ==
  ASSUME ArrivalsInv, NEW filed \in BOOLEAN, SetFiled(filed) PROVE ArrivalsInv'
<1>1. \A i \in Track \ Listed : release'[i] = NoTrack BY DEF SetFiled
<1>2. ASSUME NEW i \in Listed
      PROVE  /\ release'[i] \in Transfer /\ Truthful(i, release'[i], files, examined)
             /\ release'[i].from = release[i].from /\ release'[i].at = release[i].at
             /\ release'[i].status = release[i].status /\ release'[i].updated = release[i].updated
  <2>1. i \in Track /\ release[i] \in Transfer BY ListedType DEF ArrivalsInv
  <2>2. Truthful(i, release[i], files, examined) BY DEF ArrivalsInv, ReleaseOK
  <2>3. release'[i] = [release[i] EXCEPT !.filed = filed] BY <2>1 DEF SetFiled
  <2> QED BY <2>1, <2>2, <2>3 DEF Transfer, Truthful
<1>3. release' \in [Track -> Transfer \cup {NoTrack}]
  <2>1. \A i \in Track : release'[i] \in Transfer \cup {NoTrack} BY <1>1, <1>2
  <2> QED BY <2>1 DEF SetFiled
<1>4. \A i \in Track : release[i] = NoTrack => release'[i] = NoTrack BY <1>1 DEF Listed
<1>5. Rewritten BY <1>2, <1>3, <1>4, NotListed DEF Rewritten, Retold, SetFiled
<1> QED BY <1>5, RewrittenStep

LEMMA ClearStep ==
  ASSUME ArrivalsInv, ClearHistory PROVE ArrivalsInv'
<1>1. /\ UNCHANGED <<disk, files, aside, gone, scans, filing, examined>>
      /\ \A i \in Track : release'[i] = NoTrack
      /\ release' \in [Track -> Transfer \cup {NoTrack}]
  BY DEF ClearHistory, fileVars, restVars
<1>2. TypeOK' BY <1>1 DEF ArrivalsInv, TypeOK
<1>3. Listed' = {} BY <1>1 DEF Listed
<1>4. UNCHANGED <<fileVars, examined>> BY DEF ClearHistory, restVars
<1>5. Calm BY <1>1, <1>4, SameFiles DEF Calm
<1>6. ReleaseOK' BY <1>3 DEF ReleaseOK
<1>7. FilingOK'
  <2>1. filing.state # "applying" BY DEF ClearHistory, Busy
  <2> QED BY <1>1, <1>3, <1>4, <2>1, SamePlan
<1>8. KeptOK' BY <1>4, SameFiles
<1> QED BY <1>1, <1>2, <1>5, <1>6, <1>7, <1>8, SameScans DEF ArrivalsInv

(* Paths of different tracks differ.                                       *)
LEMMA Apart ==
  ASSUME ArrivalsInv, NEW i \in Listed, NEW j \in Listed, i # j
  PROVE  release[i].at # release[j].at
BY DEF ArrivalsInv, ReleaseOK, Truthful

LEMMA FreeIs ==
  ASSUME NEW i, NEW at \in Free(i)
  PROVE  at \in {i} \X (Names \cup {Library}) /\ disk[at] = 0
<1>1. PICK n \in Names : at = <<i, n>> /\ disk[<<i, n>>] = 0 BY DEF Free
<1> QED BY <1>1

LEMMA UnfiledIs ==
  ASSUME ArrivalsInv
  PROVE  /\ Unfiled \in [Track -> Transfer \cup {NoTrack}]
         /\ \A i \in Track \ Listed : Unfiled[i] = NoTrack
         /\ \A i \in Listed :
              /\ Unfiled[i] \in Transfer /\ Truthful(i, Unfiled[i], files, examined)
              /\ Unfiled[i].from = release[i].from /\ Unfiled[i].at = release[i].at
              /\ Unfiled[i].status = release[i].status /\ Unfiled[i].updated = release[i].updated
<1>1. \A i \in Track \ Listed : Unfiled[i] = NoTrack BY DEF Unfiled
<1>2. ASSUME NEW i \in Listed
      PROVE  /\ Unfiled[i] \in Transfer /\ Truthful(i, Unfiled[i], files, examined)
             /\ Unfiled[i].from = release[i].from /\ Unfiled[i].at = release[i].at
             /\ Unfiled[i].status = release[i].status /\ Unfiled[i].updated = release[i].updated
  <2>1. i \in Track /\ release[i] \in Transfer BY ListedType DEF ArrivalsInv
  <2>2. Truthful(i, release[i], files, examined) BY DEF ArrivalsInv, ReleaseOK
  <2>3. Unfiled[i] = [release[i] EXCEPT !.filed = FALSE] BY <2>1 DEF Unfiled
  <2> QED BY <2>1, <2>2, <2>3 DEF Transfer, Truthful
<1>3. \A i \in Track : Unfiled[i] \in Transfer \cup {NoTrack} BY <1>1, <1>2
<1> QED BY <1>1, <1>2, <1>3 DEF Unfiled

LEMMA BlankIs ==
  ASSUME NEW i \in Track, NEW c \in Sender, NEW at \in {i} \X (Names \cup {Library})
  PROVE  /\ at \in Path /\ Blank(c, at) \in Transfer
         /\ Blank(c, at).from = c /\ Blank(c, at).at = at /\ Blank(c, at).check = Unchecked
         /\ Blank(c, at).verification = "pending" /\ Blank(c, at).updated = 0
         /\ Blank(c, at).status = "queued"
<1>1. at \in Path BY DEF Path
<1>2. Unchecked \in Check BY DEF Unchecked, Check
<1> QED BY <1>1, <1>2 DEF Blank, Transfer, Verdict

(* A transfer that begins anew, at a path where nothing is.                *)
Renewed(i, t, c) ==
  /\ t \in Transfer /\ t.from = c /\ t.status = "queued" /\ t.check = Unchecked
  /\ t.verification = "pending" /\ t.repair = "requested"
  /\ t.at \in {i} \X (Names \cup {Library}) /\ disk'[t.at] = 0

LEMMA RenewedStep ==
  ASSUME ArrivalsInv, NEW i \in Track, NEW c \in Candidate, NEW t, Renewed(i, t, c), ~Held,
         Listed # {}, i \in Listed => t.updated = release[i].updated + 1,
         release' = [Unfiled EXCEPT ![i] = t],
         UNCHANGED <<files, gone, restVars>>, aside \subseteq aside',
         disk' \in [Path -> Nat],
         \A p \in Path : /\ disk'[p] = disk[p] \/ (disk'[p] = 0 /\ (disk[p] = 0 \/ disk[p] \in aside'))
                         /\ disk'[p] # disk[p] => i \in Listed /\ p = release[i].at
  PROVE  ArrivalsInv'
<1>0. UNCHANGED <<files, gone, scans, filing, examined>> BY DEF restVars
<1>1. /\ release' \in [Track -> Transfer \cup {NoTrack}] /\ release'[i] = t
      /\ \A j \in Track \ {i} : release'[j] = Unfiled[j]
  BY UnfiledIs DEF Renewed
<1>2. Listed' = Listed \cup {i}
  <2>1. t # NoTrack BY NotListed DEF Renewed
  <2>2. \A j \in Track : Unfiled[j] # NoTrack <=> j \in Listed BY UnfiledIs, NotListed
  <2> QED BY <1>1, <2>1, <2>2 DEF Listed
<1>3. TypeOK'
  <2>1. \A p \in Path : disk'[p] <= Len(files') BY <1>0 DEF ArrivalsInv, TypeOK
  <2> QED BY <1>0, <1>1, <2>1 DEF ArrivalsInv, TypeOK
<1>4. Grows(files, files') /\ examined \subseteq examined' BY <1>0 DEF Grows, ArrivalsInv, TypeOK
<1>5. ASSUME NEW j \in Listed, j # i
      PROVE  /\ release'[j].from = release[j].from /\ release'[j].at = release[j].at
             /\ release'[j].status = release[j].status /\ release'[j].updated = release[j].updated
             /\ Truthful(j, release'[j], files, examined)
             /\ disk'[release[j].at] = disk[release[j].at] /\ release[j].updated \in Nat
  <2>1. j \in Track /\ release[j].at \in Path /\ release[j].updated \in Nat BY ListedType DEF ArrivalsInv
  <2>2. i \in Listed => release[j].at # release[i].at BY Apart, <1>5
  <2> QED BY <1>1, <1>5, <2>1, <2>2, UnfiledIs
<1>6. Calm
  <2>1. ASSUME NEW j \in Track, release[j] # NoTrack, release'[j] # NoTrack
        PROVE  /\ release[j].updated <= release'[j].updated
               /\ release'[j].updated = release[j].updated =>
                    /\ release'[j].from = release[j].from /\ release'[j].at = release[j].at
                    /\ release'[j].status = release[j].status
                    /\ release[j].status = "completed" => Mild(disk[release[j].at], disk'[release[j].at])
    <3>1. j \in Listed /\ release[j].updated \in Nat BY <2>1, ListedType DEF ArrivalsInv, Listed
    <3>2. CASE j = i BY <1>1, <3>1, <3>2
    <3>3. CASE j # i BY <1>5, <3>1, <3>3 DEF Mild
    <3> QED BY <3>2, <3>3
  <2>2. \A j \in Track : release[j] # NoTrack => release'[j] # NoTrack BY <1>2 DEF Listed
  <2>3. \E j \in Track : release[j] # NoTrack BY DEF Listed
  <2> QED BY <1>4, <2>1, <2>2, <2>3 DEF Calm
<1>7. ReleaseOK'
  <2>1. Truthful(i, t, files, examined)
    BY NothingIsTrue DEF Renewed, Truthful, ArrivalsInv, TypeOK
  <2>2. SentBy(disk'[t.at], t.from, files) BY DEF Renewed, SentBy
  <2>3. ASSUME NEW j \in Listed, j # i PROVE SentBy(disk'[release'[j].at], release'[j].from, files)
    BY <1>5, <2>3 DEF ArrivalsInv, ReleaseOK
  <2> QED BY <1>0, <1>1, <1>2, <1>5, <2>1, <2>2, <2>3 DEF ReleaseOK
<1>8. FilingOK' BY <1>0 DEF FilingOK, Held
<1>9. KeptOK'
  <2> SUFFICES ASSUME NEW f \in 1 .. Len(files), f \notin gone, f \notin aside'
               PROVE \E p \in Path : disk'[p] = f
    BY <1>0 DEF KeptOK
  <2>1. PICK p \in Path : disk[p] = f BY DEF ArrivalsInv, KeptOK
  <2>2. f # 0 BY DEF ArrivalsInv, TypeOK
  <2> QED BY <2>1, <2>2
<1> QED BY <1>0, <1>3, <1>6, <1>7, <1>8, <1>9, SameScans DEF ArrivalsInv

LEMMA PatchStep ==
  ASSUME ArrivalsInv, NEW c \in Candidate, NEW i \in Track, Patch(i, c) PROVE ArrivalsInv'
<1> DEFINE r == release[i]
           f == disk[r.at]
           renewed(at) == [Changed(Blank(c, at)) EXCEPT !.repair = "requested", !.updated = r.updated + 1]
<1>1. /\ i \in Listed /\ ~Held /\ aside' = (IF f = 0 THEN aside ELSE aside \cup {f})
      /\ disk' = [disk EXCEPT ![r.at] = 0] /\ UNCHANGED <<files, gone, restVars>>
  BY DEF Patch
<1>2. PICK at \in {r.at} \cup Free(i) : release' = [Unfiled EXCEPT ![i] = renewed(at)]
  BY DEF Patch
<1>3. r \in Transfer /\ r.at \in Path /\ r.updated \in Nat /\ f \in Nat BY <1>1, ListedType DEF ArrivalsInv
<1>4. disk \in [Path -> Nat] BY DEF ArrivalsInv, TypeOK
<1>5. at \in {i} \X (Names \cup {Library}) /\ disk'[at] = 0
  <2>1. r.at \in {i} \X (Names \cup {Library}) /\ disk'[r.at] = 0
    BY <1>1, <1>3, <1>4 DEF ArrivalsInv, ReleaseOK, Truthful
  <2>2. at \in Free(i) => at \in {i} \X (Names \cup {Library}) /\ disk[at] = 0 BY FreeIs
  <2>3. at \in Free(i) => at \in Path BY <2>2 DEF Path
  <2> QED BY <1>1, <1>4, <2>1, <2>2, <2>3
<1>6. Renewed(i, renewed(at), c) /\ renewed(at).updated = r.updated + 1
  <2>1. c \in Sender BY DEF Sender
  <2>2. /\ at \in Path /\ Blank(c, at) \in Transfer
        /\ Blank(c, at).from = c /\ Blank(c, at).at = at /\ Blank(c, at).check = Unchecked
        /\ Blank(c, at).verification = "pending" /\ Blank(c, at).updated = 0
        /\ Blank(c, at).status = "queued"
    BY <1>5, <2>1, BlankIs
  <2> DEFINE d == Changed(Blank(c, at))
  <2>3. /\ d \in Transfer /\ d.from = c /\ d.at = at /\ d.check = Unchecked
        /\ d.verification = "pending" /\ d.status = "queued"
    BY <2>2, ChangedIs
  <2>4. renewed(at) = [d EXCEPT !.repair = "requested", !.updated = r.updated + 1] OBVIOUS
  <2> HIDE DEF d, renewed
  <2>5. renewed(at) \in Transfer
    <3>1. r.updated + 1 \in Nat /\ "requested" \in {"none", "requested", "repaired"} BY <1>3
    <3> QED BY <2>3, <2>4, <3>1 DEF Transfer
  <2>6. /\ renewed(at).from = c /\ renewed(at).at = at
        /\ renewed(at).check = Unchecked /\ renewed(at).verification = "pending"
        /\ renewed(at).status = "queued" /\ renewed(at).repair = "requested"
        /\ renewed(at).updated = r.updated + 1
    BY <2>3, <2>4 DEF Transfer
  <2> QED BY <1>5, <2>5, <2>6 DEF Renewed
<1> HIDE DEF renewed
<1>7. \A p \in Path : /\ disk'[p] = disk[p] \/ (disk'[p] = 0 /\ (disk[p] = 0 \/ disk[p] \in aside'))
                      /\ disk'[p] # disk[p] => p = r.at
  BY <1>1, <1>3, <1>4
<1>8. disk' \in [Path -> Nat] /\ aside \subseteq aside' BY <1>1, <1>4
<1> QED BY <1>1, <1>2, <1>6, <1>7, <1>8, RenewedStep

LEMMA PatchMissingStep ==
  ASSUME ArrivalsInv, NEW c \in Candidate, PatchMissing(c) PROVE ArrivalsInv'
<1> DEFINE renewed(at) == [Blank(c, at) EXCEPT !.repair = "requested"]
<1>1. ~Held /\ Listed # {} /\ Added \in Track /\ Added \notin Listed /\ UNCHANGED <<fileVars, restVars>>
  BY DEF PatchMissing
<1>2. PICK at \in Free(Added) : release' = [Unfiled EXCEPT ![Added] = renewed(at)]
  BY DEF PatchMissing
<1>3. /\ UNCHANGED <<disk, files, aside, gone, restVars>>
      /\ disk \in [Path -> Nat]
  BY <1>1 DEF fileVars, ArrivalsInv, TypeOK
<1>4. at \in {Added} \X (Names \cup {Library}) /\ disk'[at] = 0 BY <1>3, FreeIs
<1>5. Renewed(Added, renewed(at), c)
  <2>1. c \in Sender BY DEF Sender
  <2>2. /\ at \in Path /\ Blank(c, at) \in Transfer
        /\ Blank(c, at).from = c /\ Blank(c, at).at = at /\ Blank(c, at).check = Unchecked
        /\ Blank(c, at).verification = "pending" /\ Blank(c, at).status = "queued"
    BY <1>1, <1>4, <2>1, BlankIs
  <2>3. /\ renewed(at) \in Transfer /\ renewed(at).from = c /\ renewed(at).at = at
        /\ renewed(at).check = Unchecked /\ renewed(at).verification = "pending"
        /\ renewed(at).status = "queued" /\ renewed(at).repair = "requested"
    BY <2>2 DEF Transfer
  <2> QED BY <1>4, <2>3 DEF Renewed
<1> HIDE DEF renewed
<1> QED BY <1>1, <1>2, <1>3, <1>5, RenewedStep

(* A step of one scan, and of nobody else.                                 *)
LEMMA OneScan ==
  ASSUME ArrivalsInv, TypeOK', Calm, NEW s \in Scanner, NEW c, scans' = [scans EXCEPT ![s] = c],
         ScanOK(c, release', disk', files', examined')
  PROVE  ScansOK'
<1> SUFFICES ASSUME NEW o \in Scanner
             PROVE ScanOK(scans'[o], release', disk', files', examined')
  BY DEF ScansOK
<1>1. scans[o] \in Scan /\ ScanOK(scans[o], release, disk, files, examined) BY DEF ArrivalsInv, TypeOK, ScansOK
<1>2. scans \in [Scanner -> Scan] BY DEF ArrivalsInv, TypeOK
<1>3. CASE o = s BY <1>2, <1>3
<1>4. CASE o # s
  <2>1. scans'[o] = scans[o] BY <1>2, <1>4
  <2>2. ScanOK(scans[o], release', disk', files', examined') BY <1>1, ScanStays DEF ArrivalsInv
  <2> QED BY <2>1, <2>2
<1> QED BY <1>3, <1>4

LEMMA OneMore ==
  ASSUME NEW fs \in Seq(File), NEW x \in File
  PROVE  /\ Append(fs, x) \in Seq(File) /\ Len(fs) \in Nat /\ Len(Append(fs, x)) = Len(fs) + 1
         /\ Append(fs, x)[Len(fs) + 1] = x /\ Grows(fs, Append(fs, x))
<1>1. Append(fs, x) \in Seq(File) /\ Len(fs) \in Nat /\ Len(Append(fs, x)) = Len(fs) + 1 OBVIOUS
<1>2. Append(fs, x)[Len(fs) + 1] = x OBVIOUS
<1>3. \A f \in 1 .. Len(fs) : Append(fs, x)[f] = fs[f] OBVIOUS
<1> QED BY <1>1, <1>2, <1>3 DEF Grows

LEMMA ArriveStep ==
  ASSUME ArrivalsInv, ArrivalConstants, NEW i \in Track, NEW q \in Sounds, Arrive(i, q) PROVE ArrivalsInv'
<1> DEFINE t == release[i]
           f == Len(files) + 1
           x == [from |-> t.from, whole |-> TRUE, sound |-> q]
           quick == [result |-> "passed", stamp |-> f, sonic |-> 0]
           check == IF t.repair = "none" /\ Automatic THEN quick ELSE Unchecked
           u == [Changed(t) EXCEPT !.status = "completed", !.verification = "verified", !.check = check]
<1>1. /\ t.status = "queued" /\ disk[t.at] = 0 /\ files' = Append(files, x)
      /\ disk' = [disk EXCEPT ![t.at] = f] /\ release' = [release EXCEPT ![i] = u]
      /\ UNCHANGED <<aside, gone, meddled, filing, examined>>
  BY DEF Arrive
<1>2. i \in Listed BY <1>1 DEF Listed, NoTrack
<1>3. t \in Transfer /\ t.at \in Path /\ t.from \in Sender BY <1>2, ListedType DEF ArrivalsInv, Transfer
<1>4. /\ disk \in [Path -> Nat] /\ files \in Seq(File) /\ x \in File
      /\ \A p \in Path : disk[p] <= Len(files)
  BY <1>3 DEF ArrivalsInv, TypeOK, File
<1>5. /\ files' \in Seq(File) /\ Len(files) \in Nat /\ Len(files') = f
      /\ files'[f] = x /\ Grows(files, files')
  BY <1>1, <1>4, OneMore
<1>6. quick \in Check /\ Unchecked \in Check
  BY <1>5 DEF Unchecked, Check
<1>7. Changed(t) \in Transfer /\ check \in Check /\ "verified" \in Verdict BY <1>3, <1>6, ChangedIs DEF Verdict
<1>8. u \in Transfer
  <2> HIDE DEF check
  <2> QED BY <1>7 DEF Transfer
<1>9. /\ u.status = "completed" /\ u.updated = t.updated + 1 /\ u.from = t.from /\ u.at = t.at
      /\ u.repair = t.repair /\ u.check = check
  <2> HIDE DEF check
  <2> QED BY <1>3, <1>7, ChangedIs DEF Transfer
<1> HIDE DEF u
<1>10. /\ release' \in [Track -> Transfer \cup {NoTrack}] /\ release'[i] = u
       /\ \A j \in Track \ {i} : release'[j] = release[j]
       /\ Listed' = Listed
  BY <1>1, <1>2, <1>8, OneChanged DEF ArrivalsInv
<1>11. filing = NoPlan BY <1>1, <1>2, QueuedIsNotHeld
<1>12. disk' \in [Path -> Nat] /\ disk'[t.at] = f /\ \A p \in Path : p # t.at => disk'[p] = disk[p]
  BY <1>1, <1>3, <1>4, <1>5
<1>13. \A p \in Path : disk'[p] <= Len(files')
  BY <1>4, <1>5, <1>12
<1>14. /\ \/ UNCHANGED scans
          \/ \E s \in Task : scans' = [scans EXCEPT ![s] = [Idle EXCEPT !.step = "repair", !.track = i]]
  BY DEF Arrive
<1>15. [Idle EXCEPT !.step = "repair", !.track = i] \in Scan
  <2>1. <<>> \in Copies
    <3>1. <<>> \in [{} -> Transfer] OBVIOUS
    <3> QED BY <3>1 DEF Copies
  <2>2. i \in Nat BY DEF ArrivalConstants
  <2> QED BY <1>6, <2>1, <2>2 DEF Idle, Scan, Verdict
<1>16. scans' \in [Scanner -> Scan] BY <1>14, <1>15 DEF ArrivalsInv, TypeOK, Scanner
<1>17. TypeOK' BY <1>1, <1>5, <1>10, <1>11, <1>12, <1>13, <1>16 DEF TypeOK
<1>18. ASSUME NEW j \in Listed, j # i
       PROVE  release'[j] = release[j] /\ disk'[release[j].at] = disk[release[j].at] /\ release[j].updated \in Nat
  <2>1. j \in Track /\ release[j].at \in Path /\ release[j].updated \in Nat BY ListedType DEF ArrivalsInv
  <2> QED BY <1>2, <1>10, <1>12, <1>18, <2>1, Apart
<1>19. t.updated \in Nat BY <1>3 DEF Transfer
<1>20. Calm
  <2>1. \A j \in Track : release[j] # NoTrack <=> j \in Listed BY DEF Listed
  <2>2. \A j \in Track : release'[j] # NoTrack <=> j \in Listed BY <1>10 DEF Listed
  <2>3. ASSUME NEW j \in Listed
        PROVE  /\ release[j].updated <= release'[j].updated
               /\ release'[j].updated = release[j].updated =>
                    /\ release'[j].from = release[j].from /\ release'[j].at = release[j].at
                    /\ release'[j].status = release[j].status
                    /\ release[j].status = "completed" => Mild(disk[release[j].at], disk'[release[j].at])
    <3>1. CASE j = i BY <1>9, <1>10, <1>19, <3>1
    <3>2. CASE j # i BY <1>18, <3>2 DEF Mild
    <3> QED BY <3>1, <3>2
  <2> QED BY <1>1, <1>5, <2>1, <2>2, <2>3 DEF Calm
<1>21. ReleaseOK'
  <2>1. /\ Truthful(i, t, files, examined) BY <1>2 DEF ArrivalsInv, ReleaseOK
  <2>2. SentBy(f, t.from, files') /\ Exists(f, files') BY <1>5 DEF SentBy, Exists
  <2>3. Evidence(check, t.from, files') BY <1>5, <2>2, NothingIsTrue DEF Evidence, Exists
  <2>4. Truthful(i, u, files', examined') BY <1>1, <1>9, <2>1, <2>3 DEF Truthful
  <2>5. ASSUME NEW j \in Listed, j # i
        PROVE  Truthful(j, release'[j], files', examined') /\ SentBy(disk'[release'[j].at], release'[j].from, files')
    <3>1. release[j] \in Transfer /\ disk[release[j].at] \in Nat /\ Exists(disk[release[j].at], files)
      BY ListedType DEF ArrivalsInv
    <3>2. Truthful(j, release[j], files, examined) /\ SentBy(disk[release[j].at], release[j].from, files)
      BY DEF ArrivalsInv, ReleaseOK
    <3>3. Truthful(j, release[j], files', examined') BY <1>1, <1>4, <1>5, <3>1, <3>2, TruthStays
    <3>4. SentBy(disk[release[j].at], release[j].from, files') BY <1>4, <1>5, <3>1, <3>2, StrangeStays
    <3> QED BY <1>18, <2>5, <3>3, <3>4
  <2> QED BY <1>9, <1>10, <1>12, <2>2, <2>4, <2>5 DEF ReleaseOK
<1>22. FilingOK' BY <1>1, <1>11 DEF FilingOK
<1>23. KeptOK'
  <2> SUFFICES ASSUME NEW g \in 1 .. Len(files') PROVE g \in gone \/ g \in aside \/ \E p \in Path : disk'[p] = g
    BY <1>1 DEF KeptOK
  <2>1. CASE g = f BY <1>3, <1>12, <2>1
  <2>2. CASE g # f
    <3>1. g \in 1 .. Len(files) /\ g # 0 BY <1>5, <2>2
    <3>2. g \in gone \/ g \in aside \/ \E p \in Path : disk[p] = g BY <3>1 DEF ArrivalsInv, KeptOK
    <3> QED BY <1>1, <1>12, <3>1, <3>2
  <2> QED BY <2>1, <2>2
<1>24. ScansOK'
  <2>1. CASE UNCHANGED scans BY <1>17, <1>20, <2>1, SameScans
  <2>2. ASSUME NEW s \in Task, scans' = [scans EXCEPT ![s] = [Idle EXCEPT !.step = "repair", !.track = i]]
        PROVE  ScansOK'
    <3>1. s \in Scanner BY DEF Scanner
    <3>2. ScanOK([Idle EXCEPT !.step = "repair", !.track = i], release', disk', files', examined')
      BY DEF ScanOK, Idle, Working
    <3> QED BY <1>17, <1>20, <2>2, <3>1, <3>2, OneScan
  <2> QED BY <1>14, <2>1, <2>2
<1> QED BY <1>17, <1>21, <1>22, <1>23, <1>24 DEF ArrivalsInv

-----------------------------------------------------------------------------
(* Steps of other programs.                                                *)
LEMMA PlanType ==
  ASSUME ArrivalsInv, filing # NoPlan, NEW i \in Planned
  PROVE  /\ PlanOK /\ i \in Track /\ filing \in Plan
         /\ filing.originals[i] \in Transfer /\ Source(i) \in Path /\ Filed(i) \in Path
         /\ filing.sources[i] \in Nat
<1>1. PlanOK /\ filing \in Plan BY DEF ArrivalsInv, FilingOK, TypeOK
<1>2. i \in Track /\ filing.originals[i] # NoTrack BY DEF Planned
<1>3. filing.originals[i] \in Transfer BY <1>1, <1>2 DEF Plan
<1>4. Source(i) \in Path /\ Filed(i) \in Path BY <1>2, <1>3 DEF Source, Filed, Transfer, Path
<1>5. PICK D \in SUBSET Track : filing.sources \in [D -> Nat] BY <1>1 DEF Plan
<1>6. i \in D BY <1>1, <1>5 DEF PlanOK
<1> QED BY <1>1, <1>2, <1>3, <1>4, <1>5, <1>6

Outside(p, n) ==
  /\ UNCHANGED <<release, aside, restVars>>
  /\ disk' = [disk EXCEPT ![p] = n] /\ gone' = gone \cup ({disk[p]} \ {0})
  /\ files' \in Seq(File) /\ Grows(files, files') /\ n <= Len(files')
  /\ \A f \in 1 .. Len(files') : f \in 1 .. Len(files) \/ f = n
  /\ n = 0 \/ (n > Len(files) /\ files'[n].from = "others")

LEMMA OutsideStep ==
  ASSUME ArrivalsInv, NEW p \in Path, NEW n \in Nat, Outside(p, n) PROVE ArrivalsInv'
<1>1. /\ UNCHANGED <<release, aside, scans, filing, examined>>
      /\ disk' = [disk EXCEPT ![p] = n] /\ gone' = gone \cup ({disk[p]} \ {0})
      /\ files' \in Seq(File) /\ files \in Seq(File) /\ Grows(files, files') /\ n <= Len(files')
      /\ disk \in [Path -> Nat]
  BY DEF Outside, restVars, ArrivalsInv, TypeOK
<1>2. Len(files) \in Nat /\ Len(files') \in Nat /\ Len(files) <= Len(files') BY <1>1 DEF Grows
<1>3. /\ disk' \in [Path -> Nat] /\ disk'[p] = n /\ \A o \in Path : o # p => disk'[o] = disk[o]
  BY <1>1
<1>4. \A o \in Path : disk[o] <= Len(files) /\ disk[o] \in Nat BY DEF ArrivalsInv, TypeOK
<1>5. \A o \in Path : disk'[o] <= Len(files') BY <1>1, <1>2, <1>3, <1>4
<1>6. TypeOK' BY <1>1, <1>3, <1>5 DEF ArrivalsInv, TypeOK
<1>7. \A o \in Path : Mild(disk[o], disk'[o]) BY <1>3 DEF Mild, Outside
<1>8. Calm
  <2>1. \A i \in Track : release[i] # NoTrack => release[i].at \in Path /\ release[i].updated \in Nat
    BY DEF ArrivalsInv, TypeOK, Transfer
  <2> QED BY <1>1, <1>7, <2>1 DEF Calm
<1>9. ASSUME NEW o \in Path, NEW u, SentBy(disk[o], u, files) PROVE SentBy(disk'[o], u, files')
  <2>1. CASE o = p BY <1>3, <2>1 DEF Outside, SentBy
  <2>2. CASE o # p BY <1>1, <1>3, <1>4, <1>9, <2>2, StrangeStays DEF Exists
  <2> QED BY <2>1, <2>2
<1>10. ReleaseOK'
  <2>1. Listed' = Listed BY <1>1 DEF Listed
  <2>2. ASSUME NEW i \in Listed
        PROVE  Truthful(i, release[i], files', examined') /\ SentBy(disk'[release[i].at], release[i].from, files')
    <3>1. release[i] \in Transfer /\ release[i].at \in Path BY ListedType DEF ArrivalsInv
    <3>2. Truthful(i, release[i], files, examined) /\ SentBy(disk[release[i].at], release[i].from, files)
      BY DEF ArrivalsInv, ReleaseOK
    <3> QED BY <1>1, <1>9, <3>1, <3>2, TruthStays
  <2> QED BY <1>1, <2>1, <2>2 DEF ReleaseOK
<1>11. FilingOK'
  <2> SUFFICES ASSUME filing # NoPlan PROVE PlanOK' BY <1>1 DEF FilingOK
  <2>1. PlanOK BY DEF ArrivalsInv, FilingOK
  <2>2. /\ Planned' = Planned /\ Listed' = Listed /\ \A i : Source(i)' = Source(i) /\ Filed(i)' = Filed(i)
    BY <1>1 DEF Planned, Listed, Source, Filed
  <2>3. ASSUME NEW i \in Planned
        PROVE  /\ Truthful(i, filing.originals[i], files', examined')
               /\ filing.originals[i].status = "completed" /\ Source(i) # Filed(i)
               /\ filing.sources[i] # 0 /\ Exists(filing.sources[i], files')
               /\ SentBy(filing.sources[i], filing.originals[i].from, files')
               /\ filing.state = "applying" => SentBy(disk'[Filed(i)], filing.originals[i].from, files')
               /\ filing.state = "undoing" => SentBy(disk'[Source(i)], filing.originals[i].from, files')
    <3>1. /\ filing.originals[i] \in Transfer /\ Source(i) \in Path /\ Filed(i) \in Path
          /\ filing.sources[i] \in Nat
      BY PlanType
    <3>2. Truthful(i, filing.originals[i], files', examined')
      BY <1>1, <2>1, <3>1, TruthStays DEF PlanOK
    <3>3. Exists(filing.sources[i], files') /\ SentBy(filing.sources[i], filing.originals[i].from, files')
      BY <1>1, <2>1, <3>1, StrangeStays DEF PlanOK
    <3> QED BY <1>9, <2>1, <3>1, <3>2, <3>3 DEF PlanOK
  <2> QED BY <1>1, <2>1, <2>2, <2>3 DEF PlanOK
<1>12. KeptOK'
  <2> SUFFICES ASSUME NEW f \in 1 .. Len(files'), f \notin gone', f \notin aside
               PROVE \E o \in Path : disk'[o] = f
    BY <1>1 DEF KeptOK
  <2>1. CASE f = n BY <1>3, <2>1
  <2>2. CASE f # n
    <3>1. f \in 1 .. Len(files) /\ f # 0 BY <2>2 DEF Outside
    <3>2. PICK o \in Path : disk[o] = f BY <1>1, <3>1 DEF ArrivalsInv, KeptOK
    <3>3. o # p BY <1>1, <3>1, <3>2
    <3> QED BY <1>3, <3>2, <3>3
  <2> QED BY <2>1, <2>2
<1> QED BY <1>1, <1>6, <1>8, <1>10, <1>11, <1>12, SameScans DEF ArrivalsInv

LEMMA MeddleStep ==
  ASSUME ArrivalsInv, NEW p \in Path, NEW whole \in BOOLEAN, Meddle(p, whole) PROVE ArrivalsInv'
<1> DEFINE x == [from |-> "others", whole |-> whole, sound |-> "good"]
           n == Len(files) + 1
<1>1. x \in File /\ files \in Seq(File) BY DEF File, ArrivalsInv, TypeOK
<1>2. files' = Append(files, x) BY DEF Meddle
<1>3. /\ files' \in Seq(File) /\ Len(files) \in Nat /\ Len(files') = n
      /\ files'[n] = x /\ Grows(files, files')
  BY <1>1, <1>2, OneMore
<1>4. x.from = "others" OBVIOUS
<1>5. Outside(p, n) BY <1>3, <1>4 DEF Meddle, Outside
<1> QED BY <1>3, <1>5, OutsideStep

LEMMA TakeAwayStep ==
  ASSUME ArrivalsInv, NEW p \in Path, TakeAway(p) PROVE ArrivalsInv'
<1>1. files \in Seq(File) /\ files' = files /\ Len(files) \in Nat BY DEF TakeAway, ArrivalsInv, TypeOK
<1>2. Grows(files, files') BY <1>1 DEF Grows
<1>3. Outside(p, 0) BY <1>1, <1>2 DEF TakeAway, Outside
<1> QED BY <1>3, OutsideStep

-----------------------------------------------------------------------------
(* Filing and its undo.                                                    *)
LEMMA PlanTurns ==
  ASSUME TypeOK, filing # NoPlan, NEW state \in {"applying", "filed", "undoing"},
         filing' = [filing EXCEPT !.state = state]
  PROVE  /\ filing' \in Plan /\ filing' # NoPlan /\ filing'.state = state
         /\ filing'.originals = filing.originals /\ filing'.sources = filing.sources
         /\ Planned' = Planned
         /\ \A i : Source(i)' = Source(i) /\ Filed(i)' = Filed(i)
<1>1. filing \in Plan BY DEF TypeOK
<1>2. /\ filing' \in Plan /\ filing'.state = state
      /\ filing'.originals = filing.originals /\ filing'.sources = filing.sources
  BY <1>1 DEF Plan
<1>3. filing' # NoPlan BY <1>2 DEF NoPlan
<1> QED BY <1>2, <1>3 DEF Planned, Source, Filed

LEMMA CommitFilingStep ==
  ASSUME ArrivalsInv, CommitFiling PROVE ArrivalsInv'
<1> DEFINE u(i) == [Changed(release[i]) EXCEPT !.at = Filed(i), !.filed = TRUE,
                                               !.verification = "verified", !.check = Unchecked]
<1>1. /\ filing.state = "applying" /\ UNCHANGED <<fileVars, scans, examined>>
      /\ UNCHANGED <<disk, files, aside, gone>>
      /\ filing' = [filing EXCEPT !.state = "filed"]
      /\ release' = [i \in Track |-> IF i \in Planned THEN u(i) ELSE release[i]]
  BY DEF CommitFiling, fileVars
<1>2. filing # NoPlan
  <2>1. filing.state = "applying" BY <1>1
  <2> QED BY <2>1 DEF NoPlan
<1>3. PlanOK /\ files \in Seq(File) BY <1>2 DEF ArrivalsInv, FilingOK, TypeOK
<1>4. Planned = Listed BY <1>1, <1>3 DEF PlanOK
<1>5. /\ filing' \in Plan /\ filing' # NoPlan /\ filing'.state = "filed"
      /\ filing'.originals = filing.originals /\ filing'.sources = filing.sources
      /\ Planned' = Planned /\ \A i : Source(i)' = Source(i) /\ Filed(i)' = Filed(i)
  BY <1>1, <1>2, PlanTurns DEF ArrivalsInv
<1>6. ASSUME NEW i \in Listed
      PROVE  /\ release'[i] \in Transfer /\ release[i] \in Transfer /\ i \in Track
             /\ release'[i].updated = release[i].updated + 1 /\ release[i].updated \in Nat
             /\ release'[i].status = release[i].status /\ release'[i].from = release[i].from
             /\ release'[i].at = Filed(i) /\ Filed(i) \in {i} \X (Names \cup {Library})
             /\ release'[i].check = Unchecked /\ release'[i].repair = release[i].repair
             /\ release[i].status = "completed" /\ release[i].from = filing.originals[i].from
  <2>1. i \in Track /\ release[i] \in Transfer /\ release[i].updated \in Nat BY ListedType DEF ArrivalsInv
  <2>2. release'[i] = u(i) BY <1>1, <1>4, <2>1
  <2>3. /\ Changed(release[i]) \in Transfer /\ Changed(release[i]).updated = release[i].updated + 1
        /\ Changed(release[i]).status = release[i].status /\ Changed(release[i]).from = release[i].from
        /\ Changed(release[i]).repair = release[i].repair
    BY <2>1, ChangedIs
  <2>4. Filed(i) \in {i} \X (Names \cup {Library}) /\ Filed(i) \in Path BY <2>1 DEF Filed, Path
  <2>5. Unchecked \in Check /\ "verified" \in Verdict BY DEF Unchecked, Check, Verdict
  <2>6. u(i) \in Transfer BY <2>3, <2>4, <2>5 DEF Transfer
  <2>7. /\ u(i).updated = release[i].updated + 1 /\ u(i).status = release[i].status
        /\ u(i).from = release[i].from /\ u(i).at = Filed(i) /\ u(i).check = Unchecked
        /\ u(i).repair = release[i].repair
    BY <2>3 DEF Transfer
  <2> HIDE DEF u
  <2>8. release[i].status = "completed" /\ release[i].from = filing.originals[i].from
    BY <1>3 DEF PlanOK
  <2> QED BY <2>1, <2>2, <2>4, <2>6, <2>7, <2>8
<1>7. \A i \in Track \ Listed : release'[i] = NoTrack BY <1>1, <1>4 DEF Listed
<1>8. release' \in [Track -> Transfer \cup {NoTrack}]
  <2>1. \A i \in Track : release'[i] \in Transfer \cup {NoTrack} BY <1>6, <1>7
  <2> QED BY <1>1, <2>1
<1>9. Listed' = Listed
  <2>1. \A i \in Track : release'[i] # NoTrack <=> i \in Listed BY <1>6, <1>7, NotListed
  <2> QED BY <2>1 DEF Listed
<1>10. TypeOK' BY <1>1, <1>5, <1>8 DEF ArrivalsInv, TypeOK
<1>11. Calm
  <2>1. Grows(files, files') /\ examined \subseteq examined' BY <1>1, SameFiles
  <2>2. \A i \in Track : (release[i] # NoTrack <=> i \in Listed) /\ (release'[i] # NoTrack <=> i \in Listed)
    BY <1>9 DEF Listed
  <2>3. \A i \in Listed : release[i].updated <= release'[i].updated /\ release'[i].updated # release[i].updated
    BY <1>6
  <2> QED BY <2>1, <2>2, <2>3 DEF Calm
<1>12. ReleaseOK'
  <2>1. ASSUME NEW i \in Listed
        PROVE Truthful(i, release'[i], files, examined) /\ SentBy(disk[release'[i].at], release'[i].from, files)
    <3>1. Truthful(i, release[i], files, examined) BY DEF ArrivalsInv, ReleaseOK
    <3>2. SentBy(disk[Filed(i)], filing.originals[i].from, files) BY <1>1, <1>3, <1>4 DEF PlanOK
    <3>3. Len(files) \in Nat BY <1>3
    <3>4. Evidence(release'[i].check, release'[i].from, files) BY <1>6, <3>3, NothingIsTrue
    <3>5. /\ release'[i].status = "completed" /\ release'[i].at \in {i} \X (Names \cup {Library})
          /\ release'[i].repair = "repaired" => <<i, release'[i].from>> \in examined
      BY <1>6, <3>1 DEF Truthful
    <3>6. SentBy(disk[release'[i].at], release'[i].from, files) BY <1>6, <3>2
    <3> QED BY <3>4, <3>5, <3>6 DEF Truthful
  <2> QED BY <1>1, <1>9, <2>1 DEF ReleaseOK
<1>13. FilingOK'
  <2>1. /\ Listed' \subseteq Planned' /\ DOMAIN filing'.sources = Planned'
        /\ filing'.state = "filed"
    BY <1>3, <1>4, <1>5, <1>9 DEF PlanOK
  <2>2. \A i \in Planned :
          /\ Truthful(i, filing'.originals[i], files', examined')
          /\ filing'.originals[i].status = "completed" /\ Source(i)' # Filed(i)'
          /\ filing'.sources[i] # 0 /\ Exists(filing'.sources[i], files')
          /\ SentBy(filing'.sources[i], filing'.originals[i].from, files')
    BY <1>1, <1>3, <1>5 DEF PlanOK
  <2>3. \A i \in Listed :
          /\ release'[i].status = "completed" /\ release'[i].from = filing'.originals[i].from
          /\ release'[i].at = Filed(i)'
    BY <1>5, <1>6
  <2>4. PlanOK' BY <1>5, <1>9, <2>1, <2>2, <2>3 DEF PlanOK
  <2> QED BY <2>4 DEF FilingOK
<1>14. KeptOK' BY <1>1, SameFiles
<1> QED BY <1>1, <1>10, <1>11, <1>12, <1>13, <1>14, SameScans DEF ArrivalsInv

LEMMA CommitUndoStep ==
  ASSUME ArrivalsInv, CommitUndo PROVE ArrivalsInv'
<1> DEFINE u(i) == [filing.originals[i] EXCEPT !.updated = release[i].updated + 1]
<1>1. /\ filing.state = "undoing" /\ UNCHANGED <<fileVars, scans, examined>>
      /\ UNCHANGED <<disk, files, aside, gone>> /\ filing' = NoPlan
      /\ release' = [i \in Track |-> IF i \in Planned \cap Listed THEN u(i) ELSE release[i]]
  BY DEF CommitUndo, fileVars
<1>2. filing # NoPlan BY <1>1 DEF NoPlan
<1>3. PlanOK /\ files \in Seq(File) BY <1>2 DEF ArrivalsInv, FilingOK, TypeOK
<1>4. Listed \subseteq Planned BY <1>3 DEF PlanOK
<1>5. ASSUME NEW i \in Listed
      PROVE  /\ release'[i] \in Transfer /\ i \in Track
             /\ release'[i].updated = release[i].updated + 1 /\ release[i].updated \in Nat
             /\ release'[i].from = filing.originals[i].from /\ release'[i].at = Source(i)
             /\ Truthful(i, release'[i], files, examined)
  <2>1. i \in Track /\ release[i].updated \in Nat BY ListedType DEF ArrivalsInv
  <2>2. release'[i] = u(i) BY <1>1, <1>4, <2>1
  <2>3. filing.originals[i] \in Transfer /\ Truthful(i, filing.originals[i], files, examined)
    BY <1>2, <1>3, <1>4, PlanType DEF PlanOK
  <2>4. u(i) \in Transfer BY <2>1, <2>3 DEF Transfer
  <2>5. /\ u(i).updated = release[i].updated + 1 /\ u(i).status = filing.originals[i].status
        /\ u(i).from = filing.originals[i].from /\ u(i).at = Source(i)
        /\ u(i).check = filing.originals[i].check /\ u(i).repair = filing.originals[i].repair
        /\ u(i).verification = filing.originals[i].verification
    BY <2>3 DEF Transfer, Source
  <2> HIDE DEF u
  <2>6. Truthful(i, u(i), files, examined) BY <2>3, <2>5 DEF Truthful, Source
  <2> QED BY <2>1, <2>2, <2>4, <2>5, <2>6
<1>6. \A i \in Track \ Listed : release'[i] = NoTrack BY <1>1 DEF Listed
<1>7. release' \in [Track -> Transfer \cup {NoTrack}]
  <2>1. \A i \in Track : release'[i] \in Transfer \cup {NoTrack} BY <1>5, <1>6
  <2> QED BY <1>1, <2>1
<1>8. Listed' = Listed
  <2>1. \A i \in Track : release'[i] # NoTrack <=> i \in Listed BY <1>5, <1>6, NotListed
  <2> QED BY <2>1 DEF Listed
<1>9. TypeOK' BY <1>1, <1>7 DEF ArrivalsInv, TypeOK
<1>10. Calm
  <2>1. Grows(files, files') /\ examined \subseteq examined' BY <1>1, SameFiles
  <2>2. \A i \in Track : (release[i] # NoTrack <=> i \in Listed) /\ (release'[i] # NoTrack <=> i \in Listed)
    BY <1>8 DEF Listed
  <2>3. \A i \in Listed : release[i].updated <= release'[i].updated /\ release'[i].updated # release[i].updated
    BY <1>5
  <2> QED BY <2>1, <2>2, <2>3 DEF Calm
<1>11. ReleaseOK'
  <2>1. \A i \in Listed : SentBy(disk[Source(i)], filing.originals[i].from, files)
    BY <1>1, <1>3, <1>4 DEF PlanOK
  <2> QED BY <1>1, <1>5, <1>8, <2>1 DEF ReleaseOK
<1>12. FilingOK' BY <1>1 DEF FilingOK
<1>13. KeptOK' BY <1>1, SameFiles
<1> QED BY <1>1, <1>9, <1>10, <1>11, <1>12, <1>13, SameScans DEF ArrivalsInv

LEMMA UndoStep ==
  ASSUME ArrivalsInv, Undo PROVE ArrivalsInv'
<1> DEFINE back(p) == CHOOSE i \in Planned : p = Source(i)
<1>1. /\ filing.state = "filed" /\ UNCHANGED <<release, files, meddled, scans, examined>>
      /\ \A i \in Planned : disk[Source(i)] = 0
      /\ disk' = [p \in Path |->
           IF \E i \in Planned : p = Source(i) THEN filing.sources[back(p)]
           ELSE IF \E i \in Planned : p = Filed(i) THEN 0 ELSE disk[p]]
      /\ gone' = gone \cup {disk[Filed(i)] : i \in Planned}
      /\ aside' = aside \ {filing.sources[i] : i \in Planned}
      /\ filing' = [filing EXCEPT !.state = "undoing"]
  BY DEF Undo
<1>2. filing # NoPlan
  <2>1. filing.state = "filed" BY <1>1
  <2> QED BY <2>1 DEF NoPlan
<1>3. PlanOK /\ files \in Seq(File) /\ disk \in [Path -> Nat]
  BY <1>2 DEF ArrivalsInv, FilingOK, TypeOK
<1>4. /\ filing' \in Plan /\ filing' # NoPlan /\ filing'.state = "undoing"
      /\ filing'.originals = filing.originals /\ filing'.sources = filing.sources
      /\ Planned' = Planned /\ \A i : Source(i)' = Source(i) /\ Filed(i)' = Filed(i)
  BY <1>1, <1>2, PlanTurns DEF ArrivalsInv
<1>5. \A i \in Planned : /\ Source(i) \in Path /\ Filed(i) \in Path /\ filing.sources[i] \in Nat
                         /\ Source(i) # Filed(i) /\ Exists(filing.sources[i], files)
                         /\ Source(i)[1] = i /\ Filed(i)[1] = i
  <2> TAKE i \in Planned
  <2>1. Source(i) \in {i} \X (Names \cup {Library}) BY <1>3 DEF PlanOK, Truthful, Source
  <2>2. Source(i)[1] = i /\ Filed(i)[1] = i BY <2>1 DEF Filed
  <2> QED BY <1>2, <1>3, <2>2, PlanType DEF PlanOK
<1>6. \A i, j \in Planned : (Source(i) = Source(j) => i = j) /\ Filed(i) # Source(j) BY <1>5
<1>7. \A i \in Planned : disk'[Source(i)] = filing.sources[i]
  <2> TAKE i \in Planned
  <2>1. back(Source(i)) = i BY <1>6
  <2> QED BY <1>1, <1>5, <2>1
<1>8. \A i \in Planned : disk'[Filed(i)] = 0 BY <1>1, <1>5, <1>6
<1> HIDE DEF back
<1>9. \A p \in Path : (\A i \in Planned : p # Source(i) /\ p # Filed(i)) => disk'[p] = disk[p]
  BY <1>1
<1>10. \A p \in Path : disk'[p] \in Nat /\ disk'[p] <= Len(files)
  <2> TAKE p \in Path
  <2>1. CASE \E i \in Planned : p = Source(i) BY <1>5, <1>7, <2>1 DEF Exists
  <2>2. CASE \E i \in Planned : p = Filed(i) BY <1>3, <1>8, <2>2
  <2>3. CASE \A i \in Planned : p # Source(i) /\ p # Filed(i)
    <3>1. disk[p] \in Nat /\ disk[p] <= Len(files) BY DEF ArrivalsInv, TypeOK
    <3> QED BY <1>9, <2>3, <3>1
  <2> QED BY <2>1, <2>2, <2>3
<1>11. TypeOK'
  <2>1. disk' = [p \in Path |-> disk'[p]] BY <1>1
  <2>2. disk' \in [Path -> Nat] BY <1>10, <2>1
  <2> QED BY <1>1, <1>4, <1>10, <2>2 DEF ArrivalsInv, TypeOK
<1>12. \A i \in Listed : i \in Planned /\ release[i].at = Filed(i) /\ release[i].updated \in Nat
  BY <1>1, <1>3, ListedType DEF PlanOK, ArrivalsInv
<1>13. Calm
  <2>1. Grows(files, files') BY <1>1, <1>3 DEF Grows
  <2>2. \A i \in Track : release[i] # NoTrack <=> i \in Listed BY DEF Listed
  <2>3. \A i \in Track : release[i] # NoTrack =>
          disk'[release[i].at] = 0 /\ release[i].updated <= release[i].updated
    BY <1>8, <1>12, <2>2
  <2> QED BY <1>1, <2>1, <2>3 DEF Calm, Mild
<1>14. Listed' = Listed BY <1>1 DEF Listed
<1>15. ReleaseOK' BY <1>1, <1>8, <1>12, <1>14 DEF ReleaseOK, ArrivalsInv, SentBy
<1>16. FilingOK'
  <2>1. /\ Listed' \subseteq Planned' /\ DOMAIN filing'.sources = Planned'
    BY <1>3, <1>4, <1>14 DEF PlanOK
  <2>2. \A i \in Planned :
          /\ Truthful(i, filing'.originals[i], files', examined')
          /\ filing'.originals[i].status = "completed" /\ Source(i)' # Filed(i)'
          /\ filing'.sources[i] # 0 /\ Exists(filing'.sources[i], files')
          /\ SentBy(filing'.sources[i], filing'.originals[i].from, files')
    BY <1>1, <1>3, <1>4 DEF PlanOK
  <2>3. \A i \in Planned : SentBy(disk'[Source(i)'], filing'.originals[i].from, files')
    BY <1>4, <1>7, <2>2
  <2>4. \A i \in Listed :
          /\ release'[i].status = "completed" /\ release'[i].from = filing'.originals[i].from
          /\ release'[i].at = Filed(i)'
    BY <1>1, <1>3, <1>4, <1>12 DEF PlanOK
  <2>5. PlanOK' BY <1>4, <1>14, <2>1, <2>2, <2>3, <2>4 DEF PlanOK
  <2> QED BY <2>5 DEF FilingOK
<1>17. KeptOK'
  <2> SUFFICES ASSUME NEW f \in 1 .. Len(files), f \notin gone', f \notin aside'
               PROVE \E p \in Path : disk'[p] = f
    BY <1>1 DEF KeptOK
  <2>1. f \notin gone /\ f # 0 BY <1>1
  <2>2. CASE \E i \in Planned : f = filing.sources[i] BY <1>5, <1>7, <2>2
  <2>3. CASE \A i \in Planned : f # filing.sources[i]
    <3>1. f \notin aside BY <1>1, <2>3
    <3>2. PICK p \in Path : disk[p] = f BY <2>1, <3>1 DEF ArrivalsInv, KeptOK
    <3>3. \A i \in Planned : p # Source(i) BY <1>1, <2>1, <3>2
    <3>4. \A i \in Planned : p # Filed(i) BY <1>1, <3>2
    <3> QED BY <1>9, <3>2, <3>3, <3>4
  <2> QED BY <2>2, <2>3
<1> QED BY <1>1, <1>11, <1>13, <1>15, <1>16, <1>17, SameScans DEF ArrivalsInv

(* The numbers of a finite set are counted off in their order.             *)
Rank(S, i) == Cardinality({j \in S : j <= i})

LEMMA Ranks ==
  ASSUME NEW S \in SUBSET Nat, IsFiniteSet(S)
  PROVE  /\ Cardinality(S) \in Nat
         /\ \A i \in S : Rank(S, i) \in 1 .. Cardinality(S)
         /\ \A i, j \in S : Rank(S, i) = Rank(S, j) => i = j
         /\ \A n \in 1 .. Cardinality(S) : \E i \in S : Rank(S, i) = n
<1> DEFINE up(i) == {j \in S : j <= i}
           r == [i \in S |-> Rank(S, i)]
           N == 1 .. Cardinality(S)
<1>1. Cardinality(S) \in Nat BY FS_CardinalityType
<1>2. ASSUME NEW i \in S PROVE IsFiniteSet(up(i)) /\ Rank(S, i) \in N
  <2>1. up(i) \in SUBSET S OBVIOUS
  <2>2. IsFiniteSet(up(i)) /\ Cardinality(up(i)) <= Cardinality(S) BY <2>1, FS_Subset
  <2>3. Cardinality(up(i)) \in Nat BY <2>2, FS_CardinalityType
  <2>4. up(i) # {} OBVIOUS
  <2>5. Cardinality(up(i)) # 0 BY <2>2, <2>4, FS_EmptySet
  <2> QED BY <1>1, <2>2, <2>3, <2>5 DEF Rank
<1>3. ASSUME NEW i \in S, NEW j \in S, i < j PROVE Rank(S, i) # Rank(S, j)
  <2>1. i \in Nat /\ j \in Nat OBVIOUS
  <2>2. up(i) \in SUBSET up(j)
    <3>1. \A k \in S : k \in Nat OBVIOUS
    <3>2. \A k \in S : k <= i => k <= j BY <1>3, <2>1, <3>1
    <3> QED BY <3>2
  <2>3. j \in up(j) /\ j \notin up(i) BY <1>3, <2>1
  <2>4. Cardinality(up(j)) = Cardinality(up(i)) => up(j) = up(i) BY <1>2, <2>2, FS_Subset
  <2> QED BY <2>3, <2>4 DEF Rank
<1>4. \A i, j \in S : Rank(S, i) = Rank(S, j) => i = j
  <2> SUFFICES ASSUME NEW i \in S, NEW j \in S, i # j PROVE Rank(S, i) # Rank(S, j) OBVIOUS
  <2>1. i \in Nat /\ j \in Nat OBVIOUS
  <2>2. CASE i < j BY <1>3, <2>2
  <2>3. CASE j < i BY <1>3, <2>3
  <2> QED BY <2>1, <2>2, <2>3
<1>5. r \in Injection(S, N)
  <2>1. r \in [S -> N] BY <1>2
  <2>2. \A i, j \in S : r[i] = r[j] => i = j BY <1>4
  <2> HIDE DEF r, N
  <2> QED BY <2>1, <2>2 DEF Injection, IsInjective
<1>6. IsFiniteSet(N) /\ Cardinality(N) = Cardinality(S)
  <2>1. 1 \in Int /\ Cardinality(S) \in Int BY <1>1
  <2>2. IsFiniteSet(N) /\ Cardinality(N) = IF 1 > Cardinality(S) THEN 0 ELSE Cardinality(S) - 1 + 1
    BY <2>1, FS_Interval
  <2> QED BY <1>1, <2>2
<1>7. r \in Surjection(S, N)
  <2> HIDE DEF r, N
  <2> QED BY <1>5, <1>6, FS_Injection
<1> QED BY <1>1, <1>2, <1>4, <1>7 DEF Surjection

LEMMA Joined ==
  ASSUME NEW fs \in Seq(File), NEW gs \in Seq(File)
  PROVE  /\ fs \o gs \in Seq(File) /\ Len(fs \o gs) = Len(fs) + Len(gs)
         /\ \A f \in 1 .. Len(fs) : (fs \o gs)[f] = fs[f]
         /\ \A n \in 1 .. Len(gs) : (fs \o gs)[Len(fs) + n] = gs[n]
<1>1. Len(fs) \in Nat /\ Len(gs) \in Nat OBVIOUS
<1>2. fs \o gs \in Seq(File) /\ Len(fs \o gs) = Len(fs) + Len(gs) OBVIOUS
<1>3. \A f \in 1 .. Len(fs) : (fs \o gs)[f] = fs[f] OBVIOUS
<1>4. \A n \in 1 .. Len(gs) : (fs \o gs)[Len(fs) + n] = gs[n] OBVIOUS
<1> QED BY <1>2, <1>3, <1>4

LEMMA ApplyStep ==
  ASSUME ArrivalsInv, ArrivalConstants, Apply PROVE ArrivalsInv'
<1> DEFINE sources == [i \in Listed |-> disk[release[i].at]]
           L == Len(files)
           C == Cardinality(Listed)
           tagged(i) == L + Cardinality({j \in Listed : j <= i})
           whose(n) == CHOOSE j \in Listed : tagged(j) = L + n
           copy(n) == [files[sources[whose(n)]] EXCEPT !.whole = TRUE]
           copies == [n \in 1 .. C |-> copy(n)]
<1>1. /\ filing = NoPlan /\ AllCompleted
      /\ \A i \in Listed : sources[i] # 0 /\ disk[Filed(i)] = 0
      /\ files' = files \o copies
      /\ disk' = [p \in Path |->
           IF \E i \in Listed : p = release[i].at THEN 0
           ELSE IF p[2] = Library /\ p[1] \in Listed THEN tagged(p[1]) ELSE disk[p]]
      /\ aside' = aside \cup {sources[i] : i \in Listed}
      /\ filing' = [state |-> "applying", originals |-> release, sources |-> sources]
      /\ UNCHANGED <<release, gone, scans, examined>>
  BY DEF Apply
<1>2. Listed \in SUBSET Nat /\ IsFiniteSet(Listed) /\ Listed \in SUBSET Track
  <2>1. Listed \in SUBSET Track BY DEF Listed
  <2> QED BY <2>1, FS_Subset DEF ArrivalConstants
<1>3. /\ C \in Nat /\ L \in Nat
      /\ \A i \in Listed : tagged(i) - L \in 1 .. C /\ tagged(i) \in Nat
      /\ \A i, j \in Listed : tagged(i) = tagged(j) => i = j
      /\ \A n \in 1 .. C : \E i \in Listed : tagged(i) = L + n
  <2>1. L \in Nat BY DEF ArrivalsInv, TypeOK
  <2>2. /\ C \in Nat
        /\ \A i \in Listed : Rank(Listed, i) \in 1 .. C
        /\ \A i, j \in Listed : Rank(Listed, i) = Rank(Listed, j) => i = j
        /\ \A n \in 1 .. C : \E i \in Listed : Rank(Listed, i) = n
    <3> HIDE DEF C
    <3> QED BY <1>2, Ranks DEF C
  <2>3. \A i : tagged(i) = L + Rank(Listed, i) BY DEF Rank
  <2> HIDE DEF tagged, L, C
  <2>4. \A i \in Listed : Rank(Listed, i) \in Nat /\ tagged(i) - L = Rank(Listed, i) /\ tagged(i) \in Nat
    BY <2>1, <2>2, <2>3
  <2>5. \A i, j \in Listed : tagged(i) = tagged(j) => i = j BY <2>2, <2>4
  <2>6. \A n \in 1 .. C : \E i \in Listed : tagged(i) = L + n BY <2>2, <2>3
  <2> QED BY <2>1, <2>2, <2>4, <2>5, <2>6
<1>4. /\ files \in Seq(File) /\ disk \in [Path -> Nat]
      /\ release \in [Track -> Transfer \cup {NoTrack}]
      /\ \A p \in Path : disk[p] <= L
  BY DEF ArrivalsInv, TypeOK
<1>5. ASSUME NEW i \in Listed
      PROVE  /\ release[i] \in Transfer /\ release[i].at \in Path /\ release[i].updated \in Nat
             /\ release[i].at[1] = i /\ Filed(i) \in Path /\ release[i].at # Filed(i)
             /\ release[i].status = "completed"
             /\ sources[i] = disk[release[i].at] /\ sources[i] \in 1 .. L
             /\ Truthful(i, release[i], files, examined)
             /\ SentBy(sources[i], release[i].from, files)
  <2>1. /\ i \in Track /\ release[i] \in Transfer /\ release[i].at \in Path
        /\ release[i].updated \in Nat
    BY ListedType DEF ArrivalsInv
  <2>2. sources[i] = disk[release[i].at] /\ sources[i] # 0 BY <1>1
  <2>3. disk[release[i].at] \in Nat /\ disk[release[i].at] <= L BY <1>4, <2>1
  <2>4. sources[i] \in 1 .. L BY <1>3, <2>2, <2>3
  <2>5. Truthful(i, release[i], files, examined) /\ SentBy(disk[release[i].at], release[i].from, files)
    BY DEF ArrivalsInv, ReleaseOK
  <2>6. release[i].at[1] = i BY <2>5 DEF Truthful
  <2>7. Filed(i) \in Path /\ disk[Filed(i)] = 0 BY <1>1, <2>1 DEF Filed, Path
  <2>8. release[i].status = "completed" BY <1>1 DEF AllCompleted
  <2> QED BY <2>1, <2>2, <2>4, <2>5, <2>6, <2>7, <2>8
<1> HIDE DEF sources
<1>6. \A n \in 1 .. C : whose(n) \in Listed /\ tagged(whose(n)) = L + n BY <1>3
<1>7. \A i \in Listed : whose(tagged(i) - L) = i
  <2> TAKE i \in Listed
  <2>1. tagged(i) - L \in 1 .. C /\ L + (tagged(i) - L) = tagged(i)
    <3> HIDE DEF tagged, C, L
    <3> QED BY <1>3
  <2>2. tagged(whose(tagged(i) - L)) = tagged(i) /\ whose(tagged(i) - L) \in Listed
    <3> HIDE DEF tagged, C, L, whose
    <3> QED BY <1>6, <2>1
  <2> HIDE DEF tagged, C, L, whose
  <2> QED BY <1>3, <2>2
<1> HIDE DEF tagged, C, whose
<1>8. \A n \in 1 .. C : copy(n) \in File /\ copy(n).from = files[sources[whose(n)]].from
  <2> TAKE n \in 1 .. C
  <2>1. files[sources[whose(n)]] \in File BY <1>4, <1>5, <1>6
  <2> QED BY <2>1 DEF File
<1>9. /\ files' \in Seq(File) /\ Len(files') = L + C /\ Grows(files, files')
      /\ \A n \in 1 .. C : files'[L + n] = copy(n)
  <2> HIDE DEF copy
  <2>1. copies \in Seq(File) /\ Len(copies) = C BY <1>3, <1>8
  <2>2. \A n \in 1 .. C : copies[n] = copy(n) OBVIOUS
  <2> HIDE DEF copies
  <2>3. files' = files \o copies /\ files \in Seq(File) BY <1>1, <1>4
  <2>4. /\ files' \in Seq(File) /\ Len(files') = L + C
        /\ \A f \in 1 .. L : files'[f] = files[f]
        /\ \A n \in 1 .. C : files'[L + n] = copies[n]
    BY <2>1, <2>3, Joined
  <2>5. L <= Len(files')
    <3>1. L \in Nat /\ C \in Nat BY <1>3
    <3> QED BY <2>4, <3>1
  <2>6. Grows(files, files') BY <2>4, <2>5 DEF Grows
  <2> QED BY <2>2, <2>4, <2>6
<1>10. ASSUME NEW i \in Listed
       PROVE  tagged(i) \in 1 .. Len(files') /\ files'[tagged(i)].from = files[sources[i]].from
  <2>1. tagged(i) - L \in 1 .. C /\ tagged(i) = L + (tagged(i) - L) /\ tagged(i) \in Nat
    <3> HIDE DEF L
    <3> QED BY <1>3
  <2>2. files'[tagged(i)] = copy(tagged(i) - L)
    <3> HIDE DEF L, copy
    <3> QED BY <1>9, <2>1
  <2>3. copy(tagged(i) - L).from = files[sources[i]].from
    <3> HIDE DEF L, copy
    <3> QED BY <1>7, <1>8, <2>1
  <2>4. tagged(i) \in 1 .. Len(files')
    <3> HIDE DEF L, copy
    <3> QED BY <1>3, <1>9, <2>1
  <2> QED BY <2>2, <2>3, <2>4
<1> HIDE DEF copy, copies
<1>11. \A i \in Listed : disk'[release[i].at] = 0 BY <1>1, <1>5
<1>12. \A i \in Listed : disk'[Filed(i)] = tagged(i)
  <2> TAKE i \in Listed
  <2>2. Filed(i)[1] = i /\ Filed(i)[2] = Library BY DEF Filed
  <2>1. \A j \in Listed : Filed(i) # release[j].at BY <1>5, <2>2
  <2> QED BY <1>1, <1>5, <2>1, <2>2
<1>13. \A p \in Path : (\A i \in Listed : p # release[i].at /\ p # Filed(i)) => disk'[p] = disk[p]
  <2> SUFFICES ASSUME NEW p \in Path, \A i \in Listed : p # release[i].at /\ p # Filed(i)
               PROVE disk'[p] = disk[p]
    OBVIOUS
  <2>1. ~(p[2] = Library /\ p[1] \in Listed)
    <3>1. p = <<p[1], p[2]>> BY DEF Path
    <3> QED BY <3>1 DEF Filed
  <2> QED BY <1>1, <2>1
<1>14. \A p \in Path : disk'[p] \in Nat /\ disk'[p] <= Len(files')
  <2> TAKE p \in Path
  <2>1. CASE \E i \in Listed : p = release[i].at BY <1>3, <1>9, <1>11, <2>1
  <2>2. CASE \E i \in Listed : p = Filed(i) BY <1>9, <1>10, <1>12, <2>2
  <2>3. CASE \A i \in Listed : p # release[i].at /\ p # Filed(i)
    <3>1. disk[p] \in Nat /\ disk[p] <= L BY <1>4
    <3> QED BY <1>3, <1>9, <1>13, <2>3, <3>1
  <2> QED BY <2>1, <2>2, <2>3
<1>15. sources \in [Listed -> Nat]
  <2>1. \A i \in Listed : sources[i] \in Nat BY <1>5
  <2> QED BY <2>1 DEF sources
<1>16. /\ filing' \in Plan /\ filing'.state = "applying" /\ filing'.originals = release
       /\ filing'.sources = sources
  <2>1. sources \in UNION {[D -> Nat] : D \in SUBSET Track} BY <1>2, <1>15
  <2>2. "applying" \in {"applying", "filed", "undoing"} OBVIOUS
  <2> QED BY <1>1, <1>4, <2>1, <2>2 DEF Plan
<1>17. Listed' = Listed BY <1>1 DEF Listed
<1>18. Planned' = Listed /\ \A i : Source(i)' = release[i].at /\ Filed(i)' = Filed(i)
  BY <1>16 DEF Planned, Listed, Source, Filed
<1>19. TypeOK'
  <2>1. disk' = [p \in Path |-> disk'[p]] BY <1>1
  <2>2. disk' \in [Path -> Nat] BY <1>14, <2>1
  <2> QED BY <1>1, <1>9, <1>14, <1>16, <2>2 DEF ArrivalsInv, TypeOK
<1>20. Calm
  <2>1. \A i \in Track : release[i] # NoTrack <=> i \in Listed BY DEF Listed
  <2>2. \A i \in Listed : release[i].updated <= release[i].updated BY <1>5
  <2> QED BY <1>1, <1>9, <1>11, <2>1, <2>2 DEF Calm, Mild
<1>21. \A i \in Listed : Truthful(i, release[i], files', examined')
  BY <1>1, <1>4, <1>5, <1>9, TruthStays
<1>22. ReleaseOK'
  <2>1. release' = release BY <1>1
  <2>2. \A i \in Listed : Truthful(i, release'[i], files', examined') BY <1>21, <2>1
  <2>3. \A i \in Listed : SentBy(disk'[release'[i].at], release'[i].from, files')
    BY <1>11, <2>1 DEF SentBy
  <2> QED BY <1>17, <2>2, <2>3 DEF ReleaseOK
<1>23. FilingOK'
  <2>1. ASSUME NEW i \in Listed
        PROVE  /\ Exists(sources[i], files') /\ SentBy(sources[i], release[i].from, files')
               /\ sources[i] # 0 /\ SentBy(disk'[Filed(i)], release[i].from, files')
    <3>1. sources[i] \in Nat /\ sources[i] # 0 /\ Exists(sources[i], files) BY <1>5 DEF Exists
    <3>2. Exists(sources[i], files') /\ SentBy(sources[i], release[i].from, files')
      BY <1>4, <1>5, <1>9, <3>1, StrangeStays
    <3>3. files[sources[i]].from \in {release[i].from, "others"} BY <1>5, <3>1 DEF SentBy
    <3>4. SentBy(disk'[Filed(i)], release[i].from, files') BY <1>10, <1>12, <3>3 DEF SentBy
    <3> QED BY <3>1, <3>2, <3>4
  <2>2. DOMAIN sources = Listed BY <1>15
  <2>3. PlanOK'
    BY <1>1, <1>5, <1>16, <1>17, <1>18, <1>21, <2>1, <2>2 DEF PlanOK
  <2> QED BY <2>3 DEF FilingOK
<1>24. KeptOK'
  <2> SUFFICES ASSUME NEW f \in 1 .. Len(files'), f \notin gone, f \notin aside'
               PROVE \E p \in Path : disk'[p] = f
    BY <1>1 DEF KeptOK
  <2>1. CASE f \in 1 .. L
    <3>1. f \notin aside /\ f # 0 BY <1>1, <2>1
    <3>2. PICK p \in Path : disk[p] = f BY <2>1, <3>1 DEF ArrivalsInv, KeptOK
    <3>3. \A i \in Listed : p # release[i].at
      <4>1. \A i \in Listed : f # sources[i] BY <1>1
      <4> QED BY <1>5, <3>2, <4>1
    <3>4. \A i \in Listed : p # Filed(i) BY <1>1, <3>1, <3>2
    <3> QED BY <1>13, <3>2, <3>3, <3>4
  <2>2. CASE f \notin 1 .. L
    <3>1. f - L \in 1 .. C /\ L + (f - L) = f
      <4> HIDE DEF L
      <4> QED BY <1>3, <1>9, <2>2
    <3>2. PICK i \in Listed : tagged(i) = f
      <4> HIDE DEF L
      <4> QED BY <1>3, <3>1
    <3> QED BY <1>5, <1>12, <3>2
  <2> QED BY <2>1, <2>2
<1> QED BY <1>1, <1>19, <1>20, <1>22, <1>23, <1>24, SameScans DEF ArrivalsInv

-----------------------------------------------------------------------------
(* Steps of scans.                                                         *)
LEMMA IdleIs == Idle \in Scan /\ \A rel, dk, fs, ex : ScanOK(Idle, rel, dk, fs, ex)
<1>1. <<>> \in Copies
  <2>1. <<>> \in [{} -> Transfer] OBVIOUS
  <2> QED BY <2>1 DEF Copies
<1>2. Unchecked \in Check BY DEF Unchecked, Check
<1>3. Idle \in Scan BY <1>1, <1>2 DEF Idle, Scan, Verdict
<1> QED BY <1>3 DEF Idle, ScanOK, Working

LEMMA FirstIs ==
  ASSUME NEW S \in SUBSET Nat, S # {} PROVE First(S) \in S
<1>1. IsWellFoundedOn(OpToRel(<, Nat), Nat) BY NatLessThanWellFounded
<1>2. PICK m \in S : \A n \in S : <<n, m>> \notin OpToRel(<, Nat) BY <1>1, WFMin
<1>3. \A n \in S : ~(n < m) BY <1>2 DEF OpToRel
<1>4. \E i \in S : \A j \in S : i <= j BY <1>3
<1> QED BY <1>4 DEF First

(* A scan begins with its first copy.                                      *)
Copied(targets, rel, fs, ex) ==
  /\ targets \in Copies /\ DOMAIN targets # {}
  /\ \A i \in DOMAIN targets :
       /\ Truthful(i, targets[i], fs, ex) /\ targets[i].status = "completed"
       /\ Older(i, targets[i], rel)

LEMMA BeginIs ==
  ASSUME ArrivalConstants, NEW deep \in BOOLEAN, NEW targets, NEW rel, NEW dk, NEW fs, NEW ex,
         Copied(targets, rel, fs, ex), NEW s, Begin(s, deep, targets)
  PROVE  \E c \in Scan : scans' = [scans EXCEPT ![s] = c] /\ ScanOK(c, rel, dk, fs, ex)
<1> DEFINE c == [Idle EXCEPT !.step = "next", !.deep = deep,
                             !.track = First(DOMAIN targets), !.targets = targets]
<1>1. PICK D \in SUBSET Track : targets \in [D -> Transfer] BY DEF Copied, Copies
<1>2. D \in SUBSET Nat /\ D # {} /\ D = DOMAIN targets BY <1>1 DEF ArrivalConstants, Copied
<1>3. First(D) \in D /\ First(D) \in Nat BY <1>2, FirstIs
<1>4. c \in Scan
  <2>1. "next" \in {"idle", "repair", "next", "verify", "open", "decode", "compare", "publish"} OBVIOUS
  <2>2. targets \in Copies BY DEF Copied
  <2> QED BY <1>2, <1>3, <2>1, <2>2, IdleIs DEF Scan
<1>5. /\ c.step = "next" /\ c.track = First(D) /\ c.targets = targets /\ c.check = Unchecked
      /\ c.changed = FALSE
  BY <1>2 DEF Idle
<1>6. scans' = [scans EXCEPT ![s] = c] BY DEF Begin, Goes
<1> HIDE DEF c
<1>7. ScanOK(c, rel, dk, fs, ex) BY <1>2, <1>3, <1>5 DEF ScanOK, Copied
<1> QED BY <1>4, <1>6, <1>7

(* The transfers themselves are copies.                                    *)
LEMMA TransfersAreCopied ==
  ASSUME ArrivalsInv, NEW D \in SUBSET Listed, D # {}, \A i \in D : release[i].status = "completed"
  PROVE  Copied(Restrict(release, D), release, files, examined)
<1> DEFINE targets == Restrict(release, D)
<1>1. targets = [i \in D |-> release[i]] BY DEF Restrict
<1>2. \A i \in D : /\ i \in Track /\ release[i] \in Transfer /\ release[i] # NoTrack
                   /\ release[i].updated \in Nat /\ Truthful(i, release[i], files, examined)
  BY ListedType DEF ArrivalsInv, ReleaseOK
<1>3. targets \in [D -> Transfer] /\ D \in SUBSET Track BY <1>1, <1>2
<1>4. targets \in Copies BY <1>3 DEF Copies
<1>5. \A i \in D : Older(i, release[i], release) BY <1>2 DEF Older, Current
<1> QED BY <1>1, <1>2, <1>3, <1>4, <1>5 DEF Copied

(* A step that only a scan takes.                                          *)
LEMMA ScanOnly ==
  ASSUME ArrivalsInv, NEW s \in Scanner, NEW c \in Scan, scans' = [scans EXCEPT ![s] = c],
         UNCHANGED <<release, fileVars, filing>>, examined \subseteq examined',
         ScanOK(c, release, disk, files, examined')
  PROVE  ArrivalsInv'
<1>1. /\ UNCHANGED <<release, disk, files, aside, gone, filing>>
      /\ scans \in [Scanner -> Scan] /\ files \in Seq(File)
  BY DEF fileVars, ArrivalsInv, TypeOK
<1>2. TypeOK' BY <1>1 DEF ArrivalsInv, TypeOK
<1>3. Grows(files, files') BY <1>1 DEF Grows
<1>4. Calm
  <2>1. \A i \in Track : release[i] # NoTrack => release[i].updated <= release[i].updated
    BY ListedType DEF ArrivalsInv, Listed
  <2> QED BY <1>1, <1>3, <2>1 DEF Calm, Mild
<1>5. Listed' = Listed /\ Planned' = Planned /\ \A i : Source(i)' = Source(i) /\ Filed(i)' = Filed(i)
  BY <1>1 DEF Listed, Planned, Source, Filed
<1>6. ReleaseOK'
  <2>1. ASSUME NEW i \in Listed PROVE Truthful(i, release[i], files', examined')
    <3>1. release[i] \in Transfer /\ Truthful(i, release[i], files, examined)
      BY ListedType DEF ArrivalsInv, ReleaseOK
    <3> QED BY <1>1, <1>3, <3>1, TruthStays
  <2> QED BY <1>1, <1>5, <2>1 DEF ArrivalsInv, ReleaseOK
<1>7. FilingOK'
  <2> SUFFICES ASSUME filing # NoPlan PROVE PlanOK' BY <1>1 DEF FilingOK
  <2>1. PlanOK BY DEF ArrivalsInv, FilingOK
  <2>2. ASSUME NEW i \in Planned PROVE Truthful(i, filing.originals[i], files', examined')
    <3>1. filing.originals[i] \in Transfer /\ Truthful(i, filing.originals[i], files, examined)
      BY <2>1, PlanType DEF PlanOK
    <3> QED BY <1>1, <1>3, <3>1, TruthStays
  <2> QED BY <1>1, <1>5, <2>1, <2>2 DEF PlanOK
<1>8. KeptOK' BY <1>1 DEF ArrivalsInv, KeptOK
<1>9. ScanOK(c, release', disk', files', examined') BY <1>1
<1>10. ScansOK' BY <1>1, <1>2, <1>4, <1>9, OneScan
<1> QED BY <1>2, <1>6, <1>7, <1>8, <1>10 DEF ArrivalsInv

LEMMA SoundcheckStep ==
  ASSUME ArrivalsInv, ArrivalConstants, NEW s \in Asked, NEW deep \in BOOLEAN, Soundcheck(s, deep)
  PROVE  ArrivalsInv'
<1>1. /\ Listed # {} /\ \A i \in Listed : release[i].status = "completed"
      /\ Begin(s, deep, Restrict(release, Listed)) /\ UNCHANGED <<release, fileVars, filing, examined>>
  BY DEF Soundcheck, AllCompleted
<1>2. Copied(Restrict(release, Listed), release, files, examined) BY <1>1, TransfersAreCopied
<1>3. PICK c \in Scan : scans' = [scans EXCEPT ![s] = c] /\ ScanOK(c, release, disk, files, examined)
  BY <1>1, <1>2, BeginIs
<1>4. s \in Scanner BY DEF Scanner
<1> QED BY <1>1, <1>3, <1>4, ScanOnly

LEMMA ScanRepairStep ==
  ASSUME ArrivalsInv, ArrivalConstants, NEW s \in Scanner, ScanRepair(s) PROVE ArrivalsInv'
<1> DEFINE i == scans[s].track
           t == release[i]
<1>1. /\ scans[s].step = "repair" /\ UNCHANGED <<release, fileVars, filing, examined>>
      /\ IF t # NoTrack /\ t.status = "completed" /\ t.repair # "none"
         THEN Begin(s, TRUE, Restrict(release, {i})) ELSE Goes(s, Idle)
  BY DEF ScanRepair
<1>2. i \in Track BY <1>1 DEF ArrivalsInv, ScansOK, ScanOK
<1>3. CASE t # NoTrack /\ t.status = "completed" /\ t.repair # "none"
  <2>1. {i} \in SUBSET Listed /\ {i} # {} /\ \A j \in {i} : release[j].status = "completed"
    BY <1>2, <1>3 DEF Listed
  <2>2. Copied(Restrict(release, {i}), release, files, examined)
    <3> HIDE DEF i
    <3> QED BY <2>1, TransfersAreCopied
  <2>3. Begin(s, TRUE, Restrict(release, {i})) BY <1>1, <1>3
  <2>4. PICK c \in Scan : scans' = [scans EXCEPT ![s] = c] /\ ScanOK(c, release, disk, files, examined)
    <3>1. TRUE \in BOOLEAN OBVIOUS
    <3> QED BY <2>2, <2>3, <3>1, BeginIs
  <2> QED BY <1>1, <2>4, ScanOnly
<1>4. CASE ~(t # NoTrack /\ t.status = "completed" /\ t.repair # "none")
  <2>1. scans' = [scans EXCEPT ![s] = Idle] BY <1>1, <1>4 DEF Goes
  <2> QED BY <1>1, <2>1, IdleIs, ScanOnly
<1> QED BY <1>3, <1>4

LEMMA ScanIs ==
  ASSUME ArrivalsInv, ArrivalConstants, NEW s \in Scanner, scans[s].step \in Working
  PROVE  /\ scans[s] \in Scan /\ ScanOK(scans[s], release, disk, files, examined)
         /\ scans[s].track \in Track /\ scans[s].track \in DOMAIN scans[s].targets
         /\ Before(s) \in Transfer /\ Before(s) = scans[s].targets[scans[s].track]
         /\ Truthful(scans[s].track, Before(s), files, examined)
         /\ Older(scans[s].track, Before(s), release)
         /\ Before(s).at \in Path /\ Before(s).check \in Check
         /\ ThereNow(s) = disk[Before(s).at] /\ ThereNow(s) \in Nat /\ Exists(ThereNow(s), files)
         /\ Verification(ThereNow(s)) \in Verdict
<1> DEFINE c == scans[s]
<1>1. c \in Scan /\ ScanOK(c, release, disk, files, examined) BY DEF ArrivalsInv, TypeOK, ScansOK
<1>2. PICK D \in SUBSET Track : c.targets \in [D -> Transfer] BY <1>1 DEF Scan, Copies
<1>3. c.track \in D /\ D = DOMAIN c.targets BY <1>1, <1>2 DEF ScanOK
<1>4. Before(s) \in Transfer /\ Before(s) = c.targets[c.track] BY <1>2, <1>3 DEF Before
<1>5. Truthful(c.track, Before(s), files, examined) /\ Older(c.track, Before(s), release)
  BY <1>1, <1>3, <1>4 DEF ScanOK
<1>6. Before(s).at \in Path /\ Before(s).check \in Check BY <1>4 DEF Transfer
<1>7. ThereNow(s) = disk[Before(s).at] /\ ThereNow(s) \in Nat /\ Exists(ThereNow(s), files)
  BY <1>6 DEF ThereNow, ArrivalsInv, TypeOK, Exists
<1>8. Verification(ThereNow(s)) \in Verdict BY DEF Verification, Verdict
<1> QED BY <1>1, <1>2, <1>3, <1>4, <1>5, <1>6, <1>7, <1>8

LEMMA TakeFingerprintStep ==
  ASSUME ArrivalsInv, ArrivalConstants, NEW s \in Scanner, TakeFingerprint(s) PROVE ArrivalsInv'
<1> DEFINE c == scans[s]
           d == [c EXCEPT !.step = "verify", !.print = ThereNow(s)]
<1>1. /\ c.step = "next" /\ scans' = [scans EXCEPT ![s] = d]
      /\ UNCHANGED <<release, fileVars, filing, examined>>
  BY DEF TakeFingerprint, Goes
<1>2. /\ c \in Scan /\ ScanOK(c, release, disk, files, examined) /\ Before(s) = c.targets[c.track]
      /\ ThereNow(s) = disk[Before(s).at] /\ ThereNow(s) \in Nat /\ Exists(ThereNow(s), files)
  BY <1>1, ScanIs DEF Working
<1>3. d \in Scan /\ d.step = "verify" /\ d.print = ThereNow(s) /\ d.targets = c.targets
      /\ d.track = c.track /\ d.check = c.check /\ d.changed = c.changed
  BY <1>2 DEF Scan
<1> HIDE DEF d
<1>4. Watching(d, Before(s), release, disk, files) BY <1>2, <1>3 DEF Watching
<1>5. ScanOK(d, release, disk, files, examined) BY <1>1, <1>2, <1>3, <1>4 DEF ScanOK, Working
<1> QED BY <1>1, <1>3, <1>5, ScanOnly

LEMMA VerifyScannedStep ==
  ASSUME ArrivalsInv, ArrivalConstants, NEW s \in Scanner, VerifyScanned(s) PROVE ArrivalsInv'
<1> DEFINE c == scans[s]
           v == Verification(ThereNow(s))
           d == [c EXCEPT !.step = IF v = "verified" THEN "open" ELSE "compare", !.verification = v]
<1>1. /\ c.step = "verify" /\ scans' = [scans EXCEPT ![s] = d]
      /\ UNCHANGED <<release, fileVars, filing, examined>>
  BY DEF VerifyScanned, Goes
<1>2. /\ c \in Scan /\ ScanOK(c, release, disk, files, examined) /\ v \in Verdict
      /\ Before(s) = c.targets[c.track]
  BY <1>1, ScanIs DEF Working
<1>3. d \in Scan /\ d.step \in {"open", "compare"} /\ d.print = c.print /\ d.targets = c.targets
      /\ d.track = c.track /\ d.check = c.check /\ d.changed = c.changed
  <2> HIDE DEF v
  <2> QED BY <1>2 DEF Scan
<1> HIDE DEF d
<1>4. Len(files) \in Nat BY DEF ArrivalsInv, TypeOK
<1>5. /\ c.check = Unchecked /\ Watching(c, Before(s), release, disk, files) /\ Exists(c.print, files)
      /\ ~c.changed
  BY <1>1, <1>2 DEF ScanOK, Working
<1>6. Watching(d, Before(s), release, disk, files)
  BY <1>3, <1>4, <1>5, NothingIsTrue DEF Watching
<1>7. Exists(d.check.stamp, files) /\ Exists(d.check.sonic, files)
  BY <1>3, <1>4, <1>5 DEF Unchecked, Exists
<1>8. ScanOK(d, release, disk, files, examined)
  BY <1>1, <1>2, <1>3, <1>5, <1>6, <1>7 DEF ScanOK, Working
<1> QED BY <1>1, <1>3, <1>8, ScanOnly

LEMMA OpenScannedStep ==
  ASSUME ArrivalsInv, ArrivalConstants, NEW s \in Scanner, OpenScanned(s) PROVE ArrivalsInv'
<1> DEFINE c == scans[s]
           old == Before(s).check
           kept == IF old.stamp # 0 /\ old.stamp = ThereNow(s) THEN old.sonic ELSE 0
           d == [c EXCEPT !.step = "decode", !.reads = ThereNow(s), !.sonic = kept]
<1>1. /\ c.step = "open" /\ scans' = [scans EXCEPT ![s] = d]
      /\ UNCHANGED <<release, fileVars, filing, examined>>
  BY DEF OpenScanned, Goes
<1>2. /\ c \in Scan /\ ScanOK(c, release, disk, files, examined) /\ Before(s) = c.targets[c.track]
      /\ Truthful(c.track, Before(s), files, examined) /\ old \in Check
      /\ ThereNow(s) = disk[Before(s).at] /\ ThereNow(s) \in Nat /\ Exists(ThereNow(s), files)
  BY <1>1, ScanIs DEF Working
<1>3. Len(files) \in Nat /\ old.sonic \in Nat
  <2>1. Len(files) \in Nat BY DEF ArrivalsInv, TypeOK
  <2>2. old.sonic \in Nat
    <3> HIDE DEF old
    <3> QED BY <1>2 DEF Check
  <2> QED BY <2>1, <2>2
<1>4. /\ kept \in Nat /\ Exists(kept, files)
      /\ kept # 0 => ThereNow(s) # 0 /\ Same(ThereNow(s), kept, files)
  <2>1. Evidence(old, Before(s).from, files) BY <1>2 DEF Truthful
  <2>2. CASE kept = 0 BY <1>3, <2>2 DEF Exists
  <2>3. CASE kept # 0
    <3>1. kept = old.sonic /\ old.stamp # 0 /\ old.stamp = ThereNow(s) BY <2>3
    <3> HIDE DEF kept
    <3> QED BY <1>3, <2>1, <2>3, <3>1 DEF Evidence
  <2> QED BY <2>2, <2>3
<1>5. /\ d \in Scan /\ d.step = "decode" /\ d.print = c.print /\ d.targets = c.targets
      /\ d.track = c.track /\ d.check = c.check /\ d.changed = c.changed
      /\ d.reads = ThereNow(s) /\ d.sonic = kept
  <2> HIDE DEF kept
  <2> QED BY <1>2, <1>4 DEF Scan
<1> HIDE DEF d, kept
<1>6. /\ Watching(c, Before(s), release, disk, files) /\ Exists(c.print, files) /\ ~c.changed
  BY <1>1, <1>2 DEF ScanOK, Working
<1>7. Watching(d, Before(s), release, disk, files) BY <1>2, <1>5, <1>6 DEF Watching
<1>8. ScanOK(d, release, disk, files, examined)
  BY <1>1, <1>2, <1>4, <1>5, <1>6, <1>7 DEF ScanOK, Working
<1> QED BY <1>1, <1>5, <1>8, ScanOnly

(* What decoding the file f tells, when the path then has g and the copy's *)
(* fingerprint p was taken.                                                *)
LEMMA DecodedIs ==
  ASSUME NEW f \in Nat, NEW g \in Nat, NEW p \in Nat, NEW m \in Nat, NEW deep \in BOOLEAN, NEW u,
         NEW fs, Len(fs) \in Nat, Exists(f, fs), Exists(g, fs), Exists(m, fs),
         m # 0 => f # 0 /\ Same(f, m, fs),
         NEW check, check = IF deep THEN Inspected(f, g, deep) ELSE Keeping(Inspected(f, g, deep), m)
  PROVE  /\ check \in Check /\ Exists(check.stamp, fs) /\ Exists(check.sonic, fs)
         /\ (/\ p = 0 \/ g = p
             /\ g = p \/ Strange(g, fs)
             /\ f = p \/ Strange(f, fs)
             /\ p # 0 /\ g = p => f = p
             /\ SentBy(g, u, fs)) => Evidence(check, u, fs)
<1> DEFINE found == Inspected(f, g, deep)
<1>1. /\ found \in Check /\ found.stamp \in {0, g}
      /\ found.sonic = 0 \/ (deep /\ f # 0 /\ found.sonic = f)
  BY DEF Inspected, Check
<1>2. check = IF deep THEN found ELSE Keeping(found, m) OBVIOUS
<1> HIDE DEF found
<1>3. /\ check \in Check /\ check.stamp \in {0, g}
      /\ \/ check.sonic = 0
         \/ f # 0 /\ check.sonic = f
         \/ check.sonic = m /\ m # 0 /\ f # 0
  <2>1. CASE deep BY <1>1, <1>2, <2>1
  <2>2. CASE ~deep
    <3>1. check = Keeping(found, m) /\ found.sonic = 0 BY <1>1, <1>2, <2>2
    <3>2. CASE found.result = "failed" \/ m = 0 BY <1>1, <3>1, <3>2 DEF Keeping
    <3>3. CASE ~(found.result = "failed" \/ m = 0)
      <4>1. check = [found EXCEPT !.sonic = m, !.result = IF Sound(m) = "suspect" THEN "review" ELSE @]
        BY <3>1, <3>3 DEF Keeping
      <4>2. check \in Check /\ check.sonic = m /\ check.stamp = found.stamp BY <1>1, <4>1 DEF Check
      <4>3. m # 0 /\ f # 0 BY <3>3
      <4> QED BY <1>1, <4>2, <4>3
    <3> QED BY <3>2, <3>3
  <2> QED BY <2>1, <2>2
<1>4. Exists(check.stamp, fs) /\ Exists(check.sonic, fs) BY <1>3 DEF Exists
<1>5. ASSUME p = 0 \/ g = p, g = p \/ Strange(g, fs), f = p \/ Strange(f, fs),
             p # 0 /\ g = p => f = p, SentBy(g, u, fs)
      PROVE  Evidence(check, u, fs)
  <2>1. SentBy(check.stamp, u, fs) BY <1>3, <1>5 DEF SentBy
  <2>2. ASSUME check.stamp # 0, check.sonic # 0 PROVE Same(check.stamp, check.sonic, fs)
    <3>1. check.stamp = g /\ g # 0 /\ f # 0 /\ (check.sonic = f \/ (check.sonic = m /\ Same(f, m, fs)))
      BY <1>3, <2>2
    <3>2. Same(g, f, fs)
      <4>1. CASE p # 0 BY <1>5, <4>1 DEF Same
      <4>2. CASE p = 0 BY <1>5, <3>1, <4>2 DEF Same, Strange
      <4> QED BY <4>1, <4>2
    <3> QED BY <3>1, <3>2 DEF Same
  <2> QED BY <1>4, <2>1, <2>2 DEF Evidence
<1> QED BY <1>3, <1>4, <1>5

LEMMA DecodeScannedStep ==
  ASSUME ArrivalsInv, ArrivalConstants, NEW s \in Scanner, DecodeScanned(s) PROVE ArrivalsInv'
<1> DEFINE c == scans[s]
           b == Before(s)
           found == Inspected(c.reads, ThereNow(s), c.deep)
           check == IF c.deep THEN found ELSE Keeping(found, c.sonic)
           d == [c EXCEPT !.step = "compare", !.reads = 0, !.sonic = 0, !.check = check]
<1>1. /\ c.step = "decode" /\ scans' = [scans EXCEPT ![s] = d]
      /\ UNCHANGED <<release, fileVars, filing, examined>>
  BY DEF DecodeScanned, Goes
<1>2. /\ c \in Scan /\ ScanOK(c, release, disk, files, examined) /\ b = c.targets[c.track]
      /\ ThereNow(s) = disk[b.at] /\ ThereNow(s) \in Nat /\ Exists(ThereNow(s), files)
      /\ c.track \in Track /\ Older(c.track, b, release)
  BY <1>1, ScanIs DEF Working
<1>3. /\ c.reads \in Nat /\ c.print \in Nat /\ c.sonic \in Nat /\ c.deep \in BOOLEAN
      /\ Len(files) \in Nat
  BY <1>2 DEF Scan, ArrivalsInv, TypeOK
<1>4. /\ Exists(c.reads, files) /\ Exists(c.sonic, files) /\ Exists(c.print, files) /\ ~c.changed
      /\ c.sonic # 0 => c.reads # 0 /\ Same(c.reads, c.sonic, files)
      /\ Watching(c, b, release, disk, files)
  BY <1>1, <1>2 DEF ScanOK, Working
<1>5. check = IF c.deep THEN Inspected(c.reads, ThereNow(s), c.deep)
              ELSE Keeping(Inspected(c.reads, ThereNow(s), c.deep), c.sonic)
  OBVIOUS
<1> HIDE DEF check
<1>6. /\ check \in Check /\ Exists(check.stamp, files) /\ Exists(check.sonic, files)
      /\ (/\ c.print = 0 \/ ThereNow(s) = c.print
          /\ ThereNow(s) = c.print \/ Strange(ThereNow(s), files)
          /\ c.reads = c.print \/ Strange(c.reads, files)
          /\ c.print # 0 /\ ThereNow(s) = c.print => c.reads = c.print
          /\ SentBy(ThereNow(s), b.from, files)) => Evidence(check, b.from, files)
  <2> DEFINE f == c.reads
             g == ThereNow(s)
             p == c.print
             m == c.sonic
             deep == c.deep
             u == b.from
  <2>1. f \in Nat /\ g \in Nat /\ p \in Nat /\ m \in Nat /\ deep \in BOOLEAN /\ Len(files) \in Nat
    BY <1>2, <1>3
  <2>2. Exists(f, files) /\ Exists(g, files) /\ Exists(m, files) BY <1>2, <1>4
  <2>3. m # 0 => f # 0 /\ Same(f, m, files) BY <1>4
  <2>4. check = IF deep THEN Inspected(f, g, deep) ELSE Keeping(Inspected(f, g, deep), m) BY <1>5
  <2> HIDE DEF f, g, p, m, deep, u, check
  <2>5. /\ check \in Check /\ Exists(check.stamp, files) /\ Exists(check.sonic, files)
        /\ (/\ p = 0 \/ g = p
            /\ g = p \/ Strange(g, files)
            /\ f = p \/ Strange(f, files)
            /\ p # 0 /\ g = p => f = p
            /\ SentBy(g, u, files)) => Evidence(check, u, files)
    BY <2>1, <2>2, <2>3, <2>4, DecodedIs
  <2> QED BY <2>5 DEF f, g, p, m, deep, u
<1>7. /\ d \in Scan /\ d.step = "compare" /\ d.print = c.print /\ d.targets = c.targets
      /\ d.track = c.track /\ d.check = check /\ d.changed = c.changed
  BY <1>2, <1>6 DEF Scan
<1> HIDE DEF d
<1>8. Current(release, c.track, b) => SentBy(disk[b.at], b.from, files)
  BY <1>2 DEF Older, Current, ArrivalsInv, ReleaseOK, Listed
<1>9. Watching(d, b, release, disk, files)
  <2> SUFFICES ASSUME Current(release, c.track, b) PROVE Watching(d, b, release, disk, files)
    BY <1>7 DEF Watching
  <2>1. /\ disk[b.at] = c.print \/ Strange(disk[b.at], files)
        /\ c.reads = c.print \/ Strange(c.reads, files)
        /\ c.print # 0 /\ disk[b.at] = c.print => c.reads = c.print
    BY <1>1, <1>4 DEF Watching
  <2> QED BY <1>2, <1>6, <1>7, <1>8, <2>1 DEF Watching
<1>10. ScanOK(d, release, disk, files, examined)
  BY <1>1, <1>2, <1>4, <1>6, <1>7, <1>9 DEF ScanOK, Working
<1> QED BY <1>1, <1>7, <1>10, ScanOnly

LEMMA PublishedIs ==
  ASSUME NEW s, scans[s] \in Scan
  PROVE  /\ Published(s) \in Scan /\ Published(s).step = "publish"
         /\ Published(s).targets = scans[s].targets /\ Published(s).track = scans[s].track
         /\ Published(s).check = scans[s].check /\ Published(s).changed = scans[s].changed
         /\ Published(s).deep = scans[s].deep
BY DEF Published, Scan

LEMMA CompareFingerprintStep ==
  ASSUME ArrivalsInv, ArrivalConstants, NEW s \in Scanner, CompareFingerprint(s) PROVE ArrivalsInv'
<1> DEFINE c == scans[s]
           b == Before(s)
           nothing == [result |-> "review", stamp |-> 0, sonic |-> 0]
           d == [Published(s) EXCEPT !.changed = TRUE, !.verification = Verification(ThereNow(s)),
                                     !.check = nothing]
<1>1. /\ c.step = "compare" /\ UNCHANGED <<release, fileVars, filing>>
      /\ IF ThereNow(s) = c.print THEN Goes(s, Published(s)) /\ examined' = Examined(s)
         ELSE Goes(s, d) /\ UNCHANGED examined
  BY DEF CompareFingerprint
<1>2. /\ c \in Scan /\ ScanOK(c, release, disk, files, examined) /\ b = c.targets[c.track]
      /\ ThereNow(s) = disk[b.at] /\ Verification(ThereNow(s)) \in Verdict
      /\ c.track \in Track /\ c.track \in DOMAIN c.targets
  BY <1>1, ScanIs DEF Working
<1>3. /\ Exists(c.check.stamp, files) /\ Exists(c.check.sonic, files)
      /\ ~c.changed /\ Watching(c, b, release, disk, files)
  BY <1>1, <1>2 DEF ScanOK, Working
<1>4. \A i \in DOMAIN c.targets :
        /\ Truthful(i, c.targets[i], files, examined) /\ c.targets[i].status = "completed"
        /\ Older(i, c.targets[i], release)
  BY <1>1, <1>2 DEF ScanOK, Working
<1>5. CASE ThereNow(s) = c.print
  <2>1. scans' = [scans EXCEPT ![s] = Published(s)] /\ examined' = Examined(s) BY <1>1, <1>5 DEF Goes
  <2>2. examined \subseteq examined' /\ c.deep => <<c.track, b.from>> \in examined'
    BY <2>1 DEF Examined
  <2>3. examined \subseteq examined' BY <2>1 DEF Examined
  <2>4. /\ Published(s) \in Scan /\ Published(s).step = "publish"
        /\ Published(s).targets = c.targets /\ Published(s).track = c.track
        /\ Published(s).check = c.check /\ Published(s).changed = c.changed
        /\ Published(s).deep = c.deep
    BY <1>2, PublishedIs
  <2>5. Current(release, c.track, b) => Evidence(c.check, b.from, files)
    BY <1>1, <1>2, <1>3, <1>5 DEF Watching
  <2>6. \A i \in DOMAIN c.targets : Truthful(i, c.targets[i], files, examined')
    BY <1>4, <2>3 DEF Truthful
  <2>7. ScanOK(Published(s), release, disk, files, examined')
    BY <1>2, <1>3, <1>4, <2>2, <2>3, <2>4, <2>5, <2>6 DEF ScanOK, Working
  <2> QED BY <1>1, <2>1, <2>3, <2>4, <2>7, ScanOnly
<1>6. CASE ThereNow(s) # c.print
  <2>1. scans' = [scans EXCEPT ![s] = d] /\ examined' = examined BY <1>1, <1>6 DEF Goes
  <2>2. nothing \in Check BY DEF Check
  <2>3. /\ d \in Scan /\ d.step = "publish" /\ d.targets = c.targets /\ d.track = c.track
        /\ d.check = nothing /\ d.changed = TRUE
    <3> HIDE DEF nothing
    <3> QED BY <1>2, <2>2, PublishedIs DEF Scan
  <2>4. Len(files) \in Nat BY DEF ArrivalsInv, TypeOK
  <2> HIDE DEF d
  <2>5. /\ Evidence(d.check, b.from, files)
        /\ Exists(d.check.stamp, files) /\ Exists(d.check.sonic, files)
    BY <2>3, <2>4 DEF Evidence, Exists, SentBy
  <2>6. ScanOK(d, release, disk, files, examined)
    BY <1>2, <1>4, <2>3, <2>5 DEF ScanOK, Working
  <2> QED BY <1>1, <2>1, <2>3, <2>6, ScanOnly
<1> QED BY <1>5, <1>6

LEMMA PublishScanStep ==
  ASSUME ArrivalsInv, ArrivalConstants, NEW s \in Scanner, PublishScan(s) PROVE ArrivalsInv'
<1> DEFINE c == scans[s]
           b == Before(s)
           i == c.track
           t == release[i]
           repaired == c.deep /\ ~c.changed /\ t.repair # "none"
           u == [Changed(t) EXCEPT !.verification = c.verification, !.check = c.check,
                                   !.repair = IF repaired THEN "repaired" ELSE @]
           rest == DOMAIN c.targets \ {i}
           left == Restrict(c.targets, rest)
<1>1. /\ c.step = "publish" /\ UNCHANGED <<fileVars, filing, examined>>
      /\ IF ScanStillCurrent(t, b) THEN release' = [release EXCEPT ![i] = u] ELSE UNCHANGED release
      /\ IF c.changed THEN Goes(s, Idle) ELSE NextTarget(s)
  BY DEF PublishScan
<1>2. /\ c \in Scan /\ ScanOK(c, release, disk, files, examined) /\ b = c.targets[i]
      /\ i \in Track /\ i \in DOMAIN c.targets /\ b \in Transfer
  BY <1>1, ScanIs DEF Working
<1>3. /\ c.changed \/ Current(release, i, b) => Evidence(c.check, b.from, files)
      /\ c.deep /\ ~c.changed => <<i, b.from>> \in examined
  BY <1>1, <1>2 DEF ScanOK, Working
<1>4. \A j \in DOMAIN c.targets :
        /\ Truthful(j, c.targets[j], files, examined) /\ c.targets[j].status = "completed"
        /\ Older(j, c.targets[j], release)
  BY <1>1, <1>2 DEF ScanOK, Working
<1>5. Retold
  <2>1. CASE ScanStillCurrent(t, b)
    <3>1. /\ i \in Listed /\ t.status = "completed" /\ Current(release, i, b) /\ t.from = b.from
      BY <1>2, <2>1 DEF ScanStillCurrent, Listed, Current
    <3>2. t \in Transfer /\ Truthful(i, t, files, examined) /\ t.updated \in Nat
      BY <3>1, ListedType DEF ArrivalsInv, ReleaseOK
    <3>3. /\ Changed(t) \in Transfer /\ Changed(t).updated = t.updated + 1
          /\ Changed(t).status = t.status /\ Changed(t).from = t.from /\ Changed(t).at = t.at
          /\ Changed(t).repair = t.repair
      BY <3>2, ChangedIs
    <3>4. c.verification \in Verdict /\ c.check \in Check BY <1>2 DEF Scan
    <3>5. /\ u \in Transfer
      <4>1. (IF repaired THEN "repaired" ELSE Changed(t).repair) \in {"none", "requested", "repaired"}
        BY <3>3 DEF Transfer
      <4> HIDE DEF repaired
      <4> QED BY <3>3, <3>4, <4>1 DEF Transfer
    <3>6. /\ u.updated = t.updated + 1 /\ u.status = t.status /\ u.from = t.from /\ u.at = t.at
          /\ u.check = c.check /\ u.verification = c.verification
          /\ u.repair = IF repaired THEN "repaired" ELSE t.repair
      <4> HIDE DEF repaired
      <4> QED BY <3>3 DEF Transfer
    <3>7. release' = [release EXCEPT ![i] = u] BY <1>1, <2>1
    <3> HIDE DEF u
    <3>8. /\ release' \in [Track -> Transfer \cup {NoTrack}] /\ release'[i] = u
          /\ \A j \in Track \ {i} : release'[j] = release[j]
      <4> HIDE DEF i
      <4> QED BY <3>1, <3>5, <3>7, OneChanged DEF ArrivalsInv
    <3>9. Truthful(i, u, files, examined)
      <4>1. Evidence(u.check, u.from, files) BY <1>3, <3>1, <3>6
      <4>2. u.repair = "repaired" => <<i, u.from>> \in examined
        BY <1>3, <3>1, <3>2, <3>6 DEF Truthful
      <4> QED BY <3>1, <3>2, <3>6, <4>1, <4>2 DEF Truthful
    <3>10. ASSUME NEW j \in Listed, j # i PROVE release'[j] = release[j] /\ release[j] # NoTrack
      BY <3>8, <3>10 DEF Listed
    <3>11. \A j \in Track : release[j] = NoTrack => release'[j] = NoTrack
      <4>1. i \in Listed BY <3>1
      <4> QED BY <3>8, <4>1 DEF Listed
    <3>12. u # NoTrack BY <3>5, NotListed
    <3>13. ASSUME NEW j \in Listed
           PROVE  /\ release'[j] # NoTrack /\ Truthful(j, release'[j], files, examined)
                  /\ release'[j].from = release[j].from /\ release'[j].at = release[j].at
                  /\ release'[j].status = release[j].status
                  /\ \/ release'[j].updated = release[j].updated
                     \/ release'[j].updated = release[j].updated + 1
      <4>1. CASE j = i BY <3>6, <3>8, <3>9, <3>12, <4>1
      <4>2. CASE j # i BY <3>10, <4>2 DEF ArrivalsInv, ReleaseOK
      <4> QED BY <4>1, <4>2
    <3> QED BY <3>8, <3>11, <3>13 DEF Retold
  <2>2. CASE ~ScanStillCurrent(t, b)
    <3>1. release' = release BY <1>1, <2>2
    <3>2. \A j \in Listed : release[j] # NoTrack /\ Truthful(j, release[j], files, examined)
      BY DEF ArrivalsInv, ReleaseOK, Listed
    <3> QED BY <3>1, <3>2 DEF Retold, ArrivalsInv, TypeOK
  <2> QED BY <2>1, <2>2
<1>6. \E d \in Scan : /\ scans' = [scans EXCEPT ![s] = d]
                      /\ TypeOK' /\ Calm => ScanOK(d, release', disk', files', examined')
  <2>1. CASE c.changed \/ rest = {}
    <3>1. scans' = [scans EXCEPT ![s] = Idle] BY <1>1, <2>1 DEF NextTarget, Goes
    <3> QED BY <3>1, IdleIs
  <2>2. CASE ~(c.changed \/ rest = {})
    <3>1. Begin(s, c.deep, left) BY <1>1, <2>2 DEF NextTarget
    <3>2. PICK D \in SUBSET Track : c.targets \in [D -> Transfer] BY <1>2 DEF Scan, Copies
    <3>3. /\ DOMAIN left = rest /\ rest \in SUBSET Track /\ left \in [rest -> Transfer]
          /\ \A j \in rest : left[j] = c.targets[j] /\ j \in DOMAIN c.targets /\ j \in Track
      BY <3>2 DEF Restrict
    <3>4. left \in Copies BY <3>3 DEF Copies
    <3>5. ASSUME TypeOK', Calm PROVE Copied(left, release', files', examined')
      <4>1. ASSUME NEW j \in rest
            PROVE /\ Truthful(j, left[j], files', examined') /\ left[j].status = "completed"
                  /\ Older(j, left[j], release')
        <5>1. left[j] \in Transfer /\ Older(j, left[j], release) /\ j \in Track BY <1>4, <3>3
        <5>2. Older(j, left[j], release') BY <3>5, <5>1, OlderStays DEF ArrivalsInv
        <5>3. files' = files /\ examined' = examined BY <1>1 DEF fileVars
        <5> QED BY <1>4, <3>3, <5>2, <5>3
      <4> QED BY <2>2, <3>3, <3>4, <4>1 DEF Copied
    <3>6. c.deep \in BOOLEAN BY <1>2 DEF Scan
    <3>7. CASE TypeOK' /\ Calm
      <4>1. Copied(left, release', files', examined') BY <3>5, <3>7
      <4> HIDE DEF left
      <4> QED BY <3>1, <3>6, <4>1, BeginIs
    <3>8. CASE ~(TypeOK' /\ Calm)
      <4>1. Copied(left, release, files, examined) BY <1>4, <2>2, <3>3, <3>4 DEF Copied
      <4>2. PICK d \in Scan : scans' = [scans EXCEPT ![s] = d] /\ ScanOK(d, release, disk, files, examined)
        <5> HIDE DEF left
        <5> QED BY <3>1, <3>6, <4>1, BeginIs
      <4> QED BY <3>8, <4>2
    <3> QED BY <3>7, <3>8
  <2> QED BY <2>1, <2>2
<1>7. PICK d \in Scan : /\ scans' = [scans EXCEPT ![s] = d]
                        /\ TypeOK' /\ Calm => ScanOK(d, release', disk', files', examined')
  BY <1>6
<1>8. scans' \in [Scanner -> Scan] BY <1>7 DEF ArrivalsInv, TypeOK
<1>9. TypeOK' /\ Calm /\ ReleaseOK' /\ FilingOK' /\ KeptOK' BY <1>1, <1>5, <1>8, RetoldStep
<1>10. ScansOK' BY <1>7, <1>9, OneScan
<1> QED BY <1>9, <1>10 DEF ArrivalsInv

-----------------------------------------------------------------------------
LEMMA StutterStep ==
  ASSUME ArrivalsInv, UNCHANGED arrivalVars PROVE ArrivalsInv'
<1>1. UNCHANGED <<fileVars, restVars>> /\ release' = release BY DEF arrivalVars, fileVars, restVars
<1>2. \A i \in Listed : release[i] # NoTrack /\ Truthful(i, release[i], files, examined)
  BY DEF ArrivalsInv, ReleaseOK, Listed
<1>3. Rewritten BY <1>1, <1>2 DEF Rewritten, Retold, ArrivalsInv, TypeOK
<1> QED BY <1>3, RewrittenStep

LEMMA StepInv ==
  ASSUME ArrivalConstants, ArrivalsInv, [ArrivalsNext]_arrivalVars PROVE ArrivalsInv'
<1>1. CASE \E i \in Track : Fail(i) \/ \E q \in Sounds : Arrive(i, q) BY <1>1, FailStep, ArriveStep
<1>2. CASE Verify \/ RetryIssues \/ ClearHistory \/ \E filed \in BOOLEAN : SetFiled(filed)
  BY <1>2, VerifyStep, RetryStep, ClearStep, SetFiledStep
<1>3. CASE \E s \in Scanner : ScanStep(s)
  <2>1. PICK s \in Scanner : ScanStep(s) BY <1>3
  <2> QED BY <2>1, ScanRepairStep, TakeFingerprintStep, VerifyScannedStep, OpenScannedStep,
             DecodeScannedStep, CompareFingerprintStep, PublishScanStep DEF ScanStep
<1>4. CASE \E s \in Asked : \E deep \in BOOLEAN : Soundcheck(s, deep) BY <1>4, SoundcheckStep
<1>5. CASE \E c \in Candidate : PatchMissing(c) \/ \E i \in Track : Patch(i, c)
  BY <1>5, PatchMissingStep, PatchStep
<1>6. CASE Apply \/ CommitFiling \/ Undo \/ CommitUndo
  BY <1>6, ApplyStep, CommitFilingStep, UndoStep, CommitUndoStep
<1>7. CASE \E p \in Path : TakeAway(p) \/ \E whole \in BOOLEAN : Meddle(p, whole)
  BY <1>7, TakeAwayStep, MeddleStep
<1>8. CASE UNCHANGED arrivalVars BY <1>8, StutterStep
<1> QED BY <1>1, <1>2, <1>3, <1>4, <1>5, <1>6, <1>7, <1>8 DEF ArrivalsNext

LEMMA InvIsSound ==
  ASSUME ArrivalsInv PROVE ArrivalIsSound
<1>1. EvidenceIsOfItsFile
  <2> SUFFICES ASSUME NEW i \in Listed
               PROVE LET t == release[i]
                     IN  /\ t.check.stamp # 0 => files[t.check.stamp].from \in {t.from, "others"}
                         /\ t.check.stamp # 0 /\ t.check.sonic # 0 => SameFile(t.check.stamp, t.check.sonic)
                         /\ t.status # "completed" => t.check = Unchecked /\ t.verification = "pending"
    BY DEF EvidenceIsOfItsFile
  <2>1. Truthful(i, release[i], files, examined) BY DEF ArrivalsInv, ReleaseOK
  <2> QED BY <2>1 DEF Truthful, Evidence, SentBy, SameFile, Same
<1>2. RepairsAreExamined BY DEF RepairsAreExamined, ArrivalsInv, ReleaseOK, Truthful
<1>3. FilesAreKept
  <2>1. 1 .. Len(files) \ gone \subseteq aside \cup {disk[p] : p \in Path} BY DEF ArrivalsInv, KeptOK
  <2>2. \A i, j \in Listed : i # j => release[i].at # release[j].at BY Apart
  <2> QED BY <2>1, <2>2 DEF FilesAreKept
<1>4. FiledCanBeUndone
  <2> SUFFICES ASSUME filing.state = "filed", NEW i \in Planned \cap Listed
               PROVE release[i].status = "completed" /\ release[i].at = Filed(i)
    BY DEF FiledCanBeUndone
  <2>1. filing # NoPlan BY DEF NoPlan
  <2>2. PlanOK BY <2>1 DEF ArrivalsInv, FilingOK
  <2> QED BY <2>2 DEF PlanOK
<1> QED BY <1>1, <1>2, <1>3, <1>4 DEF ArrivalIsSound

(* Whatever arrives, is scanned, repaired, filed, undone or cleared, and    *)
(* whatever other programs do to the files at the same time, the release    *)
(* tells of its files what was found in them, and none is lost              *)
(* (downloads.rs, soundcheck.rs).                                           *)
THEOREM ArrivalStaysSound ==
  ASSUME ArrivalConstants
  PROVE  ArrivalsSpec => []ArrivalIsSound
<1>1. ArrivalsInit => ArrivalsInv BY InitInv
<1>2. ArrivalsInv /\ [ArrivalsNext]_arrivalVars => ArrivalsInv' BY StepInv
<1>3. ArrivalsInv => ArrivalIsSound BY InvIsSound
<1> QED BY <1>1, <1>2, <1>3, PTL DEF ArrivalsSpec

=============================================================================
