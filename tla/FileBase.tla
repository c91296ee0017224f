------------------------------ MODULE FileBase ------------------------------
(***************************************************************************)
(* The file base (internal/files): per area the headers of fdb<n>.hdr and  *)
(* the files in its directory, the calls that read and write them, and the *)
(* maintenance functions.                                                  *)
(*                                                                         *)
(* Nothing locks an area.  Every writer reads the headers, decides and     *)
(* writes later: "job" holds the call each process has in progress and     *)
(* what it read, so that other processes come in between.  File names are  *)
(* 8.3 names none of which is a prefix or a part of another; descriptions  *)
(* and the index, which nothing reads, are left out.                       *)
(***************************************************************************)
EXTENDS Integers, Sequences, FiniteSets

CONSTANTS Processes,    \* the callers' sessions, FTP sessions, maintenance
          Areas,
          NameList,     \* the file names in the order of a directory listing
          UploadTo,     \* UploadArea of each area, itself when it is 0
          DupeChecked,  \* areas with attribute bit 1
          Moves,        \* areas with a MoveArea
          BadNames,     \* badfiles.ctl
          MaxCount      \* bound on TimesDL

Names == {NameList[i] : i \in DOMAIN NameList}

ASSUME FileBaseAssumption ==
  /\ NameList \in Seq(Names)
  /\ UploadTo \in [Areas -> Areas]
  /\ DupeChecked \subseteq Areas /\ Moves \subseteq Areas /\ BadNames \subseteq Names
  /\ MaxCount \in Nat

VARIABLES hdr,   \* the headers of each area
          disk,  \* the content of each file of each area
          job,   \* the call each process has in progress
          clash, \* areas written between the read and the write of another call
          accepted \* uploads that were written to the headers and that nobody
                   \* asked to remove since: a history variable

Contents == {"old", "new", "cut", "none"}
Flags == {"deleted", "locked", "missing", "unlisted", "notavail"}
Headers == [name : Names \cup {"none"}, size : Contents, flags : SUBSET Flags, dl : Nat]

\* A file is "old", "new", partly there ("cut") or absent ("none"); the flags are
\* deleted, locked, missing, unlisted and notavail.
Header(n, s, fl) == [name |-> n, size |-> s, flags |-> fl, dl |-> 0]
Hole == Header("none", "none", {})         \* a record of zeros, a Comment

Idle == [at |-> "idle", area |-> CHOOSE a \in Areas : TRUE, name |-> "none",
         flags |-> {}, rec |-> 0, hdr |-> Hole, ents |-> <<>>, ok |-> FALSE]
Call(at, a, n, i) == [Idle EXCEPT !.at = at, !.area = a, !.name = n, !.rec = i]

Live(h) == "deleted" \notin h.flags
Comment(h) == h.name = "none"
OnDisk(a, n) == n \in Names /\ disk[a][n] # "none"
\* RecordNum counts from 0.
HasRecord(a, rec) == rec < Len(hdr[a])
Record(a, rec) == hdr[a][rec + 1]
InOrder(S) == SelectSeq(NameList, LAMBDA n : n \in S)

FileBaseInit(start) ==
  /\ hdr = start.hdr
  /\ disk = start.disk
  /\ job = [p \in Processes |-> Idle]
  /\ clash = {}
  /\ accepted = {}

---------------------------------------------------------------------------
(* Searching.  A specification of names is the set of the names it matches. *)

ListedForDownload(h, any) ==
  /\ Live(h) /\ ~Comment(h)
  /\ any \/ h.flags \cap {"unlisted", "missing", "notavail", "locked"} = {}

Found(a, n, rec) == [area |-> a, name |-> n, rec |-> rec]

SearchNameInArea(a, spec, any) ==
  LET hit(i) == ListedForDownload(hdr[a][i], any) /\ hdr[a][i].name \in spec /\ OnDisk(a, hdr[a][i].name)
      found == SelectSeq([i \in 1..Len(hdr[a]) |-> i], hit)
  IN IF found = <<>> /\ any /\ Cardinality(spec) = 1
       THEN [i \in 1..Len(InOrder({n \in spec : OnDisk(a, n)})) |->
               Found(a, CHOOSE n \in spec : TRUE, 0)]
       ELSE [i \in DOMAIN found |-> Found(a, hdr[a][found[i]].name, found[i] - 1)]

NameInDupeScan(n) ==
  \E a \in DupeChecked : \E i \in DOMAIN hdr[a] : Live(hdr[a][i]) /\ hdr[a][i].name = n

Catalogued(a, n) == \E i \in DOMAIN hdr[a] : Live(hdr[a][i]) /\ hdr[a][i].name = n

---------------------------------------------------------------------------
(* The calls.  A write clashes with a call on the same area that read the   *)
(* headers before and writes later, when one of them is for the whole area *)
(* or both are for the same record: what one of them wrote is lost.        *)

Pending(q, a, rec) ==
  /\ job[q].area = a
  /\ \/ job[q].at \in {"empty", "write"}
     \/ job[q].at \in {"append", "renew", "put"} /\ (rec = -1 \/ rec = job[q].rec)

Write(p, a, rec, new) ==
  /\ hdr' = [hdr EXCEPT ![a] = new]
  /\ clash' = IF \E q \in Processes \ {p} : Pending(q, a, rec) THEN clash \cup {a} ELSE clash
  /\ UNCHANGED disk

\* WriteAt: what lies between the end and the place becomes zeros.
WriteAt(s, i, h) ==
  [k \in 1..(IF i + 1 > Len(s) THEN i + 1 ELSE Len(s)) |->
     IF k = i + 1 THEN h ELSE IF k <= Len(s) THEN s[k] ELSE Hole]

Proceed(p, at) == job' = [job EXCEPT ![p].at = at]
Finish(p, ok) == job' = [job EXCEPT ![p].at = "done", ![p].ok = ok]
Kept == UNCHANGED <<hdr, disk, clash, accepted>>

\* AddToFDB and catalogFrom up to addHeader.
Catalog(p) ==
  LET j == job[p] IN
  /\ j.at = "catalog"
  /\ IF ~OnDisk(j.area, j.name) \/ Catalogued(j.area, j.name)
       THEN Finish(p, FALSE)
       ELSE job' = [job EXCEPT ![p].at = "stat", ![p].hdr = Header(j.name, disk[j.area][j.name], j.flags)]
  /\ Kept

\* Mutant of Stat: the place is that of the last header.
StatLast(p) ==
  /\ job[p].at = "stat"
  /\ job' = [job EXCEPT ![p].at = "append", ![p].rec = Len(hdr[job[p].area]) - 1]
  /\ Kept

\* appendFile, the size of the file.
Stat(p) ==
  /\ job[p].at = "stat"
  /\ job' = [job EXCEPT ![p].at = "append", ![p].rec = Len(hdr[job[p].area])]
  /\ Kept

\* appendFile and WriteHdr, the write.
Put(p) ==
  LET j == job[p] IN
  /\ j.at \in {"append", "renew", "put"}
  /\ Write(p, j.area, j.rec, WriteAt(hdr[j.area], j.rec, j.hdr))
  /\ accepted' = CASE j.at # "put" -> accepted \cup {<<j.area, j.name>>}
                   [] j.at = "put" /\ ~Live(j.hdr) -> accepted \ {<<j.area, j.name>>}
                   [] OTHER -> accepted
  /\ Finish(p, TRUE)

\* AfterUpload: the header of a file that is catalogued is written anew.
AfterUpload(p) ==
  LET j == job[p]
      same == {i \in DOMAIN hdr[j.area] : Live(hdr[j.area][i]) /\ hdr[j.area][i].name = j.name}
      i == CHOOSE k \in same : \A l \in same : k <= l
  IN
  /\ j.at = "after"
  /\ IF ~OnDisk(j.area, j.name) THEN Finish(p, FALSE)
     ELSE IF same = {} THEN Proceed(p, "catalog")
     ELSE job' = [job EXCEPT ![p].at = "renew", ![p].rec = i - 1,
                             ![p].hdr = [hdr[j.area][i] EXCEPT !.size = disk[j.area][j.name]]]
  /\ Kept

\* BumpTimesDL, up to WriteHdr.
Bump(p) ==
  LET j == job[p]
      h == Record(j.area, j.rec)
  IN
  /\ j.at = "bump"
  /\ IF ~HasRecord(j.area, j.rec) THEN Finish(p, FALSE)
     ELSE /\ h.dl < MaxCount
          /\ job' = [job EXCEPT ![p].at = "put", ![p].hdr = [h EXCEPT !.dl = @ + 1]]
  /\ Kept

\* cmdDele from its second ReadFDB to WriteHdr.
Mark(p) ==
  LET j == job[p] IN
  /\ j.at = "mark"
  /\ IF ~HasRecord(j.area, j.rec) THEN Finish(p, FALSE)
     ELSE job' = [job EXCEPT ![p].at = "put",
                             ![p].hdr = [Record(j.area, j.rec) EXCEPT !.flags = @ \cup {"deleted"}]]
  /\ Kept

\* WriteFDB: os.WriteFile empties the file and then writes it.
Empty(p) ==
  LET j == job[p] IN
  /\ j.at = "empty"
  /\ Write(p, j.area, -1, <<>>)
  /\ Proceed(p, "write")
  /\ UNCHANGED accepted

Fill(p) ==
  LET j == job[p] IN
  /\ j.at = "write"
  /\ Write(p, j.area, -1, j.ents)
  /\ Finish(p, TRUE)
  /\ UNCHANGED accepted

CallStep(p) ==
  \/ Catalog(p) \/ Stat(p) \/ Put(p) \/ AfterUpload(p) \/ Bump(p) \/ Mark(p) \/ Empty(p) \/ Fill(p)

=============================================================================
