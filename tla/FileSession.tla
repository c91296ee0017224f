----------------------------- MODULE FileSession ----------------------------
(***************************************************************************)
(* The file functions of a caller's session (internal/menu/tag.go,         *)
(* download.go and upload.go, internal/files/tag.go): the list of tagged   *)
(* files, downloads of what it names, and uploads.                         *)
(*                                                                         *)
(* A tag remembers the number its file had in its area, counted from 1,    *)
(* and the session reads the headers again each time it needs the file.    *)
(***************************************************************************)
EXTENDS FileBase, SequencesExt

CONSTANTS Nodes,        \* the callers' sessions, among the processes
          Local,        \* those at the keyboard of the BBS itself
          DownloadFrom, \* areas whose files each caller may download
          UploadInto,   \* areas each caller may upload to
          MaxTagged,    \* MaxTagged
          Commands,     \* menu commands: what, in which area, which names
          Typed         \* names typed at prompts

ASSUME FileSessionAssumption ==
  /\ Nodes \subseteq Processes /\ Local \subseteq Nodes
  /\ DownloadFrom \in [Nodes -> SUBSET Areas] /\ UploadInto \in [Nodes -> SUBSET Areas]
  /\ MaxTagged \in Nat
  /\ \A s \in Typed : s \subseteq Names
  /\ Commands \subseteq [cmd : {"specific", "edit", "view", "upload"}, area : Areas,
                         names : SUBSET Names, global : BOOLEAN, any : BOOLEAN]

VARIABLES tags,     \* taglist.ra of each node
          bbs,      \* where each session is in its file functions
          left      \* menu commands it may still give, the bound of the model

sessionVars == <<tags, bbs, left>>

Tag(f) == [name |-> f.name, area |-> f.area, rec |-> f.rec + 1]
AtMenu == [at |-> "menu", cmd |-> [cmd |-> "view", area |-> CHOOSE a \in Areas : TRUE, names |-> {},
                                   global |-> FALSE, any |-> FALSE],
           found |-> <<>>, sent |-> {}, off |-> FALSE,
           names |-> <<>>, before |-> {}, dead |-> FALSE]

---------------------------------------------------------------------------
(* The list of tagged files. *)

DisplayName(t) ==
  IF t.rec # 0 /\ HasRecord(t.area, t.rec - 1) /\ Record(t.area, t.rec - 1).name # "none"
    THEN Record(t.area, t.rec - 1).name ELSE t.name

IsTagged(list, n, a) ==
  \E i \in DOMAIN list : list[i].area = a /\ n \in {DisplayName(list[i]), list[i].name}

\* The file of a tag: by the name its number has now, else by its own name.
TagFile(t) == IF OnDisk(t.area, DisplayName(t)) THEN DisplayName(t) ELSE t.name
HasFile(t) == OnDisk(t.area, TagFile(t))
Path(f) == <<f.area, f.name>>

\* Mutant of FoundFromTags: tag numbers taken for record numbers.
FoundByTagNumber(list) ==
  [i \in {k \in DOMAIN list : HasFile(list[k])} |->
     [area |-> list[i].area, name |-> TagFile(list[i]), rec |-> list[i].rec, tag |-> list[i].name]]

\* The files of the tags that have one, each under the first tag that names it.
FoundFromTags(list) ==
  LET keep(i) == /\ HasFile(list[i])
                 /\ ~\E k \in 1..(i - 1) : /\ HasFile(list[k]) /\ list[k].area = list[i].area
                                           /\ TagFile(list[k]) = TagFile(list[i])
  IN [i \in {k \in DOMAIN list : keep(k)} |->
        [area |-> list[i].area, name |-> TagFile(list[i]), rec |-> list[i].rec - 1, tag |-> list[i].name]]

\* lookupDownload.
Lookup(n, spec, a, global, any) ==
  LET from == IF global THEN SetToSeq(DownloadFrom[n])
              ELSE IF a \in DownloadFrom[n] \/ any THEN <<a>> ELSE <<>>
      all == FlattenSeq([i \in DOMAIN from |-> SearchNameInArea(from[i], spec, any)])
      new(i) == ~\E k \in 1..(i - 1) : Path(all[k]) = Path(all[i])
      at == SelectSeq([i \in DOMAIN all |-> i], new)
  IN [i \in DOMAIN at |-> all[at[i]]]

AddNamesToTag(n, spec, a, global, any) ==
  FoldLeft(LAMBDA list, f : IF Len(list) >= MaxTagged \/ IsTagged(list, f.name, f.area)
                              THEN list ELSE Append(list, Tag(f)),
           tags[n], Lookup(n, spec, a, global, any))

\* The first tag that answers to the name goes, whatever its area.
DeleteFromTagged(list, want) ==
  LET hit == {i \in DOMAIN list : DisplayName(list[i]) \in want \/ list[i].name \in want}
  IN IF hit = {} THEN list ELSE RemoveAt(list, CHOOSE i \in hit : \A k \in hit : i <= k)

\* The tags with these numbers go, each by the name it shows.
DeleteNumbers(list, lo, hi) ==
  FoldLeft(LAMBDA l, i : DeleteFromTagged(l, {DisplayName(list[i])}),
           list, [i \in 1..(hi - lo + 1) |-> lo + i - 1])

UntagDownloaded(list, sent) ==
  SelectSeq(list, LAMBDA t : ~(HasFile(t) /\ <<t.area, TagFile(t)>> \in sent))

---------------------------------------------------------------------------
(* A session between two waits. *)

At(n, at) == bbs[n].at = at /\ job[n].at = "idle"
Goto(n, s) == bbs' = [bbs EXCEPT ![n] = s]
Back(n) == [AtMenu EXCEPT !.dead = bbs[n].dead]
NoCall == UNCHANGED <<hdr, disk, job, clash, accepted>>

\* transferDownloads with the tags of the list, up to its first prompt; a
\* caller for whom no protocol is usable comes back to the menu.
Transfers(n, list) ==
  LET f == FoundFromTags(list)
      s == [Back(n) EXCEPT !.found = f]
  IN IF f = <<>> THEN {Back(n)}
     ELSE IF n \in Local THEN {[s EXCEPT !.at = "mvdir"]}
     ELSE {[s EXCEPT !.at = "start"], Back(n)}

\* download and viewTaggedFiles.
Download(n) ==
  /\ At(n, "menu") /\ ~bbs[n].dead /\ left[n] > 0
  /\ \E c \in Commands :
       /\ c.cmd # "upload"
       /\ IF c.cmd = "specific"
            THEN \E list \in {AddNamesToTag(n, c.names, c.area, c.global, c.any)} :
                   /\ tags' = [tags EXCEPT ![n] = list]
                   /\ \E s \in Transfers(n, list) : Goto(n, s)
            ELSE Goto(n, [Back(n) EXCEPT !.at = "edit", !.cmd = c]) /\ UNCHANGED tags
  /\ left' = [left EXCEPT ![n] = @ - 1]
  /\ NoCall

\* editTagList: add, delete by number or by name, clear.
Edit(n) ==
  LET c == bbs[n].cmd IN
  /\ At(n, "edit") /\ ~bbs[n].dead /\ tags[n] # <<>> /\ left[n] > 0
  /\ left' = [left EXCEPT ![n] = @ - 1]
  /\ \/ \E spec \in Typed :
          tags' = [tags EXCEPT ![n] = AddNamesToTag(n, spec, c.area, c.global, c.any)]
     \/ \E lo, hi \in DOMAIN tags[n] :
          /\ lo <= hi
          /\ tags' = [tags EXCEPT ![n] = DeleteNumbers(@, lo, hi)]
     \/ \E spec \in Typed : tags' = [tags EXCEPT ![n] = DeleteFromTagged(@, spec)]
     \/ tags' = [tags EXCEPT ![n] = <<>>]
  /\ NoCall /\ UNCHANGED bbs

\* Enter, an empty list or a lost caller ends it; "view" downloads nothing.
EditEnds(n) ==
  /\ At(n, "edit")
  /\ \E s \in IF bbs[n].cmd.cmd = "view" THEN {Back(n)} ELSE Transfers(n, tags[n]) : Goto(n, s)
  /\ NoCall /\ UNCHANGED <<tags, left>>

\* The prompt for start, log off, new protocol or abort.
StartDownload(n) ==
  /\ At(n, "start")
  /\ \/ /\ ~bbs[n].dead
        /\ \E off \in BOOLEAN : Goto(n, [bbs[n] EXCEPT !.at = "sending", !.off = off])
     \/ Goto(n, Back(n))
  /\ NoCall /\ UNCHANGED <<tags, left>>

\* The protocol runs; finishDownload takes from its log, if it wrote one, the
\* files it sent.
Sending(n) ==
  /\ At(n, "sending")
  /\ \E S \in SUBSET DOMAIN bbs[n].found :
       Goto(n, [bbs[n] EXCEPT !.at = "next", !.found = [i \in S |-> bbs[n].found[i]]])
  /\ NoCall /\ UNCHANGED <<tags, left>>

\* localDownload: the directory to copy to.
LocalDownload(n) ==
  /\ At(n, "mvdir")
  /\ \/ ~bbs[n].dead /\ Goto(n, [bbs[n] EXCEPT !.at = "next"])
     \/ Goto(n, Back(n))
  /\ NoCall /\ UNCHANGED <<tags, left>>

\* The first of the files still to be counted is; one that cannot be copied is
\* passed over.
CountNext(n) ==
  /\ At(n, "next")
  /\ \E i \in DOMAIN bbs[n].found :
       LET s == bbs[n]
           f == s.found[i]
           rest == [k \in DOMAIN s.found \ {i} |-> s.found[k]]
       IN
       /\ \A k \in DOMAIN s.found : i <= k
       /\ \/ /\ n \in Local => OnDisk(f.area, f.name)
             /\ Goto(n, [s EXCEPT !.at = "counting", !.found = rest, !.sent = @ \cup {Path(f)}])
             /\ job' = [job EXCEPT ![n] = Call("bump", f.area, f.tag, f.rec)]
          \/ /\ n \in Local
             /\ Goto(n, [s EXCEPT !.found = rest])
             /\ UNCHANGED job
  /\ UNCHANGED <<hdr, disk, clash, accepted, tags, left>>

Counted(n) ==
  /\ bbs[n].at = "counting" /\ job[n].at = "done"
  /\ Goto(n, [bbs[n] EXCEPT !.at = "next"])
  /\ job' = [job EXCEPT ![n] = Idle]
  /\ UNCHANGED <<hdr, disk, clash, accepted, tags, left>>

\* saveUser and untagDownloaded; then the call may end.
DownloadEnds(n) ==
  /\ At(n, "next") /\ bbs[n].found = <<>>
  /\ tags' = [tags EXCEPT ![n] = UntagDownloaded(@, bbs[n].sent)]
  /\ Goto(n, [Back(n) EXCEPT !.dead = @ \/ bbs[n].off])
  /\ NoCall /\ UNCHANGED left

---------------------------------------------------------------------------
(* Uploads. *)

\* doUpload up to the prompts of localAreaUpload and askUploadStart.
Upload(n) ==
  /\ At(n, "menu") /\ ~bbs[n].dead /\ left[n] > 0
  /\ left' = [left EXCEPT ![n] = @ - 1]
  /\ \E c \in Commands :
       /\ c.cmd = "upload"
       /\ IF UploadTo[c.area] \notin UploadInto[n] THEN UNCHANGED bbs
          ELSE Goto(n, [Back(n) EXCEPT !.cmd = [c EXCEPT !.area = UploadTo[c.area]],
                                       !.at = IF n \in Local THEN "local" ELSE "ustart"])
  /\ NoCall /\ UNCHANGED tags

\* localAreaUpload: files are copied in under names that are new.
LocalUpload(n) ==
  LET s == bbs[n] IN
  /\ At(n, "local")
  /\ \/ /\ ~s.dead
        /\ \E f \in UNION Typed :
             /\ ~OnDisk(s.cmd.area, f) /\ ~NameInDupeScan(f)
             /\ disk' = [disk EXCEPT ![s.cmd.area][f] = "new"]
             /\ Goto(n, [s EXCEPT !.names = Append(@, f)])
     \/ Goto(n, [s EXCEPT !.at = "check"]) /\ UNCHANGED disk
  /\ UNCHANGED <<hdr, job, clash, tags, left, accepted>>

StartUpload(n) ==
  LET s == bbs[n] IN
  /\ At(n, "ustart")
  /\ \/ /\ ~s.dead
        /\ Goto(n, [s EXCEPT !.at = "receiving", !.before = {f \in Names : OnDisk(s.cmd.area, f)}])
     \/ Goto(n, Back(n))
  /\ NoCall /\ UNCHANGED <<tags, left>>

\* The protocol receives files into the area; collectUploadedNames takes those
\* in its log and whatever else has come into the area since before it ran.
Receive(n) ==
  LET s == bbs[n] IN
  /\ At(n, "receiving")
  /\ \E R \in {{}} \cup {{f} : f \in UNION Typed} \cup {UNION Typed} : \E L \in {{}, R} :
       /\ disk' = [disk EXCEPT ![s.cmd.area] = [f \in Names |-> IF f \in R THEN "new" ELSE @[f]]]
       /\ Goto(n, [s EXCEPT !.at = "check",
                     !.names = InOrder(L) \o InOrder({f \in Names \ (L \cup s.before) :
                                                        f \in R \/ OnDisk(s.cmd.area, f)})])
  /\ UNCHANGED <<hdr, job, clash, tags, left, accepted>>

\* processUploads, one name: a bad one is erased, one that is catalogued in an
\* area of the duplicate scan is left on the disk.
CheckUpload(n) ==
  LET s == bbs[n]
      f == Head(s.names)
  IN
  /\ At(n, "check") /\ s.names # <<>>
  /\ disk' = IF f \in BadNames THEN [disk EXCEPT ![s.cmd.area][f] = "none"] ELSE disk
  /\ Goto(n, IF f \in BadNames \/ NameInDupeScan(f) THEN [s EXCEPT !.names = Tail(@)]
             ELSE [s EXCEPT !.at = "describe"])
  /\ UNCHANGED <<hdr, job, clash, tags, left, accepted>>

\* askUploadDesc: a description that starts with "/" hides the file.
Describe(n) ==
  LET s == bbs[n] IN
  /\ At(n, "describe")
  /\ IF s.dead
       THEN Goto(n, [s EXCEPT !.at = "check", !.names = Tail(@)]) /\ UNCHANGED job
       ELSE /\ Goto(n, [s EXCEPT !.at = "adding"])
            /\ \E fl \in {{}, {"unlisted", "notavail"}} :
                 job' = [job EXCEPT ![n] = [Call("catalog", s.cmd.area, Head(s.names), 0)
                                              EXCEPT !.flags = fl]]
  /\ UNCHANGED <<hdr, disk, clash, accepted, tags, left>>

\* AddToFDB returned; an upload it catalogued is credited to the caller.
Uploaded(n) ==
  LET s == bbs[n] IN
  /\ s.at = "adding" /\ job[n].at = "done"
  /\ Goto(n, [s EXCEPT !.at = "check", !.names = Tail(@)])
  /\ job' = [job EXCEPT ![n] = Idle]
  /\ UNCHANGED <<hdr, disk, clash, accepted, tags, left>>

UploadEnds(n) ==
  /\ At(n, "check") /\ bbs[n].names = <<>>
  /\ Goto(n, Back(n))
  /\ NoCall /\ UNCHANGED <<tags, left>>

\* The caller hangs up at a prompt.
Lose(n) ==
  /\ bbs[n].at \in {"edit", "start", "mvdir", "local", "ustart", "describe"} /\ ~bbs[n].dead
  /\ Goto(n, [bbs[n] EXCEPT !.dead = TRUE])
  /\ NoCall /\ UNCHANGED <<tags, left>>

SessionStep(n) ==
  \/ Download(n) \/ Edit(n) \/ EditEnds(n) \/ StartDownload(n) \/ Sending(n) \/ LocalDownload(n)
  \/ CountNext(n) \/ Counted(n) \/ DownloadEnds(n)
  \/ Upload(n) \/ LocalUpload(n) \/ StartUpload(n) \/ Receive(n) \/ CheckUpload(n)
  \/ Describe(n) \/ Uploaded(n) \/ UploadEnds(n) \/ Lose(n)
=============================================================================
