------------------------------ MODULE FileMaint -----------------------------
(***************************************************************************)
(* The maintenance functions of the file base (internal/files/maint.go and *)
(* fdb.go): each reads the headers of an area, computes new ones, and      *)
(* WriteFDB puts them in the place of the old.  They are exported for a    *)
(* maintenance program, the process "Keeper", which this repository does   *)
(* not contain yet; it calls one after another.                            *)
(***************************************************************************)
EXTENDS FileBase

CONSTANTS Keeper,    \* the maintenance program
          Expiring,  \* areas with KillDaysFD or KillDaysDL
          Upkeep     \* the calls it makes: what and on which names

VARIABLES chores     \* calls it may still make, the bound of the model

ASSUME FileMaintAssumption ==
  /\ Keeper \in Processes /\ Expiring \subseteq Areas
  /\ Upkeep \subseteq [op : {"clean", "killmissing", "kill", "lock", "unlock", "adopt", "touch",
                             "sort", "reverse", "compress", "rebuild", "import", "importmissing", "add"},
                       names : SUBSET Names]

FileHeader(a) == [n \in Names |-> Header(n, disk[a][n], {})]

\* Clean: what is expired or missing goes, except comments and locked files.
Stays(a, old, kill, h) ==
  \/ Comment(h) \/ "locked" \in h.flags
  \/ h.name \notin old /\ (kill => OnDisk(a, h.name))

\* SetAttrib and UpdateTimes.
Changed(a, u, h) ==
  IF h.name \notin u.names THEN h
  ELSE CASE u.op = "kill" -> [h EXCEPT !.flags = @ \cup {"deleted"}]
         [] u.op = "lock" -> [h EXCEPT !.flags = @ \cup {"locked"}]
         [] u.op = "unlock" -> [h EXCEPT !.flags = @ \ {"locked"}]
         [] u.op = "touch" -> IF ~OnDisk(a, h.name) THEN h
                              ELSE [h EXCEPT !.size = disk[a][h.name], !.flags = @ \ {"missing"}]

Place(n) == IF n = "none" THEN 0 ELSE CHOOSE i \in DOMAIN NameList : NameList[i] = n

\* Sort by name: stable upwards; downwards its comparison calls equal names
\* less than each other, and their order is anyone's.
Sortings(ents, down) ==
  {s \in {[i \in DOMAIN ents |-> ents[p[i]]] :
            p \in {q \in [DOMAIN ents -> DOMAIN ents] :
                     /\ \A i, k \in DOMAIN ents : q[i] = q[k] => i = k
                     /\ down \/ \A i, k \in DOMAIN ents :
                                  i < k /\ ents[q[i]].name = ents[q[k]].name => q[i] < q[k]}} :
     \A i, k \in DOMAIN ents :
       i < k => IF down THEN Place(s[i].name) >= Place(s[k].name) ELSE Place(s[i].name) <= Place(s[k].name)}

\* The entries at these places, in their order.
Selections(ents, places) ==
  {[i \in DOMAIN at |-> ents[at[i]]] :
     at \in {f \in [1..Cardinality(places) -> places] : \A i, k \in DOMAIN f : i < k => f[i] < f[k]}}

Listed(S) == Selections(NameList, {i \in DOMAIN NameList : NameList[i] \in S})

\* Adopt: the files of the directory that no live header names.
Adopted(a, ents, names) ==
  {ents \o [i \in DOMAIN new |-> FileHeader(a)[new[i]]] :
     new \in Listed({n \in names : OnDisk(a, n) /\ ~Catalogued(a, n)})}

\* ImportList: names no header has, not even a deleted one.
Imported(a, ents, names, missingOnly) ==
  {ents \o [i \in DOMAIN new |-> IF OnDisk(a, new[i]) THEN FileHeader(a)[new[i]]
                                 ELSE Header(new[i], "none", {"missing"})] :
     new \in Listed({n \in names : /\ \A i \in DOMAIN ents : ents[i].name # n
                                   /\ OnDisk(a, n) \/ ~missingOnly})}

\* What the call may make of the headers.  Expired files are any of an area
\* whose files expire: the ages of the files are not modelled.
Results(a, u, old) ==
  LET ents == hdr[a] IN
  CASE u.op \in {"clean", "killmissing"} ->
         Selections(ents, {i \in DOMAIN ents : Stays(a, old, u.op = "killmissing", ents[i])})
    [] u.op \in {"kill", "lock", "unlock", "touch"} ->
         {[i \in DOMAIN ents |-> Changed(a, u, ents[i])]}
    [] u.op \in {"sort", "reverse"} -> Sortings(ents, u.op = "reverse")
    [] u.op = "compress" -> Selections(ents, {i \in DOMAIN ents : Live(ents[i])})
    [] u.op = "rebuild" -> {ents}
    [] u.op = "adopt" -> Adopted(a, ents, u.names)
    [] u.op \in {"import", "importmissing"} -> Imported(a, ents, u.names, u.op = "importmissing")

\* A call up to WriteFDB.  Clean also removes the files, unless the area has
\* a MoveArea; Adopt writes only if it found one.
Maintain(a, u) ==
  /\ job[Keeper].at \in {"idle", "done"} /\ chores > 0
  /\ u.op # "add"
  /\ \E old \in IF u.op = "clean" /\ a \in Expiring THEN {u.names} ELSE {{}} :
     \E ents \in Results(a, u, old) :
       LET gone == IF u.op \notin {"clean", "killmissing"} THEN {}
                   ELSE {hdr[a][i].name : i \in {k \in DOMAIN hdr[a] :
                           ~Stays(a, old, u.op = "killmissing", hdr[a][k])}}
       IN
       /\ disk' = IF a \notin Moves
                    THEN [disk EXCEPT ![a] = [n \in Names |-> IF n \in gone THEN "none" ELSE @[n]]]
                    ELSE disk
       /\ job' = [job EXCEPT ![Keeper] =
                    IF u.op = "adopt" /\ ents = hdr[a] THEN Idle
                    ELSE [Call("empty", a, "none", 0) EXCEPT !.ents = ents]]
       /\ accepted' = {x \in accepted :
                         ~(x[1] = a /\ (x[2] \in gone \/ (u.op = "kill" /\ x[2] \in u.names)))}
  /\ chores' = chores - 1
  /\ UNCHANGED <<hdr, clash>>

\* Add copies a file into the area and catalogues it as AddToFDB does; one it
\* finds in the headers is rejected, after the copy.
AddFile(a, u) ==
  /\ job[Keeper].at \in {"idle", "done"} /\ chores > 0
  /\ u.op = "add"
  /\ \E n \in u.names :
       /\ disk' = [disk EXCEPT ![a][n] = "new"]
       /\ job' = [job EXCEPT ![Keeper] = IF Catalogued(a, n) THEN Idle ELSE Call("catalog", a, n, 0)]
  /\ chores' = chores - 1
  /\ UNCHANGED <<hdr, clash, accepted>>

KeeperStep == \E a \in Areas, u \in Upkeep : Maintain(a, u) \/ AddFile(a, u)
=============================================================================
