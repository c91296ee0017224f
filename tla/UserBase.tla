------------------------------ MODULE UserBase ------------------------------
(***************************************************************************)
(* The user base (internal/userbase/users.go): USERS.BBS, one record per   *)
(* user, and its index of CRCs, as operators on the contents of the files. *)
(* Logon says which processes call them, and in how many steps.            *)
(*                                                                         *)
(* A name stands for all its spellings foldName makes equal.  Records are  *)
(* numbered from 1; 0 is the code's Record -1.                             *)
(***************************************************************************)
EXTENDS Integers, Sequences

CONSTANTS Names,     \* what users, and callers, are called
          NoName,    \* the empty name
          CrcOf,     \* the CRC of each name; names may share one
          Passwords, \* passwords, as CheckPassword tells them apart
          NoPassword \* no password at all

ASSUME UserBaseAssumption ==
  /\ NoName \notin Names
  /\ NoPassword \notin Passwords
  /\ CrcOf \in [Names \union {NoName} -> Nat]

AnyName == Names \union {NoName}
AnyPassword == Passwords \union {NoPassword}

\* A record; "born" is history: the name it was created under.
User == [name : AnyName, handle : AnyName, pw : AnyPassword,
         deleted : BOOLEAN, calls : Nat, born : AnyName]

\* The zero value of a User.
ZeroUser == [name |-> NoName, handle |-> NoName, pw |-> NoPassword,
             deleted |-> FALSE, calls |-> 0, born |-> NoName]

-----------------------------------------------------------------------------
\* Who answers to a name: by name or by handle.
NameMatches(stored, want) == stored = want /\ want # NoName
Answers(u, want) == NameMatches(u.name, want) \/ NameMatches(u.handle, want)

Found(u, want) == ~u.deleted /\ Answers(u, want)

SamePerson(onDisk, neu) == Answers(onDisk, neu.name) \/ Answers(onDisk, neu.handle)

\* RebuildIndex: a pair of CRCs for each record.
IndexOf(file) ==
  [i \in DOMAIN file |-> <<CrcOf[file[i].name], CrcOf[file[i].handle]>>]

\* The records Search looks at because their index entry has the CRC.
Candidates(index, want) ==
  {i \in DOMAIN index : CrcOf[want] \in {index[i][1], index[i][2]}}

\* The first record of the file that is found under the name, 0 if none is.
Scan(file, want) ==
  IF \E i \in DOMAIN file : Found(file[i], want)
    THEN CHOOSE i \in DOMAIN file :
           Found(file[i], want) /\ \A j \in 1 .. i - 1 : ~Found(file[j], want)
    ELSE 0

\* writeUser: the record is there, and is the same person's or nobody's.
MayWrite(file, rec, u) ==
  /\ rec \in DOMAIN file
  /\ file[rec].name # NoName => SamePerson(file[rec], u)

\* WriteAt of one record at or before the end of the file.
Put(file, rec, u) ==
  IF rec = Len(file) + 1 THEN Append(file, u) ELSE [file EXCEPT ![rec] = u]

\* The first record, which Append reads before it writes, if there is one.
First(file) == SubSeq(file, 1, IF file = <<>> THEN 0 ELSE 1)
=============================================================================
