------------------------------ MODULE TagStore ------------------------------
(***************************************************************************)
(* tags.go: the repositories of images, a map in memory and its copy in    *)
(* one file.  Every operation begins with Reload, which reads the whole    *)
(* file and unmarshals it INTO the map (a repository the file has replaces *)
(* the one in memory, one it has not stays), and a change ends with Save,  *)
(* which marshals the whole map and rewrites the file.  No lock is held.   *)
(* Goroutines of the daemon run on one processor (nothing sets GOMAXPROCS) *)
(* and give way where they do I/O: the steps end at ReadFile, at the open  *)
(* of WriteFile, which truncates the file, and at its write.               *)
(***************************************************************************)
CONSTANTS
    Repo, Tag, Id,  \* repository names, tag names and image ids
    Client,         \* the requests the daemon serves at the same time
    Serial,         \* TRUE: those that use the tag store come one by one
    None,           \* no image
    Lost            \* a file that has been truncated, and not written yet

TagStoreAssumption ==
    /\ None \notin Id
    /\ Lost \notin [Repo -> [Tag -> Id \cup {None}]]
    /\ Serial \in BOOLEAN

VARIABLES
    file,   \* what the file holds
    mem,    \* store.Repositories; a repository without tags is not there
    op,     \* op[c]: the operation of request c, Idle if there is none
    at,     \* its next step: "read", "apply", "truncate", "write"
    data,   \* what it has read from the file, or is about to write
    up      \* the daemon runs

vars == <<file, mem, op, at, data, up>>

Untagged == [t \in Tag |-> None]
Empty == [r \in Repo |-> Untagged]
Content == [Repo -> [Tag -> Id \cup {None}]]

(* All the tags of a repository at once: Delete with an empty tag. *)
AllTags == "every tag"
Idle == [kind |-> "idle"]
Gets == [kind : {"get"}]
Sets == [kind : {"set"}, repo : Repo, tag : Tag, id : Id]
Deletes == [kind : {"delete"}, repo : Repo, tag : Tag \cup {AllTags}]

TypeOK ==
    /\ file \in Content \cup {Lost}
    /\ mem \in Content
    /\ op \in [Client -> {Idle} \cup Gets \cup Sets \cup Deletes]
    /\ at \in [Client -> {"read", "apply", "truncate", "write"}]
    /\ data \in [Client -> Content]
    /\ up \in BOOLEAN

(* NewTagStore with no file yet: it saves an empty map. *)
Init ==
    /\ file = Empty /\ mem = Empty
    /\ op = [c \in Client |-> Idle]
    /\ at = [c \in Client |-> "read"]
    /\ data = [c \in Client |-> Empty]
    /\ up = TRUE

(* json.Unmarshal into the map: an entry for each repository of the file.  *)
Merged(old, new) == [r \in Repo |-> IF new[r] = Untagged THEN old[r] ELSE new[r]]

(* A lookup by name, Set after its lookup of the image, or Delete: of one  *)
(* tag, or with an empty tag of the whole repository.                      *)
Call(c) ==
    /\ up /\ op[c] = Idle
    /\ Serial => \A d \in Client : op[d] = Idle
    /\ \E o \in Gets \cup Sets \cup Deletes : op' = [op EXCEPT ![c] = o]
    /\ UNCHANGED <<file, mem, at, data, up>>

Return(c) ==
    /\ op' = [op EXCEPT ![c] = Idle]
    /\ at' = [at EXCEPT ![c] = "read"]
    /\ data' = [data EXCEPT ![c] = Empty]

(* ReadFile.  An empty file is an error of Unmarshal, and of the caller.   *)
Read(c) ==
    /\ op[c] # Idle /\ at[c] = "read"
    /\ IF file = Lost
       THEN Return(c)
       ELSE /\ data' = [data EXCEPT ![c] = file]
            /\ at' = [at EXCEPT ![c] = "apply"]
            /\ UNCHANGED op
    /\ UNCHANGED <<file, mem, up>>

(* What the operation makes of the map. *)
SetTagMutant(m, r, t, i) == [m EXCEPT ![r] = [Untagged EXCEPT ![t] = i]]
SetTag(m, r, t, i) == [m EXCEPT ![r][t] = i]
DeleteTags(m, r, t) ==
    IF t = AllTags THEN [m EXCEPT ![r] = Untagged]
    ELSE [m EXCEPT ![r][t] = None]
Changed(m, o) ==
    IF o.kind = "set" THEN SetTag(m, o.repo, o.tag, o.id)
    ELSE DeleteTags(m, o.repo, o.tag)

(* Delete of a tag that a repository does not have is an error; Delete in  *)
(* a repository that is not there only saves.                              *)
NoSuchTag(m, o) ==
    /\ o.kind = "delete" /\ o.tag # AllTags
    /\ m[o.repo] # Untagged /\ m[o.repo][o.tag] = None

(* Unmarshal; then the lookup, or the change and the Marshal of Save.      *)
Apply(c) ==
    /\ op[c] # Idle /\ at[c] = "apply"
    /\ LET reloaded == Merged(mem, data[c])
       IN  IF op[c].kind = "get" \/ NoSuchTag(reloaded, op[c])
           THEN mem' = reloaded /\ Return(c)
           ELSE /\ mem' = Changed(reloaded, op[c])
                /\ data' = [data EXCEPT ![c] = mem']
                /\ at' = [at EXCEPT ![c] = "truncate"]
                /\ UNCHANGED op
    /\ UNCHANGED <<file, up>>

(* WriteFile opens the file with O_TRUNC ... *)
Truncate(c) ==
    /\ op[c] # Idle /\ at[c] = "truncate"
    /\ file' = Lost
    /\ at' = [at EXCEPT ![c] = "write"]
    /\ UNCHANGED <<mem, op, data, up>>

(* ... and writes what Save marshalled. *)
Write(c) ==
    /\ op[c] # Idle /\ at[c] = "write"
    /\ file' = data[c]
    /\ Return(c)
    /\ UNCHANGED <<mem, up>>

(* The daemon dies, at any step. *)
Crash ==
    /\ up /\ up' = FALSE
    /\ mem' = Empty
    /\ op' = [c \in Client |-> Idle]
    /\ at' = [c \in Client |-> "read"]
    /\ data' = [c \in Client |-> Empty]
    /\ UNCHANGED file

(* NewTagStore: an empty file is no os.IsNotExist, so that the daemon does *)
(* not start ("Couldn't create Tag store") until somebody removes it.      *)
RestartMutant == up' = TRUE /\ mem' = Empty
RestartTorn == up' = TRUE /\ mem' = file
Restart == file # Lost /\ up' = TRUE /\ mem' = file

NewTagStore == ~up /\ Restart /\ UNCHANGED <<file, op, at, data>>

(* Without the file it starts, and saves an empty map. *)
Removed ==
    /\ ~up /\ file = Lost
    /\ file' = Empty /\ mem' = Empty /\ up' = TRUE
    /\ UNCHANGED <<op, at, data>>

Next ==
    \/ \E c \in Client : Call(c) \/ Read(c) \/ Apply(c) \/ Truncate(c) \/ Write(c)
    \/ Crash \/ NewTagStore \/ Removed

Spec == Init /\ [][Next]_vars
-----------------------------------------------------------------------------
(* Refinement: when the requests that use the store come one by one, it is *)
(* the table of TagMap.  A change takes effect when WriteFile truncates    *)
(* the file: from then on the memory of the daemon holds the only copy,    *)
(* and a crash before the write loses all the tags.                        *)
Promised == INSTANCE TagMap WITH
    tags <- IF file # Lost THEN file ELSE IF up THEN mem ELSE Lost
TagMapSpec == Promised!TagSpec

(* While nothing is being changed, the map in memory is what the file      *)
(* says: lookups, which read only the map once Reload is done, and a       *)
(* restarted daemon agree on every name.                                   *)
MemoryIsFile ==
    (Serial /\ up /\ \A c \in Client : at[c] # "truncate")
        => file \in {mem, Lost}
=============================================================================
