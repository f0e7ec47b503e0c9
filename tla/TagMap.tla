------------------------------- MODULE TagMap -------------------------------
(***************************************************************************)
(* What the tag store promises: a table from names to images in which a    *)
(* tag is set or deleted at once and for good, or, when the daemon dies in *)
(* the middle of a change, nothing at all any more.                        *)
(***************************************************************************)
CONSTANTS Repo, Tag, Id, None, Lost

VARIABLE tags

Untagged == [t \in Tag |-> None]
Empty == [r \in Repo |-> Untagged]

TagInit == tags = Empty

Set(r, t, i) == tags' = [tags EXCEPT ![r][t] = i]
Delete(r, t) == tags' = [tags EXCEPT ![r][t] = None]
DeleteRepo(r) == tags' = [tags EXCEPT ![r] = Untagged]

Change ==
    /\ tags # Lost
    /\ \E r \in Repo :
          \/ DeleteRepo(r)
          \/ \E t \in Tag : Delete(r, t) \/ \E i \in Id : Set(r, t, i)

Lose == tags' = Lost
StartAfresh == tags = Lost /\ tags' = Empty

TagNext == Change \/ Lose \/ StartAfresh
TagSpec == TagInit /\ [][TagNext]_tags
=============================================================================
