---------------------------- MODULE MCDownloads -----------------------------
(***************************************************************************)
(* Two users: one saves a private link, the other a public one, or         *)
(* both save public posts whose files have the same name.                  *)
(***************************************************************************)
EXTENDS Downloads, TLC

CONSTANTS u1, u2, a1, a2, b1, b2

MCUsers == {u1, u2}
MCDirs  == {"d1"}
MCOwner == [d \in MCDirs |-> u1]
ByUser(j)  == IF j \in {a1, a2} THEN u1 ELSE u2
MCUserOf   == [j \in Jobs |-> ByUser(j)]

\* A private link's small file beside a big public one.
MixedJobs == {a1, b1}
MixedPost == [j \in MixedJobs |-> IF j = a1 THEN "p1" ELSE "p2"]
MixedPath == [j \in MixedJobs |-> IF j = a1 THEN <<"d1", "video">> ELSE <<"temp", "photo">>]
MixedSize == [j \in MixedJobs |-> IF j = a1 THEN 1 ELSE 3]
MixedSlack == [j \in MixedJobs |-> IF j = a1 THEN 0 ELSE 1]

\* Two users, two public posts, one file name.
PublicJobs == {a1, b1}
PublicPost == [j \in PublicJobs |-> IF j = a1 THEN "p1" ELSE "p2"]
PublicPath == [j \in PublicJobs |-> <<"temp", "photo">>]
PublicSize == [j \in PublicJobs |-> IF j = a1 THEN 2 ELSE 3]
NoSlack    == [j \in Jobs |-> 0]

\* Two big files of one name in a private link.
SeriesJobs == {a1, a2}
SeriesPost == [j \in SeriesJobs |-> IF j = a1 THEN "p1" ELSE "p2"]
SeriesPath == [j \in SeriesJobs |-> <<"d1", "video">>]
SeriesSize == [j \in SeriesJobs |-> 5]
=============================================================================
