--------------------------- MODULE MCSteamInstall ---------------------------
(* Two accounts, the copy in /Applications and one on an external drive.    *)
EXTENDS SteamInstall

CONSTANTS a1, a2, applications, drive

\* The second account may not change the copy on the first one's drive, and has
\* only the newer app.
MCCanWrite == [a \in {a1, a2} |-> IF a = a1 THEN {applications, drive} ELSE {applications}]
MCAppBuilds == [a \in {a1, a2} |-> IF a = a1 THEN {1, 2} ELSE {2}]
=============================================================================
