--------------------------- MODULE MCDockerBackup ---------------------------
EXTENDS DockerBackup

\* "wiki" is how "wiki-old" begins.
Names  == {"wiki", "wiki-old"}
Prefix == [c \in Names |-> IF c = "wiki" THEN Names ELSE {c}]
=============================================================================
