------------------------------ MODULE MCScripts -----------------------------
EXTENDS MaintainerScripts

M(to, ro) == [to |-> to, from |-> "src", readOnly |-> ro]
SomeConfigs == [net : BOOLEAN, ipc : {TRUE}, filter : BOOLEAN,
                mounts : {<<>>, <<M("a", TRUE)>>, <<M("a", FALSE), M("b", TRUE)>>}]
                 \cup {[net |-> FALSE, ipc |-> FALSE, filter |-> TRUE, mounts |-> <<>>]}
PathOnly == "PATH" :> "default"
Overrides == "PATH" :> "extra"
=============================================================================
