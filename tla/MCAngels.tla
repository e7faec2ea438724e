------------------------------ MODULE MCAngels ------------------------------
EXTENDS AngelMain

MCImage == {[exe |-> "sh", comm |-> "sh", suid |-> FALSE],
            [exe |-> "drop", comm |-> "sys", suid |-> FALSE],
            [exe |-> "tool", comm |-> "tool", suid |-> TRUE]}

MCRemote == {[ip |-> "lo", port |-> 80], [ip |-> "ext", port |-> 8443]}

MCFiles == {Absent, OtherVersion,
            [ips |-> {"lo"}, ports |-> {80}, maxConcurrent |-> 1]}
=============================================================================
