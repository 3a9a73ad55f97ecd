------------------------------ MODULE MCServices ------------------------------
EXTENDS Services

\* Three sockets of one address, one of another.
MCIP == <<"x", "x", "x", "y">>

\* A token whose URI says nothing to one endpoint and names metadata to another.
MCSays == [t \in Token |-> {"", "bare", "image"}]
==============================================================================
