---------------------------- MODULE MCTokenMedia ----------------------------
EXTENDS TokenMedia

\* A token whose URI names metadata with an image.
MCSays == [t \in Token |-> {"image"}]
=============================================================================
