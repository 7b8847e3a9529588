--------------------------- MODULE MCAuthExchange ---------------------------
\* Instances of AuthExchange.
EXTENDS AuthExchange

\* Clocks that nearly agree, and one at the limit of what is tolerated.
EdgeSkews == {-1, 1, 6}

=============================================================================
