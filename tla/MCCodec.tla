------------------------------ MODULE MCCodec ------------------------------
EXTENDS Codec

\* Every class, and every type that belongs to none.
MCRoots ==
  {Class(c) : c \in DOMAIN Classes}
    \cup {<<"type", t>> : t \in {u \in DOMAIN Types : \A c \in DOMAIN Classes : u \notin Classes[c]}}

=============================================================================
