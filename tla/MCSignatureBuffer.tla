-------------------------- MODULE MCSignatureBuffer --------------------------
(***************************************************************************)
(* SignatureBuffer with lengths of a few bytes: documents without a        *)
(* signature, with one, with a placeholder that nobody filled, and one too *)
(* long for the byte range; chains whose sources fail in every position.   *)
(***************************************************************************)
EXTENDS SignatureBuffer

Says(outcome) == [is |-> outcome, size |-> 0]
Valid(size) == [is |-> "valid", size |-> size]

\* Two responders and a point: the first answers, the second does, neither does; the list
\* is good, is not its issuer's, is not there.
Leaves ==
  {[ocspServers |-> s, crlPoints |-> p] :
     s \in {<<Valid(1), Valid(3)>>, <<Says("unreachable"), Valid(3)>>,
            <<Says("refused"), Says("unparsable")>>},
     p \in {<<Valid(2)>>, <<Says("unsigned")>>}}

\* No issuer in the chain: a list is taken as it is, a responder is not asked.
Roots ==
  {[ocspServers |-> <<Valid(1)>>, crlPoints |-> <<[is |-> a, size |-> 1]>>] :
     a \in {"unsigned", "unreachable"}}

NoSources == [ocspServers |-> <<>>, crlPoints |-> <<>>]

SomeChains == {<<leaf, root>> : leaf \in Leaves, root \in Roots} \union {<<>>, <<NoSources>>}

Signed(range, at) ==
  [length |-> 24,
   ranges |-> <<[at |-> 2, value |-> range]>>,
   contents |-> <<[at |-> at, digits |-> 8, used |-> 5, signature |-> 0]>>]

SomeDocuments ==
  { [EmptyFile EXCEPT !.length = 8],
    Signed(<<0, 7, 17, 7>>, 7),
    [length |-> 30, ranges |-> <<[at |-> 2, value |-> <<>>]>>,
     contents |-> <<[at |-> 7, digits |-> 20, used |-> 0, signature |-> 0]>>],
    [EmptyFile EXCEPT !.length = 95] }

Asks(type, tsa, function, collect, preset) ==
  [type |-> type, estimate |-> 1, tsa |-> tsa, function |-> function, store |-> collect,
   preset |-> preset]

Brought == [ocsp |-> <<[certificate |-> 0, attempt |-> 0]>>, crl |-> <<>>, size |-> 2]

SomeRequests ==
  { Asks("signature", FALSE, "none", FALSE, Brought),
    Asks("signature", TRUE, "default", FALSE, NoEvidence),
    Asks("signature", FALSE, "bestEffort", TRUE, NoEvidence),
    Asks("signature", TRUE, "default", TRUE, Brought),
    Asks("timestamp", TRUE, "none", FALSE, NoEvidence),
    Asks("timestamp", FALSE, "none", FALSE, NoEvidence) }

\* The first needs no more than is reserved, each other more than was for the one before.
SomeSizes == {3, 8, 9, 14}
=============================================================================
