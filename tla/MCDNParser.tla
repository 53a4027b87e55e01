---------------------------- MODULE MCDNParser ----------------------------
(* An instance of DNParser.  The bytes: "a" is a letter and a hex digit,   *)
(* "A" the same in the other case, "0" a digit for \00, \a0 and \0a.       *)
EXTENDS DNParser

MCTypeBytes == {97, Space, Comma, Eq}
MCBytes == {97, 65, 48, Space, Hash, Plus, Comma, Semi, Eq, Backslash, LParen}

(* "", "a=", "a=a+A=" and "a=a,a=" *)
MCOpenings == <<>> :> 5 @@ <<97, Eq>> :> 4 @@ <<97, Eq, 97, Plus, 65, Eq>> :> 3
                  @@ <<97, Eq, 97, Comma, 97, Eq>> :> 3

MCNames == {<<b>> : b \in MCBytes \cup {0, 160}} \cup {<<Space, Comma>>, <<Hash, Space>>, <<97, Eq, Space>>}

(* "a=A", "A= a;a=0", "a=a+a=A" and "a=A+a=0" *)
MCSamples == {<<97, Eq, 65>>, <<65, Eq, Space, 97, Semi, 97, Eq, 48>>,
              <<97, Eq, 97, Plus, 97, Eq, 65>>, <<97, Eq, 65, Plus, 97, Eq, 48>>}
=============================================================================
