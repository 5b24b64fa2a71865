------------------------------ MODULE StreamUrl ------------------------------
(***************************************************************************)
(* ParseURL: a URL is a sequence of tokens, of which "://", ":" and "/" are *)
(* those it looks for.  The only port numbers are those in PortNumbers.     *)
(***************************************************************************)
EXTENDS Naturals, Sequences, SequencesExt

CONSTANT PortNumbers  \* a token that is a number -> that number

ASSUME PortNumbersAssumption == DOMAIN PortNumbers \cap {"://", ":", "/"} = {}

\* Where find sees token, from a position on; 0 when it does not.
Find(token, url, from) == SelectInSubSeq(url, from, Len(url), LAMBDA t : t = token)

\* substr from one position to before another; to the end if that is not after it.
Substr(url, from, to) ==
  SubSeq(url, from, IF to >= from THEN to - 1 ELSE Len(url))

\* atoi, as a uint16_t.
Atoi(text) ==
  IF text # << >> /\ text[1] \in DOMAIN PortNumbers THEN PortNumbers[text[1]] % 65536 ELSE 0

Proto(url, pos_proto) == SubSeq(url, 1, pos_proto - 1)
DefaultPort(proto) == IF proto = <<"rtmp">> THEN 1935 ELSE 443

KeyOf(url, pos_key) == SubSeq(url, pos_key + 1, Len(url))

ParseURL(url) ==
  LET pos_proto == Find("://", url, 1)
      proto == Proto(url, pos_proto)
      pos_port == Find(":", url, pos_proto + 1)
      pos_app == Find("/", url, pos_proto + 1)
      pos_key == Find("/", url, pos_app + 1)
      port == IF pos_port = 0 THEN DefaultPort(proto)
              ELSE Atoi(Substr(url, pos_port + 1, pos_app))
      host_end == IF pos_port = 0 THEN pos_app ELSE pos_port
  IN IF \/ pos_proto = 0 \/ proto \notin {<<"rtmp">>, <<"rtmps">>}
        \/ pos_app = 0 \/ pos_key = 0 \/ port = 0
     THEN [ok |-> FALSE, at |-> 0, value |-> << >>]
     ELSE [ok |-> TRUE, at |-> Len(url),
           value |-> [type |-> proto, port |-> port,
                      url |-> SubSeq(url, pos_proto + 1, host_end - 1),
                      app |-> SubSeq(url, pos_app + 1, pos_key - 1),
                      key |-> KeyOf(url, pos_key)]]

=============================================================================
