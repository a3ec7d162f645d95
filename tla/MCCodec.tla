-------------------------------- MODULE MCCodec -------------------------------
(* Requests and responses of the TLC runs of Codec.                        *)
EXTENDS Codec

\* Bodies of 8191, 8192 and 8193 bytes, arguments of more than one chunk, and
\* strings at the limits of each form and of hs_encode_string.
MCRequests ==
    [service : {20}, method : {10}, args : {Failed, NoJson, 0, 8072, 8073, 8074, 65536, 65537, 131073},
     attach : BOOLEAN]
    \cup [service : {31, 32, 1023, 1024, 8051, 8052, 32768, 32769}, method : {1, 32, 32769}, args : {20},
          attach : {FALSE}]

Text(ascii, wide) == [ascii |-> ascii, wide |-> wide, lead |-> 228]

Response == [isreq |-> FALSE, evt |-> FALSE, seri |-> 2, status |-> 20, type |-> 145,
             text |-> Text(0, 0), chunks |-> << >>]

\* Values as a Hessian encoder cuts them: one chunk of any form, or several.
MCChunks ==
    {<<c>> : c \in {<<"nibble", 0>>, <<"nibble", 15>>, <<"ten", 16>>, <<"ten", 1023>>,
                    <<"B", 1024>>, <<"B", 32767>>, <<"B", 32768>>}}
    \cup {s \o <<c>> :
            s \in {<<<<"A", 8189>>>>, <<<<"A", 32767>>, <<"A", 32767>>>>,
                   <<<<"A", 32767>>, <<"A", 32767>>, <<"A", 32767>>>>},
            c \in {<<"B", 1024>>, <<"B", 3>>, <<"ten", 20>>, <<"nibble", 2>>}}

MCResponses ==
    {[Response EXCEPT !.chunks = c] : c \in MCChunks}
    \cup {[Response EXCEPT !.type = 144, !.text = t] :
            t \in {Text(0, 0), Text(5, 2), Text(1024, 0), Text(65535, 1)}}
    \cup {[Response EXCEPT !.status = s, !.text = t] : s \in {31, 70}, t \in {Text(0, 0), Text(31, 1)}}
    \cup {[Response EXCEPT !.type = y] : y \in {127, 128, 143, 146, 147, 148, 191, 192}}
    \cup {[Response EXCEPT !.evt = TRUE, !.isreq = q] : q \in BOOLEAN}
    \cup {[Response EXCEPT !.seri = 6, !.chunks = <<<<"nibble", 1>>>>]}

\* The answers of a server that cuts a large value into chunks.
MCChunked ==
    {[Response EXCEPT !.chunks = <<<<"A", n>>, c>>] :
        n \in 8182 .. 8189, c \in {<<"B", 1024>>, <<"ten", 20>>, <<"nibble", 2>>}}
=============================================================================
