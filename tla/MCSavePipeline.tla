--------------------------- MODULE MCSavePipeline ---------------------------
(* Instances of SavePipeline for TLC.                                      *)
EXTENDS SavePipeline, TLC

CONSTANTS top, sub, f, g, h, l

\* A directory with three files; and two levels with a symlink.  f has two
\* chunks, g shares one of them.
Trees == { top :> <<f, g, h>> @@ sub :> << >> @@ f :> << >> @@ g :> << >>
             @@ h :> << >> @@ l :> << >>,
           top :> <<sub, g, l>> @@ sub :> <<f>> @@ f :> << >> @@ g :> << >>
             @@ h :> << >> @@ l :> << >> }
TreesContent == top :> <<"T">> @@ sub :> <<"S">> @@ f :> <<"A", "C">>
                @@ g :> <<"A">> @@ h :> <<"B">> @@ l :> << >>
=============================================================================
