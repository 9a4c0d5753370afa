---------------------------- MODULE PictureJobs ----------------------------
(* What the threads of the decoder promise to the calls of the application,    *)
(* and what module PicBufs relies on: a decode call returns only when every job *)
(* of its picture has been done, and no job is done between two calls.          *)
CONSTANT JobSets        \* the sets of jobs a picture may consist of

VARIABLES todo,         \* the jobs of the picture in hand that are not done
          inCall        \* an API call is running

Init == todo = {} /\ inCall = FALSE

\* A call begins; a decode call brings the jobs of its picture.
Call(jobSet) == /\ ~inCall
                /\ inCall' = TRUE
                /\ todo' = jobSet

\* Some thread finishes one job.
Do(j) == /\ inCall
         /\ j \in todo
         /\ todo' = todo \ {j}
         /\ UNCHANGED inCall

\* The call returns.
Return == /\ inCall
          /\ todo = {}
          /\ inCall' = FALSE
          /\ UNCHANGED todo

Next == \/ \E jobSet \in JobSets \union {{}} : Call(jobSet)
        \/ \E j \in UNION JobSets : Do(j)
        \/ Return

Spec == Init /\ [][Next]_<<todo, inCall>>
=============================================================================
