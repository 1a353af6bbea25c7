------------------------------ MODULE Download -------------------------------
(***************************************************************************)
(* lib/gs-download-utils.c: a file of the cache is downloaded again unless *)
(* the server says that it was not modified, as told by the ETag stored    *)
(* with the file or by the file's modification time.  The callers are the  *)
(* refresh of the ratings (lib/gs-odrs-provider.c), that of an external    *)
(* AppStream file for the user or, by way of a temporary file, for the     *)
(* system (lib/gs-external-appstream-utils.c), and a CSS resource          *)
(* (lib/gs-plugin.c).  The server, the clock and the process are free to   *)
(* change, go on and crash at any time.                                    *)
(***************************************************************************)
EXTENDS Naturals, FiniteSetsExt

CONSTANTS
    MaxVersion, MaxTime,    \* bounds of the versions of the server and of the clock
    Size,                   \* how many units a version consists of
    CacheAge,               \* cache_age_secs
    NoFile                  \* no file, no ETag, no download

ASSUME DownloadAssumption ==
    /\ MaxVersion \in Nat \ {0} /\ MaxTime \in Nat /\ Size \in Nat \ {0} /\ CacheAge \in Nat
    /\ NoFile \notin Nat

VARIABLES
    clock,
    server,         \* its version and when it was modified
    user,           \* which caller downloads the file
    cached,         \* the file that is downloaded to
    systemFile,     \* the copy for the system of an external AppStream file
    ratings,        \* the version of the ratings that are loaded
    dl,             \* the download that runs
    lastRefresh     \* what the last refresh returned
downloadVars == <<clock, server, user, cached, systemFile, ratings, dl, lastRefresh>>

Users == {"ratings", "user", "system", "resource"}
Versions == 1..MaxVersion
Times == 0..MaxTime
Etags == Versions \union {NoFile}
File == [version : 0..MaxVersion, units : 0..Size, etag : Etags, mtime : Times]
Transfer == [stage : {"replacing", "requesting", "reading", "writing", "closing"},
             lastEtag : Etags, lastModified : Times \union {NoFile},
             inPlace : BOOLEAN,                     \* no old file: there is nothing to replace
             version : 0..MaxVersion,               \* what the server answered with
             newEtag : Etags,
             expected : 0..Size, read : 0..Size, unwritten : 0..Size, written : 0..Size,
             mtime : Times,                         \* when the stream was last written to
             error : BOOLEAN, discard : BOOLEAN,    \* discard_output_stream
             outOpen : BOOLEAN, inOpen : BOOLEAN]   \* close_output_stream, close_input_stream

ASSUME NoFileAssumption == NoFile \notin File /\ NoFile \notin Transfer

DownloadTypeOK ==
    /\ clock \in Times /\ server \in [version : Versions, modified : Times]
    /\ user \in Users \union {NoFile}
    /\ cached \in File \union {NoFile} /\ systemFile \in File \union {NoFile}
    /\ ratings \in Versions \union {NoFile}
    /\ dl \in Transfer \union {NoFile}
    /\ lastRefresh \in {"none", "ok", "failed"}

DownloadInit ==
    /\ clock = 0 /\ server = [version |-> 1, modified |-> 0] /\ user = NoFile
    /\ cached = NoFile /\ systemFile = NoFile /\ ratings = NoFile /\ dl = NoFile
    /\ lastRefresh = "none"

Whole(file) == file # NoFile /\ file.units = Size /\ file.version # 0

-----------------------------------------------------------------------------
\* Around the process.
Tick == /\ clock < MaxTime /\ clock' = clock + 1
        /\ UNCHANGED <<server, user, cached, systemFile, ratings, dl, lastRefresh>>

ServerChanges ==
    /\ server.version < MaxVersion
    /\ server' = [version |-> server.version + 1, modified |-> clock]
    /\ UNCHANGED <<clock, user, cached, systemFile, ratings, dl, lastRefresh>>

Crash == /\ user # NoFile
         /\ dl' = NoFile /\ ratings' = NoFile /\ lastRefresh' = "none"
         /\ UNCHANGED <<clock, server, user, cached, systemFile>>

-----------------------------------------------------------------------------
\* gs_odrs_provider_load_ratings(), and the deletion of a file it cannot parse.
LoadRatings(file) ==
    IF Whole(file)
    THEN ratings' = file.version /\ lastRefresh' = "ok" /\ cached' = file
    ELSE cached' = NoFile /\ lastRefresh' = "failed" /\ UNCHANGED ratings

\* gs_utils_get_file_etag() and g_file_replace_async().
NewTransfer == [stage |-> "replacing",
    lastEtag |-> IF cached = NoFile THEN NoFile ELSE cached.etag,
    lastModified |-> IF cached = NoFile THEN NoFile ELSE cached.mtime,
    inPlace |-> cached = NoFile, version |-> 0, newEtag |-> NoFile,
    expected |-> 0, read |-> 0, unwritten |-> 0, written |-> 0, mtime |-> clock,
    error |-> FALSE, discard |-> FALSE, outOpen |-> FALSE, inOpen |-> FALSE]

Young(file) == file # NoFile /\ clock - file.mtime < CacheAge

\* gs_odrs_provider_refresh_ratings_async(), refresh_url_async() and
\* gs_plugin_download_rewrite_resource_uri(): whether the file is kept as it
\* is, or downloaded.  forced is a cache age of zero.
Refresh(who, forced) ==
    /\ dl = NoFile /\ user \in {NoFile, who} /\ user' = who
    /\ IF IF who = "resource" THEN cached # NoFile
          ELSE ~forced /\ Young(IF who = "system" THEN systemFile ELSE cached)
       THEN /\ IF who = "ratings" THEN LoadRatings(cached)
               ELSE lastRefresh' = "ok" /\ UNCHANGED <<cached, ratings>>
            /\ UNCHANGED dl
       ELSE dl' = NewTransfer /\ lastRefresh' = "none" /\ UNCHANGED <<cached, ratings>>
    /\ UNCHANGED <<clock, server, systemFile>>

\* download_system_cb(), download_user_cb(), download_ratings_cb() after a
\* success.  The installation for the system may fail.
Downloaded(file) ==
    /\ dl' = NoFile
    /\ CASE user = "ratings" -> LoadRatings(file) /\ UNCHANGED systemFile
         [] user = "system" ->
               /\ cached' = file /\ UNCHANGED ratings
               /\ \/ systemFile' = [file EXCEPT !.mtime = clock, !.etag = NoFile] /\ lastRefresh' = "ok"
                  \/ lastRefresh' = "failed" /\ UNCHANGED systemFile
         [] OTHER -> cached' = file /\ lastRefresh' = "ok" /\ UNCHANGED <<systemFile, ratings>>

NotDownloaded == dl' = NoFile /\ lastRefresh' = "failed" /\ UNCHANGED <<cached, systemFile, ratings>>

-----------------------------------------------------------------------------
\* finish_download(): both streams are closed, what there is of them.
Finish(d, error) == [d EXCEPT !.stage = "closing", !.error = error]

\* g_file_replace_async() writes a file that does not exist in place, and a
\* copy of one that does.
OpenInPlace == IF dl.inPlace
               THEN cached' = [version |-> 0, units |-> 0, etag |-> NoFile, mtime |-> clock]
               ELSE UNCHANGED cached

\* download_replace_file_cb()
DownloadReplaceFileCb ==
    /\ dl # NoFile /\ dl.stage = "replacing"
    /\ \/ /\ OpenInPlace /\ dl' = [dl EXCEPT !.stage = "requesting", !.outOpen = TRUE, !.mtime = clock]
          /\ UNCHANGED <<systemFile, ratings, lastRefresh>>
       \/ NotDownloaded
    /\ UNCHANGED <<clock, server, user>>

\* What a server answers to If-None-Match or If-Modified-Since.
NotModified(d) == IF d.lastEtag # NoFile THEN d.lastEtag = server.version
                  ELSE d.lastModified # NoFile /\ server.modified <= d.lastModified

\* open_input_stream_cb(): the request failed, with or without a stream, the
\* file was not modified, or the content comes.  Not every answer has an ETag
\* or a length.
OpenInputStreamCb ==
    /\ dl # NoFile /\ dl.stage = "requesting"
    /\ \/ \E stream \in BOOLEAN : dl' = Finish([dl EXCEPT !.inOpen = stream], TRUE)
       \/ /\ NotModified(dl)
          /\ dl' = Finish([dl EXCEPT !.inOpen = TRUE, !.discard = TRUE, !.newEtag = dl.lastEtag,
                                     !.version = server.version], FALSE)
       \/ /\ ~NotModified(dl)
          /\ \E etag \in {server.version, NoFile}, length \in {0, Size} :
                dl' = [dl EXCEPT !.stage = "reading", !.inOpen = TRUE, !.version = server.version,
                                 !.newEtag = etag, !.expected = length]
    /\ UNCHANGED <<clock, server, user, cached, systemFile, ratings, lastRefresh>>

Expected(expected, read) == Max({expected, read})

\* read_bytes_cb(): an error, the end, or the next units.
ReadBytesCb ==
    /\ dl # NoFile /\ dl.stage = "reading"
    /\ \/ dl' = Finish(dl, TRUE)
       \/ dl.read = Size /\ dl' = Finish([dl EXCEPT !.expected = dl.read], FALSE)
       \/ \E n \in 1..(Size - dl.read) :
            dl' = [dl EXCEPT !.stage = "writing", !.read = @ + n, !.unwritten = n,
                             !.expected = Expected(@, dl.read + n)]
    /\ UNCHANGED <<clock, server, user, cached, systemFile, ratings, lastRefresh>>

\* write_bytes_cb(): an error, or a write of all or a part of the chunk.
WriteBytesCb ==
    /\ dl # NoFile /\ dl.stage = "writing"
    /\ \/ dl' = Finish(dl, TRUE) /\ UNCHANGED cached
       \/ \E n \in 1..dl.unwritten :
            /\ dl' = [dl EXCEPT !.stage = IF n = dl.unwritten THEN "reading" ELSE "writing",
                                !.unwritten = @ - n, !.written = @ + n, !.mtime = clock]
            /\ IF dl.inPlace
               THEN cached' = [version |-> dl.version, units |-> dl.written + n,
                               etag |-> NoFile, mtime |-> clock]
               ELSE UNCHANGED cached
    /\ UNCHANGED <<clock, server, user, systemFile, ratings, lastRefresh>>

\* The output stream is closed with a cancelled operation after an error and
\* when the file was not modified.
NeverCancelled(d) == FALSE              \* mutant: the close is not cancelled
Cancelled(d) == d.error \/ d.discard

\* close_stream_cb() of the output stream: the copy replaces the file, or the
\* close fails, which is an error unless it was cancelled to discard the copy.
CloseOutputCb ==
    /\ dl # NoFile /\ dl.stage = "closing" /\ dl.outOpen
    /\ \/ /\ ~Cancelled(dl)
          /\ cached' = IF dl.inPlace THEN cached
                       ELSE [version |-> dl.version, units |-> dl.written,
                             etag |-> NoFile, mtime |-> dl.mtime]
          /\ dl' = [dl EXCEPT !.outOpen = FALSE, !.discard = FALSE]
       \/ /\ \E fatal \in {TRUE, ~dl.discard} :
                dl' = [dl EXCEPT !.outOpen = FALSE, !.error = @ \/ fatal, !.discard = FALSE]
          /\ UNCHANGED cached
    /\ UNCHANGED <<clock, server, user, systemFile, ratings, lastRefresh>>

\* close_stream_cb() of the input stream: an error is not fatal.
CloseInputCb ==
    /\ dl # NoFile /\ dl.stage = "closing" /\ dl.inOpen
    /\ dl' = [dl EXCEPT !.inOpen = FALSE]
    /\ UNCHANGED <<clock, server, user, cached, systemFile, ratings, lastRefresh>>

Closed(d) == ~d.outOpen /\ ~d.inOpen

StoreWhenever ==                        \* mutant: the result is not looked at
    /\ dl # NoFile /\ dl.stage = "closing" /\ Closed(dl) /\ cached # NoFile
    /\ Downloaded([cached EXCEPT !.etag = dl.newEtag])
    /\ UNCHANGED <<clock, server, user>>

\* download_file_cb(): after a success the ETag is stored, or cannot be, and the
\* caller goes on.
DownloadFileCb ==
    /\ dl # NoFile /\ dl.stage = "closing" /\ Closed(dl)
    /\ IF dl.error THEN NotDownloaded
       ELSE \E etag \in {dl.newEtag, cached.etag} : Downloaded([cached EXCEPT !.etag = etag])
    /\ UNCHANGED <<clock, server, user>>

DownloadStep == \/ DownloadReplaceFileCb \/ OpenInputStreamCb \/ ReadBytesCb \/ WriteBytesCb
                \/ CloseOutputCb \/ CloseInputCb \/ DownloadFileCb

DownloadNext == \/ Tick \/ ServerChanges \/ Crash \/ DownloadStep
                \/ \E who \in Users, forced \in BOOLEAN : Refresh(who, forced)

DownloadFairness == WF_downloadVars(DownloadStep)
DownloadSpec == DownloadInit /\ [][DownloadNext]_downloadVars /\ DownloadFairness

-----------------------------------------------------------------------------
\* A file with an ETag is the whole of the version the ETag is of, whatever
\* failed or crashed in between: the server may be asked with it
\* (gs_download_stream_async() requires it of last_etag).
EtagOfContent == cached # NoFile /\ cached.etag # NoFile =>
                    Whole(cached) /\ cached.version = cached.etag

\* A file that is whole stays whole, and never goes back to an earlier version:
\* a download that fails, is cancelled or is not needed leaves it alone
\* (finish_download() cancels the close).
WholeStaysWhole ==
    [][Whole(cached) => Whole(cached') /\ cached'.version >= cached.version]_downloadVars

\* Progress never passes the expected size, and when the download answers its
\* streams are closed and nothing it has read is unwritten, unless it failed
\* (the assertions of download_progress() and download_data_free()).
NothingLeftOver ==
    [][/\ dl' # NoFile => dl'.written <= dl'.expected
       /\ dl # NoFile /\ dl' = NoFile /\ lastRefresh' = "ok" =>
             ~dl.outOpen /\ ~dl.inOpen /\ dl.unwritten = 0 /\ dl.written = dl.read]_downloadVars

\* The date of a file is correct to send as If-Modified-Since: a download of a
\* whole file is skipped only if the server has no later version
\* (download_file_cb()).
SkippedIsUpToDate ==
    dl # NoFile /\ dl.discard /\ Whole(cached) => cached.version = dl.version

\* A cached file and its ETag belong together in every state of a download.
DownloadInv == DownloadTypeOK /\ EtagOfContent

\* Why they do: what is true of the file while it is downloaded.  What was read
\* is written or about to be, and a transfer that ends without an error has
\* read nothing, when the file was not modified, or all.
TransferCounts ==
    dl # NoFile =>
        /\ dl.written + dl.unwritten = dl.read /\ dl.read <= dl.expected
        /\ dl.stage \in {"replacing", "requesting"} => dl.read = 0 /\ ~dl.error
        /\ dl.stage # "closing" => ~dl.discard
        /\ dl.stage \in {"requesting", "reading", "writing"} => dl.outOpen
        /\ dl.stage = "reading" => dl.unwritten = 0
        /\ dl.stage = "closing" /\ ~dl.error => dl.unwritten = 0 /\ dl.read \in {0, Size}
        /\ dl.stage = "closing" /\ ~dl.error /\ dl.outOpen => (dl.discard <=> dl.read = 0)

\* A file written in place has no ETag and holds what was written; a file that
\* is replaced is the old one until the transfer is complete.
TransferOfFile ==
    dl # NoFile =>
        /\ dl.stage = "replacing" => (dl.inPlace <=> cached = NoFile)
        /\ dl.stage # "replacing" => cached # NoFile
        /\ dl.inPlace => dl.lastEtag = NoFile /\ dl.lastModified = NoFile
        /\ dl.inPlace /\ dl.stage # "replacing" =>
              /\ cached.etag = NoFile /\ cached.units = dl.written
              /\ cached.version = IF dl.written = 0 THEN 0 ELSE dl.version
        /\ ~dl.inPlace /\ dl.read = 0 => cached.etag = dl.lastEtag
        /\ dl.stage = "closing" /\ ~dl.error /\ dl.read = 0 => ~dl.inPlace /\ dl.newEtag = dl.lastEtag
        /\ dl.stage = "closing" /\ ~dl.error /\ dl.read = Size /\ ~dl.outOpen =>
              cached.version = dl.version /\ cached.units = Size /\ cached.etag = NoFile

\* Neither the file nor what the server answered is newer than the server, and
\* the answer is not older than the file.
TransferVersions ==
    /\ cached # NoFile => cached.version <= server.version
    /\ dl # NoFile =>
        /\ dl.version <= server.version
        /\ dl.stage \in {"reading", "writing"} \/ (dl.stage = "closing" /\ ~dl.error) =>
              dl.version \in Versions /\ cached.version <= dl.version
        /\ dl.stage \in {"reading", "writing"} \/ (dl.stage = "closing" /\ ~dl.error /\ dl.read = Size) =>
              dl.newEtag \in {dl.version, NoFile}

TransferInv == DownloadInv /\ TransferCounts /\ TransferOfFile /\ TransferVersions

\* No step of a download loses a file that is whole, or a part of what it has
\* read.
DownloadKeeps == WholeStaysWhole /\ NothingLeftOver
=============================================================================
