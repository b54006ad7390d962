---------------------------- MODULE ReciprocalRom ----------------------------
(* The ROM of the division unit (src/rsp/reciprocal.cpp): mantissas of the     *)
(* reciprocals, then of the reciprocal square roots.  Entry idx of the code is *)
(* rsp_reciprocal_rom[idx + 1].                                                *)

rsp_reciprocal_rom == <<
  65535, 65280, 65025, 64772, 64519, 64268, 64017, 63768, 63519, 63271, 63025, 62779, 62534, 62290, 62047, 61805,
  61564, 61323, 61084, 60846, 60608, 60371, 60136, 59901, 59667, 59433, 59201, 58970, 58739, 58509, 58281, 58053,
  57825, 57599, 57374, 57149, 56925, 56702, 56480, 56258, 56038, 55818, 55599, 55380, 55163, 54946, 54730, 54515,
  54301, 54087, 53874, 53662, 53451, 53240, 53030, 52821, 52613, 52405, 52198, 51992, 51787, 51582, 51378, 51175,
  50972, 50770, 50569, 50368, 50168, 49969, 49771, 49573, 49376, 49180, 48984, 48789, 48594, 48400, 48207, 48015,
  47823, 47632, 47441, 47252, 47062, 46874, 46686, 46498, 46312, 46126, 45940, 45755, 45571, 45387, 45204, 45022,
  44840, 44659, 44478, 44298, 44119, 43940, 43761, 43584, 43406, 43230, 43054, 42878, 42704, 42529, 42356, 42182,
  42010, 41838, 41666, 41495, 41325, 41155, 40986, 40817, 40648, 40481, 40313, 40147, 39981, 39815, 39650, 39485,
  39321, 39158, 38994, 38832, 38670, 38508, 38347, 38187, 38027, 37867, 37708, 37549, 37391, 37234, 37076, 36920,
  36764, 36608, 36453, 36298, 36144, 35990, 35836, 35684, 35531, 35379, 35228, 35076, 34926, 34776, 34626, 34477,
  34328, 34179, 34032, 33884, 33737, 33590, 33444, 33298, 33153, 33008, 32864, 32720, 32576, 32433, 32290, 32147,
  32005, 31864, 31723, 31582, 31442, 31302, 31162, 31023, 30884, 30746, 30608, 30470, 30333, 30197, 30060, 29924,
  29789, 29653, 29519, 29384, 29250, 29116, 28983, 28850, 28718, 28585, 28454, 28322, 28191, 28060, 27930, 27800,
  27670, 27541, 27412, 27284, 27155, 27027, 26900, 26773, 26646, 26520, 26393, 26268, 26142, 26017, 25892, 25768,
  25644, 25520, 25397, 25274, 25151, 25029, 24907, 24785, 24664, 24543, 24422, 24301, 24181, 24061, 23942, 23823,
  23704, 23586, 23467, 23349, 23232, 23115, 22998, 22881, 22765, 22649, 22533, 22417, 22302, 22188, 22073, 21959,
  21845, 21731, 21618, 21505, 21392, 21280, 21167, 21056, 20944, 20833, 20722, 20611, 20501, 20390, 20280, 20171,
  20062, 19953, 19844, 19735, 19627, 19519, 19411, 19304, 19197, 19090, 18983, 18877, 18771, 18665, 18560, 18455,
  18350, 18245, 18140, 18036, 17932, 17829, 17725, 17622, 17519, 17416, 17314, 17212, 17110, 17008, 16907, 16806,
  16705, 16604, 16504, 16404, 16304, 16204, 16104, 16005, 15906, 15808, 15709, 15611, 15513, 15415, 15318, 15220,
  15123, 15026, 14930, 14833, 14737, 14641, 14546, 14450, 14355, 14260, 14165, 14071, 13976, 13882, 13788, 13695,
  13601, 13508, 13415, 13322, 13230, 13137, 13045, 12953, 12862, 12770, 12679, 12588, 12497, 12406, 12316, 12226,
  12136, 12046, 11956, 11867, 11778, 11689, 11600, 11512, 11423, 11335, 11247, 11159, 11072, 10984, 10897, 10810,
  10724, 10637, 10551, 10464, 10379, 10293, 10207, 10122, 10037, 9952, 9867, 9782, 9698, 9613, 9529, 9445,
  9362, 9278, 9195, 9112, 9029, 8946, 8864, 8781, 8699, 8617, 8535, 8453, 8372, 8291, 8210, 8129,
  8048, 7967, 7887, 7807, 7726, 7647, 7567, 7487, 7408, 7329, 7250, 7171, 7092, 7014, 6935, 6857,
  6779, 6701, 6624, 6546, 6469, 6392, 6315, 6238, 6161, 6084, 6008, 5932, 5856, 5780, 5704, 5629,
  5553, 5478, 5403, 5328, 5253, 5179, 5104, 5030, 4956, 4882, 4808, 4735, 4661, 4588, 4515, 4441,
  4369, 4296, 4223, 4151, 4079, 4006, 3934, 3863, 3791, 3719, 3648, 3577, 3506, 3435, 3364, 3293,
  3223, 3152, 3082, 3012, 2942, 2872, 2802, 2733, 2664, 2594, 2525, 2456, 2387, 2319, 2250, 2182,
  2114, 2045, 1977, 1910, 1842, 1774, 1707, 1640, 1572, 1505, 1438, 1372, 1305, 1238, 1172, 1106,
  1040, 974, 908, 842, 777, 711, 646, 581, 516, 451, 386, 321, 257, 192, 128, 64,
  27145, 65535, 26965, 65280, 26785, 65026, 26607, 64774, 26430, 64523, 26253, 64274, 26078, 64026, 25904, 63779,
  25730, 63534, 25558, 63291, 25387, 63048, 25216, 62807, 25047, 62567, 24878, 62329, 24711, 62092, 24544, 61856,
  24378, 61622, 24213, 61389, 24049, 61157, 23886, 60927, 23724, 60697, 23563, 60469, 23403, 60242, 23243, 60017,
  23084, 59792, 22927, 59569, 22770, 59347, 22613, 59126, 22458, 58907, 22304, 58688, 22150, 58471, 21997, 58254,
  21845, 58039, 21694, 57825, 21543, 57613, 21393, 57401, 21244, 57190, 21096, 56980, 20949, 56772, 20802, 56564,
  20656, 56358, 20511, 56153, 20366, 55948, 20222, 55745, 20079, 55543, 19937, 55341, 19795, 55141, 19654, 54942,
  19514, 54743, 19375, 54546, 19236, 54350, 19098, 54154, 18960, 53960, 18823, 53766, 18687, 53574, 18552, 53382,
  18417, 53191, 18283, 53002, 18149, 52813, 18016, 52625, 17884, 52438, 17752, 52251, 17621, 52066, 17491, 51881,
  17361, 51698, 17231, 51515, 17103, 51333, 16975, 51152, 16847, 50972, 16721, 50793, 16594, 50614, 16469, 50436,
  16344, 50259, 16219, 50083, 16095, 49908, 15972, 49733, 15849, 49560, 15726, 49387, 15605, 49215, 15484, 49043,
  15363, 48873, 15243, 48703, 15123, 48534, 15004, 48365, 14886, 48198, 14768, 48031, 14650, 47864, 14533, 47699,
  14417, 47534, 14301, 47370, 14185, 47207, 14070, 47045, 13956, 46883, 13842, 46721, 13728, 46561, 13615, 46401,
  13503, 46242, 13391, 46084, 13279, 45926, 13168, 45769, 13058, 45612, 12947, 45457, 12838, 45301, 12729, 45147,
  12620, 44993, 12511, 44840, 12404, 44687, 12296, 44535, 12189, 44384, 12083, 44233, 11976, 44083, 11871, 43934,
  11766, 43785, 11661, 43637, 11556, 43489, 11452, 43342, 11349, 43196, 11246, 43050, 11143, 42905, 11041, 42760,
  10939, 42616, 10837, 42472, 10736, 42329, 10635, 42187, 10535, 42045, 10435, 41904, 10336, 41763, 10237, 41623,
  10138, 41483, 10040, 41344, 9942, 41206, 9844, 41068, 9747, 40930, 9650, 40793, 9554, 40657, 9458, 40521,
  9362, 40386, 9266, 40251, 9171, 40116, 9077, 39983, 8983, 39849, 8889, 39717, 8795, 39584, 8702, 39452,
  8609, 39321, 8517, 39190, 8424, 39060, 8333, 38930, 8241, 38801, 8150, 38672, 8059, 38543, 7969, 38415,
  7879, 38288, 7789, 38161, 7699, 38034, 7610, 37908, 7521, 37783, 7433, 37658, 7345, 37533, 7257, 37409,
  7169, 37285, 7082, 37161, 6995, 37039, 6908, 36916, 6822, 36794, 6736, 36672, 6650, 36551, 6565, 36431,
  6480, 36310, 6395, 36190, 6311, 36071, 6227, 35952, 6143, 35833, 6059, 35715, 5976, 35597, 5893, 35480,
  5810, 35363, 5728, 35246, 5645, 35130, 5564, 35014, 5482, 34899, 5401, 34784, 5320, 34669, 5239, 34555,
  5158, 34441, 5078, 34328, 4998, 34215, 4919, 34102, 4839, 33990, 4760, 33878, 4681, 33767, 4603, 33655,
  4524, 33545, 4446, 33434, 4369, 33324, 4291, 33215, 4214, 33105, 4137, 32996, 4060, 32888, 3983, 32780,
  3907, 32672, 3831, 32564, 3755, 32457, 3680, 32350, 3605, 32244, 3530, 32138, 3455, 32032, 3380, 31926,
  3306, 31821, 3232, 31717, 3158, 31612, 3084, 31508, 3011, 31404, 2938, 31301, 2865, 31198, 2792, 31095,
  2720, 30993, 2648, 30891, 2576, 30789, 2504, 30687, 2433, 30586, 2361, 30485, 2290, 30385, 2219, 30285,
  2149, 30185, 2078, 30085, 2008, 29986, 1938, 29887, 1869, 29789, 1799, 29690, 1730, 29592, 1661, 29495,
  1592, 29397, 1523, 29300, 1455, 29203, 1386, 29107, 1318, 29010, 1250, 28914, 1183, 28819, 1115, 28723,
  1048, 28628, 981, 28534, 914, 28439, 848, 28345, 781, 28251, 715, 28157, 649, 28064, 583, 27971,
  518, 27878, 452, 27786, 387, 27693, 322, 27601, 257, 27510, 192, 27418, 128, 27327, 64, 27236>>
==============================================================================
